---------------------------- MODULE MCPoolCapacity ----------------------------
EXTENDS PoolCapacity, TLC

T(n, t, v, g, c, a) == [instanceType |-> n, tflops |-> t, vram |-> v, gpus |-> g,
                        cost |-> c, arch |-> "amd64", gpuArch |-> a]
MCCatalog == <<T("a", 2, 1, 1, 2, "Turing"), T("b", 1, 2, 2, 3, "Turing"),
               T("z", 0, 1, 1, 0, "Turing"), T("h", 4, 2, 1, 3, "Hopper")>>
MCRatio == [r \in {"r1", "r2"} |-> IF r = "r1" THEN 10 ELSE 7]

R(k, op, v) == [key |-> k, op |-> op, values |-> v]
Zone == R("zone", "In", <<"z1", "z2">>)
\* Only Turing, on demand in another region; any type; without a zone.
Turing == <<R("region", "NotIn", <<"r2">>), R("gpuArch", "In", <<"Turing">>), Zone,
            R("capacityType", "In", <<"OnDemand", "Reserved">>)>>
AnyType == <<R("region", "In", <<"r2">>), R("capacityType", "In", <<"OnDemand", "Spot">>),
            R("arch", "In", <<"amd64">>), Zone>>
NoZone == <<R("zone", "NotIn", <<"z1">>)>>

A(t, v) == [tflops |-> t, vram |-> v]
C(mi, wa, ma, r) == [min |-> mi, warm |-> wa, max |-> ma, reqs |-> r]
\* Pools with every small minimum run undisturbed; a few are disturbed.
Calm == {C(A(t, v), None, None, r) : t \in 0..5, v \in 0..7, r \in {Turing, AnyType}}
          \cup {C(A(1, 1), None, None, NoZone)}
Rough == [c \in {C(A(3, 5), None, None, Turing),
                 C(A(2, 1), A(1, 1), A(5, 3), Turing)} |-> 1]
Rougher == [c \in {C(A(3, 3), None, A(2, 9), AnyType),
                   C(None, A(1, 1), A(3, 9), Turing)} |-> 2]
MCMaxFaults == Rougher @@ Rough @@ [c \in Calm |-> 0]
MCConfigs == DOMAIN MCMaxFaults
===============================================================================
