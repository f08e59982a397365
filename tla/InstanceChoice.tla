----------------------------- MODULE InstanceChoice -----------------------------
(***************************************************************************)
(* Which cloud instances fill a gap in a pool's capacity.                  *)
(*                                                                         *)
(* Modelled code: cloudprovider/common/utils.go and the tables of prices   *)
(* (cloudprovider/alibaba/pricing.go).  VRAM is counted in bytes, that of  *)
(* an instance in GiB; prices are whole numbers and ratios are tenths.     *)
(***************************************************************************)
EXTENDS Integers, Sequences, FiniteSetsExt

CONSTANTS
    Catalog,     \* GPUInstanceTypeInfo
    Ratio,       \* RegionCostDifferenceRatio, for every region
    GiB,         \* bytes per GiB
    MaxPerLoop   \* MAX_NODES_PER_RECONCILE_LOOP

ASSUME CatalogAssumption ==
    /\ GiB \in Nat \ {0} /\ MaxPerLoop \in Nat \ {0}
    /\ Len(Catalog) \in Nat /\ DOMAIN Catalog = 1..Len(Catalog)
    /\ \A r \in DOMAIN Ratio : Ratio[r] \in Nat
    /\ \A i \in DOMAIN Catalog :
         /\ Catalog[i].tflops \in Nat /\ Catalog[i].vram \in Nat
         /\ Catalog[i].gpus \in Nat /\ Catalog[i].cost \in Nat

Dims == {"tflops", "vram"}

\* The requirements of a key with the operator In, in the order they are given.
Ins(reqs, key) == SelectSeq(reqs, LAMBDA r : r.key = key /\ r.op = "In")

\* The first loop over the requirements looks at any operator, the second at In.
Region(reqs, default) ==
    LET In  == Ins(reqs, "region")
        Any == SelectSeq(reqs, LAMBDA r : r.key = "region") IN
    IF In # <<>> THEN In[Len(In)].values[1]
    ELSE IF Any # <<>> THEN Any[1].values[1] ELSE default

\* Spot unless a requirement leaves it out; the last of those decides.
CapacityType(reqs) ==
    LET Other == SelectSeq(Ins(reqs, "capacityType"),
                           LAMBDA r : \A i \in DOMAIN r.values : r.values[i] # "Spot") IN
    IF Other = <<>> THEN "Spot" ELSE Other[Len(Other)].values[1]

Zones(reqs) ==
    LET In == Ins(reqs, "zone") IN IF In = <<>> THEN <<>> ELSE In[Len(In)].values

\* getEligibleInstances.
Eligible(reqs) ==
    {i \in DOMAIN Catalog :
       \A key \in {"instanceType", "arch", "gpuArch"} : \A j \in DOMAIN Ins(reqs, key) :
         \E k \in DOMAIN Ins(reqs, key)[j].values :
           Ins(reqs, key)[j].values[k] = Catalog[i][key]}

GetInstancePricing(i, region, capacityType) ==
    Catalog[i].cost * Ratio[region] * (IF capacityType = "Spot" THEN 3 ELSE 10)

\* What an instance adds to the pool.
Offered(i) == [tflops |-> Catalog[i].tflops * Catalog[i].gpus,
               vram   |-> Catalog[i].vram * Catalog[i].gpus * GiB]

\* Division by zero is avoided.
Usable(reqs) == {i \in Eligible(reqs) : \A d \in Dims : Offered(i)[d] > 0}

CeilDiv(a, b) == -((-a) \div b)

\* Mutant of NumInstances: rounds down.
NumInstancesFloor(i, gap) ==
    Max({gap[d] \div Offered(i)[d] : d \in Dims} \cup {1})

NumInstances(i, gap) == Max({CeilDiv(gap[d], Offered(i)[d]) : d \in Dims})

\* What CalculateLeastCostGPUNodes makes of the requirements: the prices of the
\* types to choose from, none of them if no zone is given.
Prices(reqs, default) ==
    [i \in IF Zones(reqs) = <<>> THEN {} ELSE Usable(reqs) |->
       GetInstancePricing(i, Region(reqs, default), CapacityType(reqs))]

\* The cheapest sufficient number of one type, the first such type in the catalog.
Cheapest(prices, gap) ==
    LET plans == {[type |-> i, num |-> NumInstances(i, gap)] : i \in DOMAIN prices}
        Cost(p) == prices[p.type] * p.num IN
    CHOOSE p \in plans : \A q \in plans :
      \/ Cost(p) < Cost(q)
      \/ Cost(p) = Cost(q) /\ p.type <= q.type

\* Mutant of Choose: the number is not limited.
ChooseAny(prices, gap) ==
    IF DOMAIN prices = {} THEN [type |-> 0, num |-> 0] ELSE Cheapest(prices, gap)

\* The rest of CalculateLeastCostGPUNodes; type 0 stands for the error.
Choose(prices, gap) ==
    IF DOMAIN prices = {} THEN [type |-> 0, num |-> 0]
    ELSE [Cheapest(prices, gap) EXCEPT !.num = IF @ > MaxPerLoop THEN MaxPerLoop ELSE @]

================================================================================
