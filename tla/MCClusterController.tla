-------------------------- MODULE MCClusterController --------------------------
EXTENDS ClusterController, TLC
CONSTANTS p1, p2, ali, ali2, aws, gcp

MCTypeOf == (ali :> "alibaba") @@ (ali2 :> "alibaba") @@ (aws :> "aws") @@ (gcp :> "gcp")
S(a, b, v) == [pools |-> (p1 :> a) @@ (p2 :> b), vendor |-> v]
\* aws and ali2 are refused by their clouds, gcp is not supported.
MCSpecs == {S("t1", None, None), S("t2", "t1", ali), S("t2", None, ali2),
            S("t1", "t1", aws), S("t1", None, gcp)}
================================================================================
