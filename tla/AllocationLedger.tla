---------------------------- MODULE AllocationLedger ----------------------------
(***************************************************************************)
(* What the allocator of GPU shares promises: a connection obtains its     *)
(* whole request from one GPU that has that much left, keeps it, and gives *)
(* it back once.                                                           *)
(***************************************************************************)
EXTENDS Integers

CONSTANTS Conns, GPUs, None, Req, Cap, Dim

VARIABLES free,    \* what each GPU has left
          holder   \* the GPU each connection holds a share of

Init == free = Cap /\ holder = [c \in Conns |-> None]

Reserve(c, g) ==
    /\ holder[c] = None
    /\ \A d \in Dim : free[g][d] >= Req[c][d]
    /\ free' = [free EXCEPT ![g] = [d \in Dim |-> @[d] - Req[c][d]]]
    /\ holder' = [holder EXCEPT ![c] = g]

GiveBack(c) ==
    /\ holder[c] # None
    /\ free' = [free EXCEPT ![holder[c]] = [d \in Dim |-> @[d] + Req[c][d]]]
    /\ holder' = [holder EXCEPT ![c] = None]

Next == \E c \in Conns : GiveBack(c) \/ \E g \in GPUs : Reserve(c, g)

Spec == Init /\ [][Next]_<<free, holder>>
=================================================================================
