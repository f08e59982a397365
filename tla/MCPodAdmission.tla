---------------------------- MODULE MCPodAdmission ----------------------------
EXTENDS PodAdmission
CONSTANTS p1, p2, pool, other

A(a, b, c, d) == [tflopsReq |-> a, vramReq |-> b, tflopsLim |-> c, vramLim |-> d]
Bare == A(Absent, Absent, Absent, Absent)
M(e, g, a, b, env) == [enabled |-> e, pool |-> g, ann |-> <<a, b>>, env |-> <<env, <<>>>>]

\* A limit without its request, an unreadable text and none; a missing pool; no
\* label; a copy of the pod p1, with a negative quantity.
MCManifests ==
    {M(TRUE, pool, A(1, Absent, 2, 2), A(1, Unreadable, Absent, 3), <<>>),
     M(TRUE, other, A(1, 1, 1, 1), Bare, <<>>),
     M(FALSE, pool, A(2, -1, 2, 1), Bare, <<>>),
     M(TRUE, pool, A(2, -1, 2, 1), Bare, <<<<p1, 1>>>>)}
===============================================================================
