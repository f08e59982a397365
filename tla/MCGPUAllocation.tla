---------------------------- MODULE MCGPUAllocation ----------------------------
(* Constants for model checking GPUAllocation. *)
EXTENDS GPUAllocation, TLC

CONSTANTS c1, c2, c3, g1, g2

Amount(t, v) == [d \in Dim |-> IF d = "tflops" THEN t ELSE v]

\* c1 fits on both GPUs.  c2 fits only on g1, and not together with c1, for lack
\* of video memory alone.
MCReq == [c \in Conns |-> Amount(1, IF c = c2 THEN 2 ELSE 1)]
MCCap == [g \in GPUs |-> Amount(2, IF g = g1 THEN 2 ELSE 1)]

\* Equal requests, for the run with symmetric connections.
MCReqOne == [c \in Conns |-> Amount(1, 1)]
Symmetry == Permutations(Conns)
================================================================================
