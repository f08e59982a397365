--------------------------- MODULE MCConnectionRouter ---------------------------
(* Constants for model checking ConnectionRouter. *)
EXTENDS ConnectionRouter

CONSTANTS r1, r2
=================================================================================
