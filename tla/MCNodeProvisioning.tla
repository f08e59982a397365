-------------------------- MODULE MCNodeProvisioning --------------------------
(* Constants for model checking NodeProvisioning. *)
EXTENDS NodeProvisioning

CONSTANTS n1, n2
===============================================================================
