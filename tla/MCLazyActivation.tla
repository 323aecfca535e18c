--------------------------- MODULE MCLazyActivation ---------------------------
(* Small instances of LazyActivation for TLC. *)
EXTENDS LazyActivation

CONSTANTS in1, out1, out2, r1, r2, n1, n2
===============================================================================
