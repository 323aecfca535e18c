------------------------------ MODULE MCSseStream ------------------------------
(* A small instance of SseStream for TLC: texts of up to eleven bytes.      *)
EXTENDS SseStream

CONSTANTS first, second

Symmetry == Permutations({first, second})
===============================================================================
