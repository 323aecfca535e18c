---------------------------- MODULE MCTokenRefresh ----------------------------
(* Small instances of TokenRefresh for TLC. *)
EXTENDS TokenRefresh

CONSTANTS r1, r2
===============================================================================
