---------------------------- MODULE MCProxyCircuit ----------------------------
(* Small instances of ProxyCircuit for TLC. *)
EXTENDS ProxyCircuit

CONSTANTS r1, r2, r3

MCRequests == {r1, r2, r3}
===============================================================================
