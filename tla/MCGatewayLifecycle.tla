-------------------------- MODULE MCGatewayLifecycle --------------------------
(* Small instances of GatewayLifecycle for TLC. *)
EXTENDS GatewayLifecycle

CONSTANTS w1, w2, p1

MCCallers == {Handler, Watcher, Main}
===============================================================================
