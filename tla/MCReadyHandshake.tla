---------------------------- MODULE MCReadyHandshake ----------------------------
(* A small instance of ReadyHandshake for TLC. *)
EXTENDS ReadyHandshake

CONSTANTS first, second
===============================================================================
