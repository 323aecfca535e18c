-------------------------- MODULE MCPluginActivation --------------------------
(* Small instances of PluginActivation for TLC. *)
EXTENDS PluginActivation, TLC

CONSTANTS t1, t2, t3, p1, p2, quota

MCCallers  == {t1, t2, t3}
MCPlugins  == {p1, p2}
MCPrefixes == {Blank, quota}
MCSymmetry == Permutations(MCCallers) \cup Permutations(MCPlugins)
===============================================================================
