--------------------------- MODULE MCPluginLoader ---------------------------
(***************************************************************************)
(* All dependency graphs of three plugins, each with up to two             *)
(* dependencies in either order, and all requests of one or two plugins.   *)
(***************************************************************************)
EXTENDS PluginLoader

CONSTANTS p1, p2, p3

MCPlugin == {p1, p2, p3}
MCLists(max) == UNION {[1 .. n -> MCPlugin] : n \in 0 .. max}
MCGraphs == [MCPlugin -> MCLists(2)]
MCRequests == MCLists(2) \ {<<>>}
=============================================================================
