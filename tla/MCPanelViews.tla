---------------------------- MODULE MCPanelViews ----------------------------
(* Small instance of PanelViews. *)
EXTENDS PanelViews

CONSTANTS c1, c2, u1, u2, n1, q1, q2

Pair(g, p) == [game |-> g, other |-> p]

(* A pod that states a limit and one that states none. *)
MCLimits == {Pair(4, None), Pair(None, None)}
(* Two containers, together above the limit. *)
MCSamples == {Pair(3, 3)}
MCVolumes == {[used |-> 1, capacity |-> 3]}
MCNodes == {n1}
MCPolls == {q1, q2}
MCClusters == {c1, c2}
MCCustomers == {u1, u2}
=============================================================================
