---------------------------- MODULE MCOfflineQueue ----------------------------
(* Two request forms filled in one millisecond apart from a multiple of 1000 *)
(* seconds, so that both are given one number, and one fuel form.            *)
EXTENDS OfflineQueue, TLC

CONSTANTS p1, p2, d1, s1, s2

MCPedidos == {p1, p2}
MCDespachos == {d1}
MCSyncs == {s1, s2}
MCNumber == [i \in MCPedidos |-> 1]
=============================================================================
