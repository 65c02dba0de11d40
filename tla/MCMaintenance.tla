---------------------------- MODULE MCMaintenance ----------------------------
EXTENDS Maintenance, TLC

CONSTANTS a1, o1, o2, c1, c2

MCAssets == {a1}
MCOrders == {o1, o2}
MCCalls == {c1, c2}
Alike == Permutations(MCOrders) \cup Permutations(MCCalls)
=============================================================================
