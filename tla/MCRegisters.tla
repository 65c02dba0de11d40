----------------------------- MODULE MCRegisters -----------------------------
EXTENDS Registers, TLC

CONSTANTS a1, f1, f2, u1, rA, rB, whole, month, c1, c2

MCAssets == {a1}
MCFaenas == {f1, f2}
MCUsers == {u1}
MCRoles == {rA, rB}
MCSystemRoles == {rA}
MCScopes == {whole, month}
MCFullScopes == {month}
MCCalls == {c1, c2}
Alike == Permutations(MCCalls) \cup Permutations(MCFaenas)
=============================================================================
