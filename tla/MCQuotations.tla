----------------------------- MODULE MCQuotations -----------------------------
EXTENDS Quotations, TLC

CONSTANTS q1, q2, r1, v1, v2, c1, c2

MCQuotes == {q1, q2}
MCRequests == {r1}
MCSuppliers == {v1, v2}
MCCalls == {c1, c2}
Alike == Permutations(MCQuotes) \cup Permutations(MCCalls) \cup Permutations(MCSuppliers)
=============================================================================
