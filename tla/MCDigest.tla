------------------------------ MODULE MCDigest ------------------------------
EXTENDS Digest

CONSTANTS t1, s1, s2

MCTenants == {t1}
MCSweeps == {s1, s2}
MCOffset == -1
=============================================================================
