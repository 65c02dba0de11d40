SPECIFICATION Spec
CONSTANTS
    Procs = {p1, p2, p3}
    Tenants = {t1, t2}
    Series = {"MOV", "COT", "MOV_YEAR"}
    Base = 10
    Padded = 10000
    MaxNumber = 2
    NULL = NULL
SYMMETRY MCSymmetry
INVARIANT LockedFolioIsOwn
 
