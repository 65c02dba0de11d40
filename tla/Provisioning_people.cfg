SPECIFICATION Spec
CONSTANTS
    north = north
    south = south
    ana = ana
    ben = ben
    c1 = c1
    c2 = c2
    NULL = NULL
    Slugs <- MCSlugs
    Emails <- MCEmails
    Calls <- MCCalls
    MaxCalls = 4
    CallerTenants = {0, 1}
SYMMETRY Alike
CHECK_DEADLOCK FALSE
INVARIANTS
    RemovesOnlyItsUsers
    
    ServedCompanyHasPeople
