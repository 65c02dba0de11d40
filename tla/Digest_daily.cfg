SPECIFICATION FairDigestSpec
CONSTANTS
    t1 = t1
    s1 = s1
    s2 = s2
    Nobody = Nobody
    Tenants <- MCTenants
    Sweeps <- MCSweeps
    SlotsPerDay = 2
    Target = 1
    Offset <- MCOffset
    MaxTime = 4
    MaxFaults = 1
    MaxChanges = 2
    MaxSent = 2
INVARIANTS
    RepeatedOnlyWhenExcused

    
