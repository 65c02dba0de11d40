SPECIFICATION FairSpec
CONSTANTS
    admin = admin
    boss = boss
    mine = mine
    c1 = c1
    c2 = c2
    NULL = NULL
    People <- MCPeople
    Super <- MCSuper
    Companies <- MCCompanies
    Home <- MCHome
    Calls <- MCCalls
    AccessLife = 2
    RefreshLife = 3
    MaxTime = 3
    MaxSends = 2
    MaxEdits = 1
INVARIANTS
    ActsWhereShown
    ReturnsToOwnSession
    
PROPERTIES
    EveryRequestSettles
