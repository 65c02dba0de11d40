SPECIFICATION FairSpec
CONSTANTS
    Procs = {p1, p2}
    Orders = {o1}
    FieldRequests = {r1}
    NULL = NULL
    MaxMovements = 2
    Users <- MCUsers
    RoleLimits <- MCRoleLimits
    SuperUsers <- MCSuperUsers
    Calls <- TradeCalls
    OpeningOrders <- NoOrders
    OpeningAuths = {}
    OpeningRequests <- NoRequests
INVARIANT TypeOK
 
PROPERTY ReceptionOfOpenOrder
PROPERTY ReopenedOnlyByDecision
PROPERTY EveryCallEnds
