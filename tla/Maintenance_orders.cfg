SPECIFICATION Spec
CONSTANTS
    a1 = a1
    o1 = o1
    o2 = o2
    c1 = c1
    c2 = c2
    NULL = NULL
    Assets <- MCAssets
    Orders <- MCOrders
    Calls <- MCCalls
    Costs = {1}
    Readings = {0, 1, 2, 3}
    MaxCalls = 4
    MaxEdits = 1
SYMMETRY Alike
CHECK_DEADLOCK FALSE
INVARIANTS
    TypeOK
    CostNeverOverstated
    NotReleasedEarly
    NotHeldForNothing
PROPERTIES
    ReopenedOnlyWhenStale
    MeterGoesBackOnlyWhenStale
