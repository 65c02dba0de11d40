SPECIFICATION FairSpec
CONSTANTS
    Procs = {p1, p2, p3}
    NULL = NULL
    Items <- MCItems
    Warehouses <- MCWarehouses
    Months <- MCMonths
    MaxCost <- MCMaxCost
    Requests <- AllRequests
    OpeningStock <- MCOpeningBoth
PROPERTY EveryRequestEnds
PROPERTY ImplementsSequentialStock
