SPECIFICATION Spec
CONSTANTS
    Procs = {p1, p2, p3}
    NULL = NULL
    Items <- MCItems
    Warehouses <- MCWarehouses
    Months <- MCMonths
    MaxCost <- MCMaxCost
    Requests <- LockedRequests
    OpeningStock <- MCOpening
SYMMETRY ProcSymmetry
INVARIANT TypeOK
INVARIANT StockMatchesLedger
INVARIANT StockNeverNegative
INVARIANT PmpWithinReceivedCosts
PROPERTY ImplementsSequentialStock
