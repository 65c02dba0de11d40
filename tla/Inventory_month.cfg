SPECIFICATION Spec
CONSTANTS
    Procs = {p1, p2, p3}
    NULL = NULL
    Items <- MCItems
    Warehouses <- MCWarehouses
    Months <- MCMonths
    MaxCost <- MCMaxCost
    Requests <- OneMonthRequests
    OpeningStock <- MCOpeningBoth
SYMMETRY ProcSymmetry
INVARIANT KardexMatchesStock
 
