SPECIFICATION Spec
CONSTANTS
    q1 = q1
    q2 = q2
    r1 = r1
    v1 = v1
    v2 = v2
    c1 = c1
    c2 = c2
    NULL = NULL
    Quotes <- MCQuotes
    Requests <- MCRequests
    Suppliers <- MCSuppliers
    Calls <- MCCalls
    FirstStatus = {"SOLICITADA", "SELECCIONADA"}
    Prices = {1, 2}
    MaxCalls = 4
SYMMETRY Alike
CHECK_DEADLOCK FALSE
INVARIANTS
    
    
    TotalMatchesLines
