SPECIFICATION Spec
CONSTANTS
    a1 = a1
    f1 = f1
    f2 = f2
    u1 = u1
    rA = rA
    rB = rB
    whole = whole
    month = month
    c1 = c1
    c2 = c2
    NULL = NULL
    Assets <- MCAssets
    Faenas <- MCFaenas
    Users <- MCUsers
    Roles <- MCRoles
    SystemRoles <- MCSystemRoles
    Scopes <- MCScopes
    FullScopes <- MCFullScopes
    Amounts = {1, 2}
    Calls <- MCCalls
    MaxCalls = 4
SYMMETRY Alike
CHECK_DEADLOCK FALSE
INVARIANTS
    TypeOK
    AssignedToOneFaena
    RolesAsGiven
    
