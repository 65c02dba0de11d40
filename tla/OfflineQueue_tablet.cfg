SPECIFICATION TabletSpec
CONSTANTS
    p1 = p1
    p2 = p2
    d1 = d1
    s1 = s1
    s2 = s2
    Pedidos <- MCPedidos
    Despachos <- MCDespachos
    Syncs <- MCSyncs
    Number <- MCNumber
    MaxFaults = 1
    MaxRows = 2
INVARIANTS
    MadeTwiceOnlyWhenDoubted
    
