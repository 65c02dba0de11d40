----------------------------- MODULE MCInventory -----------------------------
(* Small instances of Inventory: two items, two warehouses, the last days of *)
(* one month and the first of the next.                                      *)
EXTENDS StockRefinement, TLC

MCItems == {"oil", "filter"}
MCWarehouses == {"central", "mine"}
MCMonths == {"jan", "feb"}
MCMaxCost == 8

\* Oil in stock at the central warehouse; the other rows do not exist yet.
MCOpening ==
    [k \in MCItems \X MCWarehouses |->
        IF k = <<"oil", "central">> THEN [exists |-> TRUE, qty |-> 3, cost |-> 4]
        ELSE [exists |-> FALSE, qty |-> 0, cost |-> 0]]

\* Both rows of the oil exist: transfers may cross.
MCOpeningBoth ==
    [k \in MCItems \X MCWarehouses |->
        IF k[1] = "oil" THEN [exists |-> TRUE, qty |-> 2, cost |-> 4]
        ELSE [exists |-> FALSE, qty |-> 0, cost |-> 0]]

L(item, qty, cost) == [item |-> item, qty |-> qty, cost |-> cost]
R(kind, wh, target, month, lines) ==
    [kind |-> kind, wh |-> wh, target |-> target, month |-> month, lines |-> lines]

In(m)  == R("INGRESO", "central", NULL, m, <<L("oil", 2, 8), L("filter", 1, 7)>>)
Out(m) == R("SALIDA", "central", NULL, m, <<L("oil", 2, 0)>>)
OutTwice(m) == R("SALIDA", "central", NULL, m, <<L("oil", 1, 0), L("oil", 1, 0)>>)
Adj(m) == R("AJUSTE", "central", NULL, m, <<L("oil", 0, 0)>>)
Recount(m) == R("AJUSTE", "central", NULL, m, <<L("oil", 2, 0)>>)
AdjCost(m) == R("AJUSTE", "mine", NULL, m, <<L("oil", 2, 5), L("oil", 1, 0)>>)
Move(m) == R("TRANSFER", "central", "mine", m, <<L("oil", 2, 0)>>)
Back(m) == R("TRANSFER", "mine", "central", m, <<L("oil", 1, 0)>>)
NoTarget(m) == R("TRANSFER", "central", "central", m, <<L("oil", 1, 0)>>)
ZeroQty(m) == R("SALIDA", "central", NULL, m, <<L("oil", 0, 0)>>)
Receive(m) == R("BODEGA", "central", NULL, m, <<L("oil", 1, 1), L("filter", 2, 3)>>)
Gate(m) == R("GARITA", "central", NULL, m, <<L("oil", 1, 1)>>)
Direct(m) == R("ACTIVO", "central", NULL, m, <<L("oil", 1, 1)>>)
Fuel(q) == R("FUEL", "central", NULL, "jan", <<L("oil", q, 0)>>)
Consume(q) == R("CONSUME", "central", NULL, "jan", <<L("oil", q, 0)>>)

LockedRequests ==
    {In("jan"), Out("feb"), OutTwice("jan"), Adj("jan"), AdjCost("feb"), Move("jan"),
     Back("feb"), NoTarget("jan"), ZeroQty("jan"), Receive("feb")}
AllRequests ==
    {Adj("feb"), Move("jan"), Back("feb"), Receive("jan"), Gate("jan"), Direct("jan"),
     Fuel(2), Consume(1)}
OneMonthRequests ==
    {In("jan"), OutTwice("jan"), Adj("jan"), Recount("jan"), Move("jan"), Back("jan"),
     Receive("jan"), Fuel(1)}

ProcSymmetry == Permutations(Procs)
==============================================================================
