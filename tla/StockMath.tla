------------------------------ MODULE StockMath ------------------------------
(***************************************************************************)
(* The weighted-average price (PMP) of the stock services.  Quantities and *)
(* unit costs are integers: they count the last decimal the columns keep,  *)
(* so a division rounds to the nearest unit, halves away from zero, which  *)
(* is what Prisma.Decimal does.                                            *)
(***************************************************************************)
EXTENDS Integers

RoundDiv(n, d) ==
    IF n >= 0 THEN (2 * n + d) \div (2 * d) ELSE -((d - 2 * n) \div (2 * d))

\* Wrong on purpose: divides by what entered, not by what is there after it.
AverageOfEntry(row, qty, cost) ==
    IF row.qty + qty > 0
    THEN RoundDiv(row.qty * row.cost + qty * cost, qty)
    ELSE row.cost

\* A stock row after qty units at unit cost enter it: the running average is
\* recomputed only when the new quantity is positive.
Average(row, qty, cost) ==
    IF row.qty + qty > 0
    THEN RoundDiv(row.qty * row.cost + qty * cost, row.qty + qty)
    ELSE row.cost

Blend(row, qty, cost) ==
    [exists |-> row.exists, qty |-> row.qty + qty, cost |-> Average(row, qty, cost)]

\* INGRESO takes the line's cost as it is when the row is empty.
Ingress(row, qty, cost) ==
    [exists |-> row.exists, qty |-> row.qty + qty,
     cost |-> IF row.qty = 0 /\ qty > 0 THEN cost ELSE Average(row, qty, cost)]

Egress(row, qty) ==
    [exists |-> row.exists, qty |-> row.qty - qty, cost |-> row.cost]

\* AJUSTE sets the quantity; the cost only when the client gave a positive one.
Adjust(row, qty, cost) ==
    [exists |-> row.exists, qty |-> qty, cost |-> IF cost > 0 THEN cost ELSE row.cost]
==============================================================================
