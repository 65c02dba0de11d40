--------------------------- MODULE SequentialStock ---------------------------
(***************************************************************************)
(* What the Stock table promises its readers: movements reach it one at a  *)
(* time, whole or not at all, each computed from the rows the previous one *)
(* left.  A movement is a single step here; Inventory takes one step per   *)
(* database statement, several requests at once.                           *)
(***************************************************************************)
EXTENDS StockMath, Sequences

CONSTANTS
    Items,
    Warehouses,
    Movements,      \* requests: kind, warehouse, target, lines
    OpeningStock

VARIABLE stock

Here(r, l) == <<l.item, r.wh>>
There(r, l) == <<l.item, r.target>>

\* A movement that enters a key without a row opens one.
Opened(row) == [row EXCEPT !.exists = TRUE]

\* Fuel and consumption compare with a stock that may change before they take
\* it: nothing is promised about what they leave.
Suffices(r, l, table) ==
    CASE r.kind \in {"FUEL", "CONSUME"} -> TRUE
      [] r.kind \in {"SALIDA", "TRANSFER"} -> table[Here(r, l)].qty >= l.qty
      [] OTHER -> TRUE

AfterLine(r, l, table) ==
    LET row == Opened(table[Here(r, l)])
    IN CASE r.kind = "INGRESO" -> [table EXCEPT ![Here(r, l)] = Ingress(row, l.qty, l.cost)]
         [] r.kind = "AJUSTE" -> [table EXCEPT ![Here(r, l)] = Adjust(row, l.qty, l.cost)]
         [] r.kind = "BODEGA" -> [table EXCEPT ![Here(r, l)] = Blend(row, l.qty, l.cost)]
         [] r.kind = "TRANSFER" ->
              [table EXCEPT ![Here(r, l)] = Egress(row, l.qty),
                            ![There(r, l)] = Blend(Opened(@), l.qty, row.cost)]
         [] r.kind \in {"SALIDA", "FUEL", "CONSUME"} ->
              [table EXCEPT ![Here(r, l)] = Egress(row, l.qty)]
         [] OTHER -> table      \* goods in transit

\* The table after the first n lines of a movement.
After(r, table) ==
    LET upTo[n \in 0..Len(r.lines)] ==
            IF n = 0 THEN table ELSE AfterLine(r, r.lines[n], upTo[n - 1])
    IN upTo

Init == stock = OpeningStock

Move(r) ==
    /\ \A n \in 1..Len(r.lines) : Suffices(r, r.lines[n], After(r, stock)[n - 1])
    /\ stock' = After(r, stock)[Len(r.lines)]

Next == \E r \in Movements : Move(r)

Spec == Init /\ [][Next]_stock
==============================================================================
