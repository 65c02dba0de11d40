--------------------------- MODULE StockRefinement ---------------------------
(* Inventory implements SequentialStock: the committed rows of the table are *)
(* the abstract ones, and every other statement is a stutter.                *)
EXTENDS Inventory

OneAtATime ==
    INSTANCE SequentialStock WITH
        Movements <- {r \in Requests : Accepted(r) /\ ~BadTransfer(r)},
        stock <- stock

\* Movements are serializable: however the statements of concurrent requests
\* interleave, the committed rows (quantities and average costs) change as if
\* one movement ran after another, each on what the one before it left, and an
\* issue or a transfer never takes what that row does not hold.
ImplementsSequentialStock == OneAtATime!Spec
==============================================================================
