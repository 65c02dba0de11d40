--------------------------- MODULE Inventory_proofs ---------------------------
(* Theorems of Inventory for every set of requests, items and warehouses:    *)
(* types, the ledger, deadlocks of the advisory lock, bounds, the Kardex,    *)
(* and the refinement of SequentialStock.                                    *)
EXTENDS StockRefinement, WellFoundedInduction, TLAPS

-----------------------------------------------------------------------------
(* The inductive invariant *)

\* A request between two statements is one of the accepted ones, at one of its
\* lines, on the branch of its kind.
AtLine(p) ==
    /\ InTx(p) => req[p] \in Requests
    /\ ~InTx(p) => req[p] = NoRequest /\ idx[p] = 1
    /\ InTx(p) /\ pc[p] # "commit" => idx[p] \in 1..Len(Lines(p))
    /\ pc[p] \in {"lock", "upsert", "write"} => req[p].kind \in LedgerKinds
    /\ pc[p] = "post" => req[p].kind \in TransitKinds
    /\ pc[p] = "create" => req[p].kind \in EarlyKinds
    /\ pc[p] = "folio" => req[p].kind \notin UnlockedKinds
    /\ pc[p] \in {"check", "deduct"} => req[p].kind \in UnlockedKinds
    /\ pc[p] \in {"upsert", "write"} => ~BadTransfer(req[p])
    /\ side[p] = "dest" => /\ pc[p] \in {"lock", "upsert", "write"}
                           /\ req[p].kind = "TRANSFER" /\ ~BadTransfer(req[p])

\* Only transactions hold row locks, of rows that exist for them; one that
\* writes holds the row it writes, one that found stock to deduct will find the
\* row again, and a transit reception holds none.
Holding(p) ==
    /\ \A k \in Keys : rowLock[k] = p =>
          InTx(p) /\ req[p].kind \notin TransitKinds /\ buf[p][k].exists
    /\ pc[p] = "write" => rowLock[Key(p)] = p
    /\ pc[p] = "deduct" => stock[Key(p)].exists
    /\ pc[p] = "create" /\ req[p].kind \in UnlockedKinds => stock[Key(p)].exists

\* The row a transaction holds is the committed row plus its own lines so far;
\* until it commits it has posted nothing against rows it does not hold.
OwnView(p) ==
    /\ \A k \in Keys : rowLock[k] = p => buf[p][k].qty = Apply(posted[p][k], stock[k].qty)
    /\ \A k \in Keys :
          rowLock[k] # p /\ pc[p] # "committed" /\ req[p].kind \notin TransitKinds
              => posted[p][k] = NoEffect

AbsentIsEmpty == \A k \in Keys : stock[k].exists \/ stock[k].qty = 0

IInv ==
    /\ TypeOK
    /\ StockMatchesLedger
    /\ AbsentIsEmpty
    /\ \A p \in Procs : AtLine(p) /\ Holding(p) /\ OwnView(p)

-----------------------------------------------------------------------------
(* Lemmas about rows and effects *)

LEMMA RoundDivType ==
    ASSUME NEW n \in Int, NEW d \in Int, d > 0
    PROVE  RoundDiv(n, d) \in Int
<1>1. 2 * d \in Int /\ 2 * d > 0
  OBVIOUS
<1>2. 2 * n + d \in Int /\ d - 2 * n \in Int
  OBVIOUS
<1>3. ASSUME NEW a \in Int, NEW b \in Int, b > 0
      PROVE  a \div b \in Int
  BY <1>3
<1>4. (2 * n + d) \div (2 * d) \in Int /\ (d - 2 * n) \div (2 * d) \in Int
  BY <1>1, <1>2, <1>3
<1>. QED  BY <1>4 DEF RoundDiv

LEMMA AverageType ==
    ASSUME NEW row \in Row, NEW q \in Nat, NEW c \in Int
    PROVE  Average(row, q, c) \in Int
<1>1. row.qty \in Int /\ row.cost \in Int /\ row.qty + q \in Int
  BY DEF Row
<1>2. CASE row.qty + q > 0
  <2>1. row.qty * row.cost + q * c \in Int
    BY <1>1
  <2>2. RoundDiv(row.qty * row.cost + q * c, row.qty + q) \in Int
    BY <1>1, <1>2, <2>1, RoundDivType
  <2>. QED  BY <1>2, <2>2 DEF Average
<1>3. CASE ~(row.qty + q > 0)
  BY <1>1, <1>3 DEF Average
<1>. QED  BY <1>2, <1>3

\* Every row operator returns a row, and says what happens to its quantity.
LEMMA RowOps ==
    ASSUME NEW row \in Row, NEW q \in Nat, NEW c \in Int
    PROVE  /\ Blend(row, q, c) \in Row /\ Blend(row, q, c).qty = row.qty + q
           /\ Ingress(row, q, c) \in Row /\ Ingress(row, q, c).qty = row.qty + q
           /\ Egress(row, q) \in Row /\ Egress(row, q).qty = row.qty - q
           /\ Adjust(row, q, c) \in Row /\ Adjust(row, q, c).qty = q
BY AverageType DEF Blend, Ingress, Egress, Adjust, Row

\* Adding n to an effect adds n to any balance it is applied to.
LEMMA ApplyAdd ==
    ASSUME NEW e \in Effect, NEW n \in Int, NEW b \in Int
    PROVE  /\ [e EXCEPT !.n = @ + n] \in Effect
           /\ Apply([e EXCEPT !.n = @ + n], b) = Apply(e, b) + n
BY DEF Effect, Apply

LEMMA ApplyType ==
    ASSUME NEW e \in Effect, NEW b \in Int
    PROVE  Apply(e, b) \in Int
BY DEF Effect, Apply

LEMMA NoEffectApplies ==
    ASSUME NEW b \in Int
    PROVE  NoEffect \in Effect /\ Apply(NoEffect, b) = b
BY DEF Effect, NoEffect, Apply

\* The line a request stands at, and the key it names.
LEMMA CurrentLine ==
    ASSUME TypeOK, NEW p \in Procs, AtLine(p), InTx(p), pc[p] # "commit"
    PROVE  /\ Cur(p).item \in Items /\ Cur(p).qty \in Nat /\ Cur(p).cost \in Nat
           /\ Key(p) \in Keys /\ OriginKey(p) \in Keys
           /\ req[p] \in Request /\ req[p] \in Requests
           /\ Len(Lines(p)) \in Nat /\ idx[p] \in 1..Len(Lines(p))
<1>1. req[p] \in Requests /\ idx[p] \in 1..Len(Lines(p))
  BY DEF AtLine
<1>2. req[p] \in Request
  BY <1>1, InventoryAssumption
<1>3. Lines(p) \in Seq(Line)
  BY <1>2 DEF Request, Lines
<1>4. Cur(p) \in Line
  BY <1>1, <1>3 DEF Cur
<1>5. Cur(p).item \in Items /\ Cur(p).qty \in Nat /\ Cur(p).cost \in Nat
  BY <1>4 DEF Line
<1>6. req[p].wh \in Warehouses /\ (side[p] = "dest" => req[p].target \in Warehouses)
  BY <1>2 DEF Request, AtLine, BadTransfer
<1>7. Key(p) \in Keys /\ OriginKey(p) \in Keys
  BY <1>5, <1>6 DEF Key, OriginKey, Keys
<1>. QED  BY <1>1, <1>2, <1>3, <1>5, <1>7

-----------------------------------------------------------------------------
(* What a step of p leaves alone *)

\* The facts about q survive a step that changes nothing of q: its control
\* state, its own writes, the rows it holds and their committed quantities.
LEMMA Frame ==
    ASSUME TypeOK, NEW q \in Procs, AtLine(q), Holding(q), OwnView(q),
           pc'[q] = pc[q], req'[q] = req[q], idx'[q] = idx[q], side'[q] = side[q],
           buf'[q] = buf[q], posted'[q] = posted[q],
           \A k \in Keys : rowLock'[k] = q <=> rowLock[k] = q,
           \A k \in Keys : rowLock[k] = q => stock'[k].qty = stock[k].qty,
           \A k \in Keys : stock[k].exists => stock'[k].exists
    PROVE  AtLine(q)' /\ Holding(q)' /\ OwnView(q)'
<1>1. InTx(q)' = InTx(q) /\ Lines(q)' = Lines(q) /\ Key(q)' = Key(q)
  BY DEF InTx, Lines, Key, Cur
<1>2. AtLine(q)'
  BY <1>1 DEF AtLine
<1>3. Holding(q)'
  <2>1. pc[q] \in {"write", "deduct", "create"} => Key(q) \in Keys
    BY CurrentLine DEF InTx, Steps
  <2>. QED  BY <1>1, <2>1 DEF Holding
<1>4. OwnView(q)'
  BY DEF OwnView
<1>. QED  BY <1>2, <1>3, <1>4

\* Where a request stands after its current line.
LEMMA NextLineStep ==
    ASSUME TypeOK, NEW p \in Procs, AtLine(p), InTx(p), pc[p] # "commit",
           NextLine(p), req' = req
    PROVE  /\ AtLine(p)'
           /\ pc'[p] \in {"lock", "post", "check", "commit"}
           /\ \A q \in Procs \ {p} : pc'[q] = pc[q] /\ idx'[q] = idx[q] /\ side'[q] = side[q]
           /\ pc' \in [Procs -> {"idle"} \cup Steps \cup Outcomes]
           /\ idx' \in [Procs -> Nat \ {0}]
           /\ side' \in [Procs -> {"origin", "dest"}]
<1>1. /\ req[p] \in Request /\ req[p] \in Requests
      /\ Len(Lines(p)) \in Nat /\ idx[p] \in 1..Len(Lines(p))
  BY CurrentLine
<1>2. /\ pc' = [pc EXCEPT ![p] = IF idx[p] < Len(Lines(p))
                                 THEN FirstStep(req[p].kind) ELSE "commit"]
      /\ idx' = [idx EXCEPT ![p] = idx[p] + 1]
      /\ side' = [side EXCEPT ![p] = "origin"]
  BY DEF NextLine
<1>3. req[p].kind \in Kinds
  BY <1>1 DEF Request
<1>4. /\ FirstStep(req[p].kind) \in {"lock", "post", "check"}
      /\ FirstStep(req[p].kind) = "lock" => req[p].kind \in LedgerKinds
      /\ FirstStep(req[p].kind) = "post" => req[p].kind \in TransitKinds
      /\ FirstStep(req[p].kind) = "check" => req[p].kind \in UnlockedKinds
  BY <1>3 DEF FirstStep, Kinds, LedgerKinds, TransitKinds, UnlockedKinds
<1>5. /\ pc'[p] = IF idx[p] < Len(Lines(p)) THEN FirstStep(req[p].kind) ELSE "commit"
      /\ idx'[p] = idx[p] + 1 /\ side'[p] = "origin"
      /\ pc'[p] \in {"lock", "post", "check", "commit"}
  BY <1>2, <1>4 DEF TypeOK
<1>6. Lines(p)' = Lines(p) /\ req'[p] = req[p]
  BY DEF Lines
<1>7. AtLine(p)'
  <2>1. InTx(p)'
    BY <1>5 DEF InTx, Steps
  <2>2. req[p].kind \in LedgerKinds => req[p].kind \notin UnlockedKinds \cup TransitKinds
    BY DEF LedgerKinds, UnlockedKinds, TransitKinds
  <2>3. pc'[p] # "commit" => idx'[p] \in 1..Len(Lines(p))
    BY <1>1, <1>5
  <2>. QED  BY <1>1, <1>4, <1>5, <1>6, <2>1, <2>2, <2>3 DEF AtLine
<1>8. /\ pc' \in [Procs -> {"idle"} \cup Steps \cup Outcomes]
      /\ idx' \in [Procs -> Nat \ {0}]
      /\ side' \in [Procs -> {"origin", "dest"}]
  BY <1>1, <1>2, <1>4 DEF TypeOK, Steps
<1>9. \A q \in Procs \ {p} : pc'[q] = pc[q] /\ idx'[q] = idx[q] /\ side'[q] = side[q]
  BY <1>2 DEF TypeOK
<1>. QED  BY <1>5, <1>7, <1>8, <1>9

-----------------------------------------------------------------------------
(* The invariant is preserved: one lemma per group of actions *)

LEMMA InitIInv == Init => IInv
<1>. SUFFICES ASSUME Init PROVE IInv
  OBVIOUS
<1>1. TypeOK
  BY InventoryAssumption DEF Init, TypeOK, Row, Missing, Effect, NoEffect
<1>2. StockMatchesLedger /\ AbsentIsEmpty
  BY InventoryAssumption DEF Init, StockMatchesLedger, AbsentIsEmpty, Missing
<1>3. ASSUME NEW p \in Procs PROVE AtLine(p) /\ Holding(p) /\ OwnView(p)
  BY InventoryAssumption
     DEF Init, AtLine, Holding, OwnView, InTx, Steps, NoRequest, TransitKinds
<1>. QED  BY <1>1, <1>2, <1>3 DEF IInv

\* A transaction that ends without committing.
LEMMA AbortStep ==
    ASSUME IInv, NEW p \in Procs, End(p, "rejected"), UNCHANGED tables
    PROVE  IInv'
<1>. USE InventoryAssumption
<1>1. TypeOK'
  BY DEF IInv, TypeOK, End, tables, Outcomes, Row, Missing, Effect, NoEffect
<1>2. StockMatchesLedger' /\ AbsentIsEmpty'
  BY DEF IInv, StockMatchesLedger, AbsentIsEmpty, tables
<1>3. AtLine(p)' /\ Holding(p)' /\ OwnView(p)'
  <2>1. /\ pc'[p] = "rejected" /\ req'[p] = NoRequest /\ side'[p] = "origin" /\ idx'[p] = 1
        /\ \A k \in Keys : rowLock'[k] # p /\ posted'[p][k] = NoEffect
    BY DEF IInv, TypeOK, End
  <2>. QED  BY <2>1 DEF AtLine, Holding, OwnView, InTx, Steps
<1>4. ASSUME NEW q \in Procs, q # p PROVE AtLine(q)' /\ Holding(q)' /\ OwnView(q)'
  <2>1. /\ pc'[q] = pc[q] /\ req'[q] = req[q] /\ idx'[q] = idx[q] /\ side'[q] = side[q]
        /\ buf'[q] = buf[q] /\ posted'[q] = posted[q]
    BY <1>4 DEF IInv, TypeOK, End
  <2>2. \A k \in Keys : rowLock'[k] = q <=> rowLock[k] = q
    BY <1>4 DEF End
  <2>. QED  BY <2>1, <2>2, Frame DEF IInv, tables
<1>. QED  BY <1>1, <1>2, <1>3, <1>4 DEF IInv

LEMMA CommitStep ==
    ASSUME IInv, NEW p \in Procs, Commit(p)
    PROVE  IInv'
<1>. USE InventoryAssumption
<1>1. /\ pc[p] = "commit" /\ End(p, "committed")
      /\ stock' = [k \in Keys |-> IF rowLock[k] = p THEN buf[p][k] ELSE stock[k]]
      /\ made' = IF req[p].kind \in EarlyKinds THEN made ELSE Append(made, p)
      /\ ledger' = IF req[p].kind \in TransitKinds THEN ledger
                   ELSE [k \in Keys |-> Apply(posted[p][k], ledger[k])]
  BY DEF Commit
<1>2. \A k \in Keys : Apply(posted[p][k], ledger[k]) \in Int
  <2>1. \A k \in Keys : posted[p][k] \in Effect /\ ledger[k] \in Int
    BY DEF IInv, TypeOK
  <2> HIDE DEF InventoryAssumption
  <2>. QED  BY <2>1, ApplyType
<1>3. TypeOK'
  <2>1. stock' \in [Keys -> Row] /\ ledger' \in [Keys -> Int]
    BY <1>1, <1>2 DEF IInv, TypeOK
  <2>2. made' \in Seq(Procs)
    BY <1>1 DEF IInv, TypeOK
  <2>. QED
    BY <1>1, <2>1, <2>2 DEF IInv, TypeOK, End, Outcomes, Row, Missing
<1>4. StockMatchesLedger'
  <2>. SUFFICES ASSUME NEW k \in Keys PROVE stock'[k].qty = ledger'[k]
    BY DEF StockMatchesLedger
  <2>1. stock[k].qty = ledger[k] /\ ledger[k] \in Int
    BY DEF IInv, StockMatchesLedger, TypeOK
  <2>2. CASE rowLock[k] = p
    <3>1. req[p].kind \notin TransitKinds
      BY <2>2 DEF IInv, Holding
    <3>2. stock'[k].qty = Apply(posted[p][k], stock[k].qty)
      BY <1>1, <2>2 DEF IInv, OwnView
    <3>. QED  BY <1>1, <2>1, <3>1, <3>2
  <2>3. CASE rowLock[k] # p
    <3>1. stock'[k] = stock[k]
      BY <1>1, <2>3
    <3>2. CASE req[p].kind \in TransitKinds
      BY <1>1, <2>1, <3>1, <3>2
    <3>3. CASE req[p].kind \notin TransitKinds
      <4>1. posted[p][k] = NoEffect
        BY <1>1, <2>3, <3>3 DEF IInv, OwnView
      <4>. QED  BY <1>1, <2>1, <3>1, <3>3, <4>1, NoEffectApplies
    <3>. QED  BY <3>2, <3>3
  <2>. QED  BY <2>2, <2>3
<1>5. AtLine(p)' /\ Holding(p)' /\ OwnView(p)'
  <2>1. /\ pc'[p] = "committed" /\ req'[p] = NoRequest /\ side'[p] = "origin" /\ idx'[p] = 1
        /\ \A k \in Keys : rowLock'[k] # p
    BY <1>1 DEF IInv, TypeOK, End
  <2>. QED  BY <2>1 DEF AtLine, Holding, OwnView, InTx, Steps
<1>7. \A k \in Keys : stock[k].exists => stock'[k].exists
  BY <1>1 DEF IInv, Holding
<1>6. ASSUME NEW q \in Procs, q # p PROVE AtLine(q)' /\ Holding(q)' /\ OwnView(q)'
  <2>1. /\ pc'[q] = pc[q] /\ req'[q] = req[q] /\ idx'[q] = idx[q] /\ side'[q] = side[q]
        /\ buf'[q] = buf[q] /\ posted'[q] = posted[q]
    BY <1>1, <1>6 DEF IInv, TypeOK, End
  <2>2. \A k \in Keys : rowLock'[k] = q <=> rowLock[k] = q
    BY <1>1, <1>6 DEF End
  <2>3. \A k \in Keys : rowLock[k] = q => stock'[k].qty = stock[k].qty
    BY <1>1, <1>6
  <2>. QED  BY <1>7, <2>1, <2>2, <2>3, Frame DEF IInv
<1>8. AbsentIsEmpty'
  BY <1>1 DEF IInv, AbsentIsEmpty, Holding
<1>. QED  BY <1>3, <1>4, <1>5, <1>6, <1>8 DEF IInv

LEMMA BeginStep ==
    ASSUME IInv, NEW p \in Procs, NEW r \in Requests, Begin(p, r)
    PROVE  IInv'
<1>. USE InventoryAssumption
<1>0. r \in Request /\ r.kind \in Kinds
  BY DEF Request
<1>1. TypeOK'
  <2>1. /\ pc' \in [Procs -> {"idle"} \cup Steps \cup Outcomes]
        /\ req' \in [Procs -> Requests \cup {NoRequest}]
    <3>1. CASE Accepted(r)
      BY <3>1 DEF IInv, TypeOK, Begin, Steps
    <3>2. CASE ~Accepted(r)
      BY <3>2 DEF IInv, TypeOK, Begin, Outcomes
    <3>. QED  BY <3>1, <3>2
  <2>. QED  BY <2>1 DEF IInv, TypeOK, Begin, tables
<1>2. StockMatchesLedger' /\ AbsentIsEmpty'
  BY DEF IInv, StockMatchesLedger, AbsentIsEmpty, Begin, tables
<1>3. AtLine(p)' /\ Holding(p)' /\ OwnView(p)'
  <2>1. /\ ~InTx(p) /\ req[p] = NoRequest /\ idx[p] = 1 /\ side[p] = "origin"
        /\ \A k \in Keys : rowLock[k] # p
    <3>1. ~InTx(p)
      BY DEF Begin, InTx, Steps
    <3>2. req[p] = NoRequest /\ idx[p] = 1 /\ side[p] = "origin"
      BY <3>1 DEF IInv, TypeOK, AtLine, InTx, Steps
    <3>. QED  BY <3>1, <3>2 DEF IInv, Holding
  <2>2. \A k \in Keys : posted[p][k] = NoEffect
    BY <2>1 DEF IInv, OwnView, NoRequest, TransitKinds, Begin
  <2>3. UNCHANGED <<rowLock, idx, side, buf, posted, stock>>
    BY DEF Begin, tables
  <2>4. CASE Accepted(r)
    <3>1. /\ req'[p] = r
          /\ pc'[p] = IF r.kind \in UnlockedKinds THEN "check" ELSE "folio"
      BY <2>4 DEF IInv, TypeOK, Begin
    <3>2. r.lines \in Seq(Line) /\ r.lines # << >>
      BY <1>0, <2>4 DEF Request, Accepted
    <3>3. 1 \in 1..Len(r.lines)
      BY <3>2
    <3>. QED
      BY <2>1, <2>2, <2>3, <3>1, <3>3 DEF AtLine, Holding, OwnView, InTx, Steps, Lines
  <2>5. CASE ~Accepted(r)
    <3>1. pc'[p] = "rejected" /\ req'[p] = req[p]
      BY <2>5 DEF IInv, TypeOK, Begin
    <3>. QED
      BY <2>1, <2>2, <2>3, <3>1 DEF AtLine, Holding, OwnView, InTx, Steps
  <2>. QED  BY <2>4, <2>5
<1>4. ASSUME NEW q \in Procs, q # p PROVE AtLine(q)' /\ Holding(q)' /\ OwnView(q)'
  BY <1>4, Frame DEF IInv, TypeOK, Begin, tables
<1>. QED  BY <1>1, <1>2, <1>3, <1>4 DEF IInv

LEMMA LockFolioStep ==
    ASSUME IInv, NEW p \in Procs, LockFolio(p)
    PROVE  IInv'
<1>. USE InventoryAssumption
<1>. DEFINE step == IF req[p].kind \in EarlyKinds THEN "create" ELSE FirstStep(req[p].kind)
<1>1. /\ pc[p] = "folio" /\ InTx(p) /\ pc[p] # "commit"
      /\ pc' = [pc EXCEPT ![p] = step]
      /\ UNCHANGED <<tables, rowLock, req, idx, side, buf, posted>>
      /\ folioLock' = [folioLock EXCEPT ![req[p].month] = p]
  BY DEF LockFolio, InTx, Steps
<1>2. /\ req[p] \in Request /\ req[p] \in Requests
      /\ req[p].kind \in Kinds /\ req[p].month \in Months
  BY <1>1, CurrentLine DEF IInv, Request
<1>3. /\ FirstStep(req[p].kind) \in {"lock", "post", "check"}
      /\ FirstStep(req[p].kind) = "lock" => req[p].kind \in LedgerKinds
      /\ FirstStep(req[p].kind) = "post" => req[p].kind \in TransitKinds
      /\ FirstStep(req[p].kind) = "check" => req[p].kind \in UnlockedKinds
  BY <1>2 DEF FirstStep, Kinds, LedgerKinds, TransitKinds, UnlockedKinds
<1>4. TypeOK'
  BY <1>1, <1>2, <1>3 DEF IInv, TypeOK, tables, Steps
<1>5. StockMatchesLedger' /\ AbsentIsEmpty'
  BY <1>1 DEF IInv, StockMatchesLedger, AbsentIsEmpty, tables
<1>6. AtLine(p)' /\ Holding(p)' /\ OwnView(p)'
  <2>1. /\ pc'[p] = step /\ pc'[p] \in {"create", "lock", "post", "check"}
        /\ InTx(p)' /\ Lines(p)' = Lines(p)
    BY <1>1, <1>3 DEF IInv, TypeOK, InTx, Steps, Lines
  <2>2. side[p] = "origin" /\ req[p].kind \notin UnlockedKinds
    BY <1>1 DEF IInv, TypeOK, AtLine
  <2>3. AtLine(p)'
    BY <1>1, <1>3, <2>1, <2>2 DEF IInv, AtLine
  <2>. QED
    BY <1>1, <2>1, <2>2, <2>3 DEF IInv, Holding, OwnView, tables
<1>7. ASSUME NEW q \in Procs, q # p PROVE AtLine(q)' /\ Holding(q)' /\ OwnView(q)'
  BY <1>1, <1>7, Frame DEF IInv, TypeOK, tables
<1>. QED  BY <1>4, <1>5, <1>6, <1>7 DEF IInv

\* A transaction gets a row lock, and with it the row as it is now.
LEMMA TakeStep ==
    ASSUME IInv, NEW p \in Procs, pc[p] \in {"lock", "upsert"}, ~BadTransfer(req[p]),
           rowLock[Key(p)] \in {NULL, p},
           NEW row \in Row, row.qty = stock[Key(p)].qty, Take(p, Key(p), row),
           row.exists \/ rowLock[Key(p)] = p,
           pc' = [pc EXCEPT ![p] = "write"],
           UNCHANGED <<tables, folioLock, req, idx, side, posted>>
    PROVE  IInv'
<1>. USE InventoryAssumption
<1>1. /\ InTx(p) /\ pc[p] # "commit" /\ Key(p) \in Keys
      /\ req[p].kind \in LedgerKinds /\ req[p].kind \notin TransitKinds
  BY CurrentLine DEF IInv, AtLine, InTx, Steps, LedgerKinds, TransitKinds
<1>2. /\ rowLock' = [rowLock EXCEPT ![Key(p)] = p]
      /\ buf' = IF rowLock[Key(p)] = p THEN buf ELSE [buf EXCEPT ![p][Key(p)] = row]
  BY DEF Take
<1>3. TypeOK'
  BY <1>1, <1>2 DEF IInv, TypeOK, tables, Steps
<1>4. StockMatchesLedger' /\ AbsentIsEmpty'
  BY DEF IInv, StockMatchesLedger, AbsentIsEmpty, tables
<1>5. AtLine(p)' /\ Holding(p)'
  <2>1. pc'[p] = "write" /\ Lines(p)' = Lines(p) /\ Key(p)' = Key(p)
    BY DEF IInv, TypeOK, Lines, Key, Cur
  <2>2. InTx(p)' /\ rowLock'[Key(p)] = p
    BY <1>1, <1>2, <2>1 DEF IInv, TypeOK, InTx, Steps
  <2>3. ASSUME NEW k \in Keys, rowLock'[k] = p PROVE buf'[p][k].exists
    BY <1>1, <1>2, <2>3 DEF IInv, TypeOK, Holding
  <2>4. AtLine(p)'
    BY <1>1, <2>1, <2>2 DEF IInv, AtLine, LedgerKinds, TransitKinds, UnlockedKinds
  <2>. QED
    BY <1>1, <2>1, <2>2, <2>3, <2>4 DEF Holding
<1>6. OwnView(p)'
  <2>1. ASSUME NEW k \in Keys, rowLock'[k] = p
        PROVE  buf'[p][k].qty = Apply(posted'[p][k], stock'[k].qty)
    <3>1. CASE rowLock[k] = p
      <4>1. buf'[p][k] = buf[p][k]
        BY <1>1, <1>2, <3>1 DEF IInv, TypeOK
      <4>. QED  BY <3>1, <4>1 DEF IInv, OwnView, tables
    <3>2. CASE rowLock[k] # p
      <4>1. k = Key(p) /\ buf'[p][k] = row
        BY <1>1, <1>2, <2>1, <3>2 DEF IInv, TypeOK
      <4>2. posted[p][k] = NoEffect
        BY <1>1, <3>2 DEF IInv, OwnView
      <4>3. stock[k].qty \in Int
        BY DEF IInv, TypeOK, Row
      <4>. QED  BY <4>1, <4>2, <4>3, NoEffectApplies DEF tables
    <3>. QED  BY <3>1, <3>2
  <2>2. ASSUME NEW k \in Keys, rowLock'[k] # p PROVE posted'[p][k] = NoEffect
    BY <1>1, <1>2, <2>2 DEF IInv, TypeOK, OwnView
  <2>. QED  BY <2>1, <2>2 DEF OwnView
<1>7. ASSUME NEW q \in Procs, q # p PROVE AtLine(q)' /\ Holding(q)' /\ OwnView(q)'
  <2>1. \A k \in Keys : rowLock'[k] = q <=> rowLock[k] = q
    BY <1>1, <1>2, <1>7 DEF IInv, TypeOK
  <2>2. pc'[q] = pc[q] /\ buf'[q] = buf[q]
    BY <1>2, <1>7 DEF IInv, TypeOK
  <2>. QED  BY <2>1, <2>2, Frame DEF IInv, tables
<1>. QED  BY <1>3, <1>4, <1>5, <1>6, <1>7 DEF IInv

\* A locked writer updates the row it holds and records the line that says so.
LEMMA PutStep ==
    ASSUME IInv, NEW p \in Procs, pc[p] = "write",
           NEW row \in Row, NEW e \in Effect,
           row.qty = Apply(e, stock[Key(p)].qty), row.exists, Put(p, row, e),
           AtLine(p)', pc'[p] \in {"lock", "post", "check", "commit"},
           pc' \in [Procs -> {"idle"} \cup Steps \cup Outcomes],
           idx' \in [Procs -> Nat \ {0}], side' \in [Procs -> {"origin", "dest"}],
           \A q \in Procs \ {p} : pc'[q] = pc[q] /\ idx'[q] = idx[q] /\ side'[q] = side[q],
           UNCHANGED <<tables, rowLock, folioLock, req>>
    PROVE  IInv'
<1>. USE InventoryAssumption
<1>1. /\ Key(p) \in Keys /\ rowLock[Key(p)] = p
      /\ req[p].kind \notin TransitKinds
  BY CurrentLine DEF IInv, AtLine, Holding, InTx, Steps, LedgerKinds, TransitKinds
<1>2. /\ buf' = [buf EXCEPT ![p][Key(p)] = row]
      /\ posted' = [posted EXCEPT ![p][Key(p)] = e]
  BY DEF Put
<1>3. TypeOK'
  BY <1>1, <1>2 DEF IInv, TypeOK, tables
<1>4. StockMatchesLedger' /\ AbsentIsEmpty'
  BY DEF IInv, StockMatchesLedger, AbsentIsEmpty, tables
<1>5. Holding(p)' /\ OwnView(p)'
  <2>1. InTx(p)' /\ pc'[p] # "write"
    BY DEF InTx, Steps
  <2>2. \A k \in Keys : rowLock[k] = p => buf'[p][k].qty = Apply(posted'[p][k], stock[k].qty)
    BY <1>1, <1>2 DEF IInv, TypeOK, OwnView
  <2>3. \A k \in Keys : rowLock[k] # p => posted'[p][k] = NoEffect
    BY <1>1, <1>2 DEF IInv, TypeOK, OwnView
  <2>4. \A k \in Keys : rowLock[k] = p => buf'[p][k].exists
    BY <1>1, <1>2 DEF IInv, TypeOK, Holding
  <2>5. Holding(p)'
    BY <1>1, <2>1, <2>4 DEF Holding
  <2>. QED  BY <1>1, <2>2, <2>3, <2>5 DEF OwnView, tables
<1>6. ASSUME NEW q \in Procs, q # p PROVE AtLine(q)' /\ Holding(q)' /\ OwnView(q)'
  <2>1. buf'[q] = buf[q] /\ posted'[q] = posted[q]
    BY <1>2, <1>6 DEF IInv, TypeOK
  <2>. QED  BY <1>6, <2>1, Frame DEF IInv, tables
<1>. QED  BY <1>3, <1>4, <1>5, <1>6 DEF IInv

\* What a locked writer finds: a line of its request and the row it holds.
LEMMA AtWrite ==
    ASSUME IInv, NEW p \in Procs, pc[p] = "write"
    PROVE  /\ InTx(p) /\ pc[p] # "commit" /\ TypeOK /\ AtLine(p)
           /\ buf[p][Key(p)] \in Row /\ buf[p][Key(p)].exists /\ stock[Key(p)].qty \in Int
           /\ posted[p][Key(p)] \in Effect
           /\ buf[p][Key(p)].qty = Apply(posted[p][Key(p)], stock[Key(p)].qty)
           /\ Cur(p).qty \in Nat /\ Cur(p).cost \in Nat /\ -Cur(p).qty \in Int
           /\ buf[p][OriginKey(p)] \in Row
<1>1. InTx(p) /\ pc[p] # "commit" /\ TypeOK /\ AtLine(p)
  BY DEF IInv, InTx, Steps
<1>2. /\ Key(p) \in Keys /\ OriginKey(p) \in Keys /\ rowLock[Key(p)] = p
      /\ Cur(p).qty \in Nat /\ Cur(p).cost \in Nat
  BY <1>1, CurrentLine DEF IInv, Holding
<1>3. /\ buf[p][Key(p)] \in Row /\ buf[p][OriginKey(p)] \in Row /\ stock[Key(p)] \in Row
      /\ posted[p][Key(p)] \in Effect
  BY <1>2 DEF IInv, TypeOK
<1>4. /\ buf[p][Key(p)].exists
      /\ buf[p][Key(p)].qty = Apply(posted[p][Key(p)], stock[Key(p)].qty)
  BY <1>2 DEF IInv, Holding, OwnView
<1>. QED  BY <1>1, <1>2, <1>3, <1>4 DEF Row

\* Each locked writer is a PutStep: its row and its line agree.
LEMMA AddLineStep ==
    ASSUME IInv, NEW p \in Procs, pc[p] = "write",
           NEW row \in Row, NEW n \in Int, row.qty = buf[p][Key(p)].qty + n,
           row.exists,
           Put(p, row, Added(p, n)), NextLine(p),
           UNCHANGED <<tables, rowLock, folioLock, req>>
    PROVE  IInv'
<1>1. /\ Added(p, n) \in Effect
      /\ row.qty = Apply(Added(p, n), stock[Key(p)].qty)
  BY AtWrite, ApplyAdd DEF Added
<1>. QED  BY <1>1, AtWrite, NextLineStep, PutStep

LEMMA WriteStep ==
    ASSUME IInv, NEW p \in Procs,
           \/ WriteIngreso(p) \/ WriteSalida(p) \/ WriteAjuste(p)
           \/ WriteTransferOut(p) \/ WriteTransferIn(p) \/ WriteReception(p)
    PROVE  IInv'
<1>. DEFINE row == buf[p][Key(p)]
            q == Cur(p).qty
            c == Cur(p).cost
            oc == buf[p][OriginKey(p)].cost
<1>1. pc[p] = "write"
  BY DEF WriteIngreso, WriteSalida, WriteAjuste, WriteTransferOut, WriteTransferIn,
         WriteReception, Writing
<1>2. row \in Row /\ q \in Nat /\ c \in Nat /\ -q \in Int /\ row.qty \in Int /\ row.exists
      /\ oc \in Int
  BY <1>1, AtWrite DEF Row
<1>0. /\ Ingress(row, q, c) \in Row /\ Ingress(row, q, c).qty = row.qty + q
      /\ Ingress(row, q, c).exists
      /\ Blend(row, q, c) \in Row /\ Blend(row, q, c).qty = row.qty + q
      /\ Blend(row, q, c).exists
      /\ Blend(row, q, oc) \in Row /\ Blend(row, q, oc).qty = row.qty + q
      /\ Blend(row, q, oc).exists
      /\ Egress(row, q) \in Row /\ Egress(row, q).qty = row.qty + (-q)
      /\ Egress(row, q).exists
      /\ Adjust(row, q, c) \in Row /\ Adjust(row, q, c).qty = q
      /\ Adjust(row, q, c).exists
  <2>. HIDE DEF row, q, c, oc
  <2>1. /\ Ingress(row, q, c) \in Row /\ Ingress(row, q, c).qty = row.qty + q
        /\ Blend(row, q, c) \in Row /\ Blend(row, q, c).qty = row.qty + q
    BY <1>2, RowOps
  <2>5. Blend(row, q, oc) \in Row /\ Blend(row, q, oc).qty = row.qty + q
    BY <1>2, RowOps
  <2>2. /\ Egress(row, q) \in Row /\ Egress(row, q).qty = row.qty - q
        /\ Adjust(row, q, c) \in Row /\ Adjust(row, q, c).qty = q
    BY <1>2, RowOps
  <2>3. row.qty - q = row.qty + (-q)
    BY <1>2
  <2>4. /\ Ingress(row, q, c).exists /\ Blend(row, q, c).exists /\ Blend(row, q, oc).exists
        /\ Egress(row, q).exists /\ Adjust(row, q, c).exists
    BY <1>2 DEF Ingress, Blend, Egress, Adjust
  <2>. QED  BY <2>1, <2>2, <2>3, <2>4, <2>5
<1>3. CASE WriteIngreso(p)
  BY <1>0, <1>1, <1>2, <1>3, AddLineStep DEF WriteIngreso
<1>4. CASE WriteSalida(p)
  BY <1>0, <1>1, <1>2, <1>4, AddLineStep DEF WriteSalida
<1>5. CASE WriteReception(p)
  BY <1>0, <1>1, <1>2, <1>5, AddLineStep DEF WriteReception
<1>6. CASE WriteAjuste(p)
  <2>1. /\ [set |-> TRUE, n |-> q] \in Effect
        /\ Apply([set |-> TRUE, n |-> q], stock[Key(p)].qty) = q
    BY <1>2 DEF Effect, Apply
  <2>2. /\ Put(p, Adjust(row, q, c), [set |-> TRUE, n |-> q]) /\ NextLine(p)
        /\ UNCHANGED <<tables, rowLock, folioLock, req>>
    BY <1>6 DEF WriteAjuste
  <2>. QED  BY <1>0, <1>1, <2>1, <2>2, AtWrite, NextLineStep, PutStep
<1>7. CASE WriteTransferIn(p)
  BY <1>0, <1>1, <1>2, <1>7, AddLineStep DEF WriteTransferIn
<1>8. CASE WriteTransferOut(p)
  <2>1. /\ Added(p, -q) \in Effect
        /\ Egress(row, q).qty = Apply(Added(p, -q), stock[Key(p)].qty)
    BY <1>0, <1>1, <1>2, AtWrite, ApplyAdd DEF Added
  <2>2. /\ Put(p, Egress(row, q), Added(p, -q)) /\ req[p].kind = "TRANSFER"
        /\ side' = [side EXCEPT ![p] = "dest"] /\ pc' = [pc EXCEPT ![p] = "lock"]
        /\ UNCHANGED <<tables, rowLock, folioLock, req, idx>>
    BY <1>8 DEF WriteTransferOut, Writing
  <2>3. /\ pc'[p] = "lock" /\ side'[p] = "dest"
        /\ pc' \in [Procs -> {"idle"} \cup Steps \cup Outcomes]
        /\ side' \in [Procs -> {"origin", "dest"}] /\ idx' \in [Procs -> Nat \ {0}]
        /\ \A o \in Procs \ {p} : pc'[o] = pc[o] /\ idx'[o] = idx[o] /\ side'[o] = side[o]
    BY <2>2 DEF IInv, TypeOK, Steps
  <2>4. AtLine(p)'
    <3>1. InTx(p)' /\ InTx(p) /\ Lines(p)' = Lines(p) /\ req'[p] = req[p] /\ idx'[p] = idx[p]
      BY <1>1, <2>2, <2>3 DEF InTx, Steps, Lines
    <3>. QED
      BY <1>1, <2>2, <2>3, <3>1 DEF IInv, AtLine, LedgerKinds
  <2>. QED  BY <1>0, <1>1, <2>1, <2>2, <2>3, <2>4, PutStep
<1>. QED  BY <1>3, <1>4, <1>5, <1>6, <1>7, <1>8

LEMMA LockRowStep ==
    ASSUME IInv, NEW p \in Procs, LockRow(p)
    PROVE  IInv'
<1>. USE InventoryAssumption
<1>1. /\ pc[p] = "lock" /\ ~BadTransfer(req[p]) /\ InTx(p) /\ pc[p] # "commit"
      /\ UNCHANGED <<tables, folioLock, req, idx, side, posted>>
  BY DEF LockRow, Refused, InTx, Steps
<1>2. Key(p) \in Keys
  BY <1>1, CurrentLine DEF IInv
<1>3. stock[Key(p)] \in Row
  BY <1>2 DEF IInv, TypeOK
<1>4. CASE Visible(p, Key(p))
  <2>1. /\ rowLock[Key(p)] \in {NULL, p} /\ Take(p, Key(p), stock[Key(p)])
        /\ pc' = [pc EXCEPT ![p] = "write"]
    BY <1>4 DEF LockRow
  <2>2. stock[Key(p)].exists \/ rowLock[Key(p)] = p
    BY <1>4 DEF Visible
  <2>. QED  BY <1>1, <1>3, <2>1, <2>2, TakeStep
<1>5. CASE ~Visible(p, Key(p))
  <2>1. pc' = [pc EXCEPT ![p] = "upsert"] /\ UNCHANGED <<rowLock, buf>>
    BY <1>5 DEF LockRow
  <2>2. TypeOK'
    BY <1>1, <2>1 DEF IInv, TypeOK, tables, Steps
  <2>3. StockMatchesLedger' /\ AbsentIsEmpty'
    BY <1>1 DEF IInv, StockMatchesLedger, AbsentIsEmpty, tables
  <2>4. AtLine(p)' /\ Holding(p)' /\ OwnView(p)'
    <3>1. pc'[p] = "upsert" /\ InTx(p)' /\ Lines(p)' = Lines(p)
      BY <1>1, <2>1 DEF IInv, TypeOK, InTx, Steps, Lines
    <3>2. AtLine(p)'
      BY <1>1, <2>1, <3>1 DEF IInv, AtLine
    <3>. QED  BY <1>1, <2>1, <3>1, <3>2 DEF IInv, Holding, OwnView, tables
  <2>5. ASSUME NEW q \in Procs, q # p PROVE AtLine(q)' /\ Holding(q)' /\ OwnView(q)'
    BY <1>1, <2>1, <2>5, Frame DEF IInv, TypeOK, tables
  <2>. QED  BY <2>2, <2>3, <2>4, <2>5 DEF IInv
<1>. QED  BY <1>4, <1>5

LEMMA UpsertRowStep ==
    ASSUME IInv, NEW p \in Procs, UpsertRow(p)
    PROVE  IInv'
<1>. DEFINE row == IF stock[Key(p)].exists THEN stock[Key(p)] ELSE Created
<1>1. /\ pc[p] = "upsert" /\ InTx(p) /\ pc[p] # "commit"
      /\ rowLock[Key(p)] = NULL /\ Take(p, Key(p), row)
      /\ pc' = [pc EXCEPT ![p] = "write"]
      /\ UNCHANGED <<tables, folioLock, req, idx, side, posted>>
  BY DEF UpsertRow, InTx, Steps
<1>2. ~BadTransfer(req[p]) /\ Key(p) \in Keys
  BY <1>1, CurrentLine DEF IInv, AtLine
<1>3. row \in Row /\ row.qty = stock[Key(p)].qty /\ row.exists
  BY <1>2 DEF IInv, TypeOK, AbsentIsEmpty, Created, Row
<1>. HIDE DEF row
<1>. QED  BY <1>1, <1>2, <1>3, TakeStep

LEMMA PostTransitLineStep ==
    ASSUME IInv, NEW p \in Procs, PostTransitLine(p)
    PROVE  IInv'
<1>. DEFINE n == IF req[p].kind = "GARITA" THEN Cur(p).qty ELSE -Cur(p).qty
<1>1. /\ pc[p] = "post" /\ InTx(p) /\ pc[p] # "commit" /\ NextLine(p)
      /\ posted' = [posted EXCEPT ![p][Key(p)] = Added(p, n)]
      /\ UNCHANGED <<tables, rowLock, folioLock, req, buf>>
  BY DEF PostTransitLine, InTx, Steps
<1>2. Key(p) \in Keys /\ Cur(p).qty \in Nat /\ req[p].kind \in TransitKinds
  BY <1>1, CurrentLine DEF IInv, AtLine
<1>3. posted[p][Key(p)] \in Effect /\ n \in Int
  BY <1>2 DEF IInv, TypeOK
<1>4. Added(p, n) \in Effect
  <2>. HIDE DEF n
  <2>. QED  BY <1>3, ApplyAdd DEF Added
<1>5. /\ AtLine(p)' /\ pc'[p] \in {"lock", "post", "check", "commit"}
      /\ pc' \in [Procs -> {"idle"} \cup Steps \cup Outcomes]
      /\ idx' \in [Procs -> Nat \ {0}] /\ side' \in [Procs -> {"origin", "dest"}]
      /\ \A q \in Procs \ {p} : pc'[q] = pc[q] /\ idx'[q] = idx[q] /\ side'[q] = side[q]
  BY <1>1, NextLineStep DEF IInv
<1>. HIDE DEF n
<1>6. TypeOK'
  BY <1>1, <1>2, <1>4, <1>5 DEF IInv, TypeOK, tables
<1>7. StockMatchesLedger' /\ AbsentIsEmpty'
  BY <1>1 DEF IInv, StockMatchesLedger, AbsentIsEmpty, tables
<1>8. Holding(p)' /\ OwnView(p)'
  <2>1. \A k \in Keys : rowLock'[k] # p
    BY <1>1, <1>2 DEF IInv, Holding
  <2>2. req'[p].kind \in TransitKinds /\ pc'[p] \notin {"write", "deduct", "create"}
    BY <1>1, <1>2, <1>5
  <2>. QED  BY <2>1, <2>2 DEF Holding, OwnView
<1>9. ASSUME NEW q \in Procs, q # p PROVE AtLine(q)' /\ Holding(q)' /\ OwnView(q)'
  <2>1. posted'[q] = posted[q]
    BY <1>1, <1>9 DEF IInv, TypeOK
  <2>. QED  BY <1>1, <1>5, <1>9, <2>1, Frame DEF IInv, tables
<1>. QED  BY <1>5, <1>6, <1>7, <1>8, <1>9 DEF IInv

LEMMA CheckStockStep ==
    ASSUME IInv, NEW p \in Procs, CheckStock(p)
    PROVE  IInv'
<1>. USE InventoryAssumption
<1>1. /\ pc[p] = "check" /\ InTx(p) /\ pc[p] # "commit" /\ ~Refused(p)
      /\ pc' = [pc EXCEPT ![p] = IF req[p].kind \in EarlyKinds THEN "create" ELSE "deduct"]
      /\ UNCHANGED <<tables, rowLock, folioLock, req, idx, side, buf, posted>>
  BY DEF CheckStock, InTx, Steps
<1>2. /\ Key(p) \in Keys /\ Cur(p).qty \in Nat /\ req[p] \in Requests
      /\ idx[p] \in 1..Len(Lines(p)) /\ req[p].kind \in UnlockedKinds
  BY <1>1, CurrentLine DEF IInv, AtLine
<1>3. Cur(p).qty > 0
  BY <1>2 DEF UnlockedKinds, CreateKinds, Cur, Lines
<1>4. stock[Key(p)].exists
  <2>1. ~(stock[Key(p)].qty < Cur(p).qty) /\ stock[Key(p)].qty \in Int
    BY <1>1, <1>2 DEF Refused, IInv, TypeOK, Row
  <2>2. stock[Key(p)].qty # 0
    BY <1>2, <1>3, <2>1
  <2>. QED  BY <1>2, <2>2 DEF IInv, AbsentIsEmpty
<1>5. TypeOK'
  BY <1>1 DEF IInv, TypeOK, tables, Steps
<1>6. StockMatchesLedger' /\ AbsentIsEmpty'
  BY <1>1 DEF IInv, StockMatchesLedger, AbsentIsEmpty, tables
<1>7. AtLine(p)' /\ Holding(p)' /\ OwnView(p)'
  <2>1. /\ pc'[p] = IF req[p].kind \in EarlyKinds THEN "create" ELSE "deduct"
        /\ InTx(p)' /\ Lines(p)' = Lines(p) /\ Key(p)' = Key(p)
        /\ side[p] = "origin"
    BY <1>1 DEF IInv, TypeOK, AtLine, InTx, Steps, Lines, Key, Cur
  <2>2. AtLine(p)'
    BY <1>1, <1>2, <2>1 DEF AtLine
  <2>3. Holding(p)'
    BY <1>1, <1>4, <2>1 DEF IInv, Holding, tables
  <2>4. OwnView(p)'
    BY <1>1 DEF IInv, OwnView, tables
  <2>. QED  BY <2>2, <2>3, <2>4
<1>8. ASSUME NEW q \in Procs, q # p PROVE AtLine(q)' /\ Holding(q)' /\ OwnView(q)'
  BY <1>1, <1>8, Frame DEF IInv, TypeOK, tables
<1>. QED  BY <1>5, <1>6, <1>7, <1>8 DEF IInv

LEMMA CreateMovementStep ==
    ASSUME IInv, NEW p \in Procs, CreateMovement(p)
    PROVE  IInv'
<1>. USE InventoryAssumption
<1>. DEFINE step == IF req[p].kind \in UnlockedKinds THEN "deduct" ELSE FirstStep(req[p].kind)
<1>1. /\ pc[p] = "create" /\ InTx(p) /\ pc[p] # "commit"
      /\ made' = Append(made, p)
      /\ pc' = [pc EXCEPT ![p] = step]
      /\ UNCHANGED <<stock, ledger, rowLock, folioLock, req, idx, side, buf, posted>>
  BY DEF CreateMovement, InTx, Steps
<1>2. Key(p) \in Keys /\ req[p] \in Requests /\ req[p].kind \in Kinds
  BY <1>1, CurrentLine DEF IInv, Request
<1>3. /\ step \in {"lock", "post", "deduct"}
      /\ step = "lock" => req[p].kind \in LedgerKinds
      /\ step = "post" => req[p].kind \in TransitKinds
      /\ step = "deduct" => req[p].kind \in UnlockedKinds
  BY <1>2 DEF FirstStep, Kinds, LedgerKinds, TransitKinds, UnlockedKinds
<1>. HIDE DEF step
<1>4. TypeOK'
  <2>1. made' \in Seq(Procs)
    BY <1>1 DEF IInv, TypeOK
  <2>. QED  BY <1>1, <1>3, <2>1 DEF IInv, TypeOK, Steps
<1>5. StockMatchesLedger' /\ AbsentIsEmpty'
  BY <1>1 DEF IInv, StockMatchesLedger, AbsentIsEmpty
<1>6. AtLine(p)' /\ Holding(p)' /\ OwnView(p)'
  <2>1. /\ pc'[p] = step /\ InTx(p)' /\ Lines(p)' = Lines(p) /\ Key(p)' = Key(p)
        /\ side[p] = "origin"
    BY <1>1, <1>3 DEF IInv, TypeOK, AtLine, InTx, Steps, Lines, Key, Cur
  <2>2. AtLine(p)'
    BY <1>1, <1>3, <2>1 DEF IInv, AtLine
  <2>3. Holding(p)'
    BY <1>1, <1>3, <2>1 DEF IInv, Holding
  <2>4. OwnView(p)'
    BY <1>1, <1>3, <2>1 DEF IInv, OwnView
  <2>. QED  BY <2>2, <2>3, <2>4
<1>7. ASSUME NEW q \in Procs, q # p PROVE AtLine(q)' /\ Holding(q)' /\ OwnView(q)'
  <2>1. pc'[q] = pc[q]
    BY <1>1, <1>7 DEF IInv, TypeOK
  <2>. QED  BY <1>1, <2>1, Frame DEF IInv
<1>. QED  BY <1>4, <1>5, <1>6, <1>7 DEF IInv

LEMMA DeductStep ==
    ASSUME IInv, NEW p \in Procs, Deduct(p)
    PROVE  IInv'
<1>. USE InventoryAssumption
<1>. DEFINE k0 == Key(p)
            row == Egress(stock[k0], Cur(p).qty)
            e == Added(p, -Cur(p).qty)
<1>1. /\ pc[p] = "deduct" /\ InTx(p) /\ pc[p] # "commit"
      /\ rowLock[k0] = NULL /\ rowLock' = [rowLock EXCEPT ![k0] = p]
      /\ buf' = [buf EXCEPT ![p][k0] = row]
      /\ posted' = [posted EXCEPT ![p][k0] = e]
      /\ pc' = [pc EXCEPT ![p] = "commit"]
      /\ UNCHANGED <<tables, folioLock, req, idx, side>>
  BY DEF Deduct, Put, InTx, Steps
<1>2. /\ k0 \in Keys /\ Cur(p).qty \in Nat /\ -Cur(p).qty \in Int /\ req[p] \in Requests
      /\ req[p].kind \in UnlockedKinds /\ req[p].kind \notin TransitKinds
      /\ side[p] = "origin"
  BY <1>1, CurrentLine DEF IInv, TypeOK, AtLine, UnlockedKinds, TransitKinds
<1>3. posted[p][k0] = NoEffect /\ stock[k0] \in Row /\ stock[k0].exists
  BY <1>1, <1>2 DEF IInv, TypeOK, OwnView, Holding
<1>4. row \in Row /\ row.qty = stock[k0].qty - Cur(p).qty /\ row.exists
  BY <1>2, <1>3 DEF Egress, Row
<1>5. e \in Effect /\ row.qty = Apply(e, stock[k0].qty)
  <2>1. NoEffect \in Effect /\ stock[k0].qty \in Int
        /\ Apply(NoEffect, stock[k0].qty) = stock[k0].qty
    BY <1>3, NoEffectApplies DEF Row
  <2>2. e = [NoEffect EXCEPT !.n = @ + -Cur(p).qty]
    BY <1>3 DEF Added
  <2>. DEFINE bal == stock[k0].qty  n == -Cur(p).qty
  <2>3. NoEffect \in Effect /\ bal \in Int /\ n \in Int /\ e = [NoEffect EXCEPT !.n = @ + n]
    BY <1>2, <2>1, <2>2
  <2>4. bal + n = row.qty /\ Apply(NoEffect, bal) = bal
    BY <1>2, <1>4, <2>1
  <2>. HIDE DEF bal, n, e, row
  <2>5. e \in Effect /\ Apply(e, bal) = Apply(NoEffect, bal) + n
    BY <2>3, ApplyAdd
  <2>. QED  BY <2>4, <2>5 DEF bal
<1>. HIDE DEF k0, row, e
<1>6. TypeOK'
  <2>1. TypeOK  BY DEF IInv
  <2>2. buf' \in [Procs -> [Keys -> Row]] /\ posted' \in [Procs -> [Keys -> Effect]]
    BY <1>1, <1>2, <1>4, <1>5, <2>1 DEF TypeOK
  <2>3. rowLock' \in [Keys -> Procs \cup {NULL}]
        /\ pc' \in [Procs -> {"idle"} \cup Steps \cup Outcomes]
    BY <1>1, <2>1 DEF TypeOK, Steps
  <2>. QED  BY <1>1, <2>1, <2>2, <2>3 DEF TypeOK, tables
<1>7. StockMatchesLedger' /\ AbsentIsEmpty'
  BY <1>1 DEF IInv, StockMatchesLedger, AbsentIsEmpty, tables
<1>8. AtLine(p)' /\ Holding(p)' /\ OwnView(p)'
  <2>1. pc'[p] = "commit" /\ InTx(p)'
    BY <1>1 DEF IInv, TypeOK, InTx, Steps
  <2>2. AtLine(p)'
    BY <1>1, <1>2, <2>1 DEF AtLine
  <2>3. /\ \A k \in Keys : rowLock'[k] = p => buf'[p][k].exists
        /\ \A k \in Keys : rowLock'[k] = p => buf'[p][k].qty = Apply(posted'[p][k], stock[k].qty)
        /\ \A k \in Keys : rowLock'[k] # p => posted'[p][k] = NoEffect
    BY <1>1, <1>2, <1>4, <1>5 DEF IInv, TypeOK, Holding, OwnView
  <2>. QED  BY <1>1, <1>2, <2>1, <2>2, <2>3 DEF Holding, OwnView, tables
<1>9. ASSUME NEW q \in Procs, q # p PROVE AtLine(q)' /\ Holding(q)' /\ OwnView(q)'
  <2>1. \A k \in Keys : rowLock'[k] = q <=> rowLock[k] = q
    BY <1>1, <1>2, <1>9 DEF IInv, TypeOK
  <2>2. pc'[q] = pc[q] /\ buf'[q] = buf[q] /\ posted'[q] = posted[q]
    BY <1>1, <1>9 DEF IInv, TypeOK
  <2>. QED  BY <1>1, <2>1, <2>2, Frame DEF IInv, tables
<1>. QED  BY <1>6, <1>7, <1>8, <1>9 DEF IInv

-----------------------------------------------------------------------------
(* The theorems *)

LEMMA NextIInv == IInv /\ [Next]_vars => IInv'
<1>. SUFFICES ASSUME IInv, [Next]_vars PROVE IInv'
  OBVIOUS
<1>1. ASSUME NEW p \in Procs, NEW r \in Requests, Begin(p, r) PROVE IInv'
  BY <1>1, BeginStep
<1>2. ASSUME NEW p \in Procs, Step(p) PROVE IInv'
  <2>1. CASE LockFolio(p)
    BY <2>1, LockFolioStep
  <2>2. CASE LockRow(p)
    BY <2>2, LockRowStep
  <2>3. CASE UpsertRow(p)
    BY <2>3, UpsertRowStep
  <2>4. CASE \/ WriteIngreso(p) \/ WriteSalida(p) \/ WriteAjuste(p)
             \/ WriteTransferOut(p) \/ WriteTransferIn(p) \/ WriteReception(p)
    BY <2>4, WriteStep
  <2>5. CASE PostTransitLine(p)
    BY <2>5, PostTransitLineStep
  <2>6. CASE CheckStock(p)
    BY <2>6, CheckStockStep
  <2>7. CASE Deduct(p)
    BY <2>7, DeductStep
  <2>8. CASE Commit(p)
    BY <2>8, CommitStep
  <2>9. CASE Reject(p)
    BY <2>9, AbortStep DEF Reject
  <2>10. CASE CreateMovement(p)
    BY <2>10, CreateMovementStep
  <2>. QED
    BY <1>2, <2>1, <2>2, <2>3, <2>4, <2>5, <2>6, <2>7, <2>8, <2>9, <2>10 DEF Step
<1>3. ASSUME NEW p \in Procs, Rollback(p) \/ DeadlockAbort(p) PROVE IInv'
  BY <1>3, AbortStep DEF Rollback, DeadlockAbort
<1>4. CASE UNCHANGED vars
  BY <1>4 DEF vars, IInv, TypeOK, StockMatchesLedger, AbsentIsEmpty, AtLine, Holding,
              OwnView, InTx, Lines, Key, Cur
<1>. QED  BY <1>1, <1>2, <1>3, <1>4 DEF Next, Quiescent

LEMMA SpecIInv == Spec => []IInv
<1>. QED  BY InitIInv, NextIInv, PTL DEF Spec

\* Every variable keeps its type in every reachable state.
THEOREM TypeCorrect == Spec => []TypeOK
<1>1. IInv => TypeOK
  BY DEF IInv
<1>. QED  BY <1>1, SpecIInv, PTL

\* Whatever locked and unlocked writers run together, on any items, warehouses
\* and months, each committed Stock row is what the committed movements add up
\* to: no update of create, receiveOrder, fuel dispatch or consumption is lost.
THEOREM LedgerSafety == Spec => []StockMatchesLedger
<1>1. IInv => StockMatchesLedger
  BY DEF IInv
<1>. QED  BY <1>1, SpecIInv, PTL

-----------------------------------------------------------------------------
(* Lock order: the folio lock of a month comes before every row lock *)

\* A transaction that takes row locks ahead of others holds the folio lock of
\* its month from its first statement to its end; a row is held neither before
\* the folio lock nor, by fuel and consumption, while waiting for anything.
FolioOwner(p) ==
    /\ \A m \in Months : folioLock[m] = p <=>
          InTx(p) /\ pc[p] # "folio" /\ req[p].kind \notin UnlockedKinds /\ req[p].month = m
    /\ pc[p] = "folio" => req[p].kind \notin UnlockedKinds
    /\ \A k \in Keys : rowLock[k] = p => pc[p] \notin {"folio", "create", "check", "deduct"}

FolioInv == \A p \in Procs : FolioOwner(p)

LEMMA InitFolioInv == Init => FolioInv
BY InventoryAssumption DEF Init, FolioInv, FolioOwner, InTx, Steps

LEMMA FolioFrame ==
    ASSUME NEW q \in Procs, FolioOwner(q), pc'[q] = pc[q], req'[q] = req[q],
           \A k \in Keys : rowLock'[k] = q => rowLock[k] = q,
           \A m \in Months : folioLock'[m] = q <=> folioLock[m] = q
    PROVE  FolioOwner(q)'
BY DEF FolioOwner, InTx

\* A step of p from one statement to a later one, keeping its folio lock.
LEMMA FolioAdvance ==
    ASSUME IInv, FolioInv, NEW p \in Procs, InTx(p), pc[p] # "folio",
           pc'[p] \in Steps \ {"folio"}, \A q \in Procs \ {p} : pc'[q] = pc[q],
           UNCHANGED <<req, folioLock>>,
           \A k \in Keys : rowLock'[k] = p => pc'[p] \notin {"folio", "create", "check", "deduct"},
           \A q \in Procs \ {p} : \A k \in Keys : rowLock'[k] = q => rowLock[k] = q
    PROVE  FolioInv'
<1>1. FolioOwner(p)'
  BY DEF FolioInv, FolioOwner, InTx
<1>2. ASSUME NEW q \in Procs, q # p PROVE FolioOwner(q)'
  BY <1>2, FolioFrame DEF FolioInv
<1>. QED  BY <1>1, <1>2 DEF FolioInv

LEMMA EndFolio ==
    ASSUME IInv, FolioInv, NEW p \in Procs, NEW o \in Outcomes, End(p, o)
    PROVE  FolioInv'
<1>1. FolioOwner(p)'
  <2>1. pc'[p] = o /\ pc'[p] \notin Steps
    BY DEF IInv, TypeOK, End, Outcomes, Steps
  <2>. QED
    BY <2>1, InventoryAssumption DEF FolioOwner, End, InTx, Steps
<1>2. ASSUME NEW q \in Procs, q # p PROVE FolioOwner(q)'
  <2>1. pc'[q] = pc[q] /\ req'[q] = req[q]
    BY <1>2 DEF IInv, TypeOK, End
  <2>2. /\ \A k \in Keys : rowLock'[k] = q => rowLock[k] = q
        /\ \A m \in Months : folioLock'[m] = q <=> folioLock[m] = q
    BY <1>2, InventoryAssumption DEF End
  <2>. QED  BY <2>1, <2>2, FolioFrame DEF FolioInv
<1>. QED  BY <1>1, <1>2 DEF FolioInv

LEMMA NextFolioInv == IInv /\ FolioInv /\ [Next]_vars => FolioInv'
<1>. SUFFICES ASSUME IInv, FolioInv, [Next]_vars PROVE FolioInv'
  OBVIOUS
<1>. USE InventoryAssumption
<1>1. ASSUME NEW p \in Procs, NEW r \in Requests, Begin(p, r) PROVE FolioInv'
  <2>1. /\ ~InTx(p) /\ pc'[p] \in {"check", "folio", "rejected"}
        /\ pc'[p] = "check" => req'[p].kind \in UnlockedKinds
        /\ pc'[p] = "folio" => req'[p].kind \notin UnlockedKinds
        /\ UNCHANGED <<rowLock, folioLock>>
    BY <1>1 DEF IInv, TypeOK, Begin, InTx, Steps
  <2>2. /\ \A m \in Months : folioLock[m] # p
        /\ \A k \in Keys : rowLock[k] # p
    BY <2>1 DEF FolioInv, FolioOwner, IInv, Holding
  <2>3. FolioOwner(p)'
    BY <2>1, <2>2 DEF FolioOwner, InTx, Steps
  <2>4. ASSUME NEW q \in Procs, q # p PROVE FolioOwner(q)'
    <3>1. pc'[q] = pc[q] /\ req'[q] = req[q]
      BY <1>1, <2>4 DEF IInv, TypeOK, Begin
    <3>. QED  BY <2>1, <3>1, FolioFrame DEF FolioInv
  <2>. QED  BY <2>3, <2>4 DEF FolioInv
<1>2. ASSUME NEW p \in Procs, LockFolio(p) PROVE FolioInv'
  <2>1. /\ pc[p] = "folio" /\ InTx(p) /\ folioLock[req[p].month] = NULL
        /\ folioLock' = [folioLock EXCEPT ![req[p].month] = p]
        /\ pc' = [pc EXCEPT ![p] = IF req[p].kind \in EarlyKinds THEN "create"
                                   ELSE FirstStep(req[p].kind)]
        /\ UNCHANGED <<rowLock, req>>
    BY <1>2 DEF LockFolio, InTx, Steps
  <2>2. req[p].month \in Months /\ req[p].kind \in Kinds /\ req[p].kind \notin UnlockedKinds
    BY <2>1, CurrentLine DEF IInv, Request, FolioInv, FolioOwner
  <2>3. FirstStep(req[p].kind) \in {"lock", "post"}
    BY <2>2 DEF FirstStep, Kinds, LedgerKinds, TransitKinds, UnlockedKinds
  <2>4. FolioOwner(p)'
    <3>1. pc'[p] \in {"create", "lock", "post"} /\ InTx(p)'
      BY <2>1, <2>3 DEF IInv, TypeOK, InTx, Steps
    <3>2. \A m \in Months : folioLock[m] # p
      BY <2>1 DEF FolioInv, FolioOwner
    <3>3. \A m \in Months : folioLock'[m] = p <=> m = req[p].month
      BY <2>1, <2>2, <3>2 DEF IInv, TypeOK
    <3>4. \A k \in Keys : rowLock'[k] # p
      BY <2>1 DEF FolioInv, FolioOwner
    <3>. QED  BY <2>1, <2>2, <3>1, <3>3, <3>4 DEF FolioOwner
  <2>5. ASSUME NEW q \in Procs, q # p PROVE FolioOwner(q)'
    <3>1. pc'[q] = pc[q]
      BY <2>1, <2>5 DEF IInv, TypeOK
    <3>2. \A m \in Months : folioLock'[m] = q <=> folioLock[m] = q
      BY <2>1, <2>2, <2>5 DEF IInv, TypeOK
    <3>. QED  BY <2>1, <3>1, <3>2, FolioFrame DEF FolioInv
  <2>. QED  BY <2>4, <2>5 DEF FolioInv
<1>3. ASSUME NEW p \in Procs, LockRow(p) \/ UpsertRow(p) \/ Deduct(p) PROVE FolioInv'
  <2>1. /\ pc[p] \in {"lock", "upsert", "deduct"} /\ InTx(p)
        /\ pc' = [pc EXCEPT ![p] = "write"] \/ pc' = [pc EXCEPT ![p] = "upsert"]
             \/ pc' = [pc EXCEPT ![p] = "commit"]
        /\ UNCHANGED <<req, folioLock>>
        /\ rowLock' = rowLock \/ rowLock' = [rowLock EXCEPT ![Key(p)] = p]
    BY <1>3 DEF LockRow, UpsertRow, Deduct, Take, InTx, Steps
  <2>2. /\ pc'[p] \in {"write", "upsert", "commit"}
        /\ \A q \in Procs \ {p} : pc'[q] = pc[q]
        /\ \A q \in Procs \ {p} : \A k \in Keys : rowLock'[k] = q => rowLock[k] = q
    BY <2>1 DEF IInv, TypeOK
  <2>. QED  BY <2>1, <2>2, FolioAdvance DEF Steps
<1>4. ASSUME NEW p \in Procs,
             \/ WriteIngreso(p) \/ WriteSalida(p) \/ WriteAjuste(p) \/ WriteTransferIn(p)
             \/ WriteReception(p) \/ PostTransitLine(p)
      PROVE  FolioInv'
  <2>1. /\ pc[p] \in {"write", "post"} /\ InTx(p) /\ pc[p] # "commit" /\ NextLine(p)
        /\ UNCHANGED <<rowLock, folioLock, req>>
    BY <1>4 DEF WriteIngreso, WriteSalida, WriteAjuste, WriteTransferIn, WriteReception,
                PostTransitLine, Writing, InTx, Steps
  <2>2. /\ pc'[p] \in {"lock", "post", "check", "commit"} /\ AtLine(p)'
        /\ \A q \in Procs \ {p} : pc'[q] = pc[q]
    BY <2>1, NextLineStep DEF IInv
  <2>3. req[p].kind \notin UnlockedKinds
    BY <2>1 DEF IInv, AtLine, LedgerKinds, TransitKinds, UnlockedKinds
  <2>4. pc'[p] # "check"
    BY <2>1, <2>2, <2>3 DEF AtLine
  <2>. QED  BY <2>1, <2>2, <2>4, FolioAdvance DEF Steps
<1>5. ASSUME NEW p \in Procs, WriteTransferOut(p) PROVE FolioInv'
  <2>1. /\ pc[p] = "write" /\ InTx(p) /\ pc' = [pc EXCEPT ![p] = "lock"]
        /\ UNCHANGED <<rowLock, folioLock, req>>
    BY <1>5 DEF WriteTransferOut, Writing, InTx, Steps
  <2>2. pc'[p] = "lock" /\ \A q \in Procs \ {p} : pc'[q] = pc[q]
    BY <2>1 DEF IInv, TypeOK
  <2>. QED  BY <2>1, <2>2, FolioAdvance DEF Steps
<1>6. ASSUME NEW p \in Procs, CheckStock(p) \/ CreateMovement(p) PROVE FolioInv'
  <2>1. /\ pc[p] \in {"check", "create"} /\ InTx(p)
        /\ \/ pc' = [pc EXCEPT ![p] = "deduct"] \/ pc' = [pc EXCEPT ![p] = "create"]
           \/ pc' = [pc EXCEPT ![p] = FirstStep(req[p].kind)]
        /\ UNCHANGED <<rowLock, folioLock, req>>
    BY <1>6 DEF CheckStock, CreateMovement, InTx, Steps, tables
  <2>2. /\ pc'[p] \in {"deduct", "create", "lock", "post", "check"}
        /\ \A q \in Procs \ {p} : pc'[q] = pc[q]
    BY <2>1 DEF IInv, TypeOK, FirstStep
  <2>3. \A k \in Keys : rowLock[k] # p
    BY <2>1 DEF FolioInv, FolioOwner
  <2>. QED  BY <2>1, <2>2, <2>3, FolioAdvance DEF Steps
<1>7. ASSUME NEW p \in Procs, Commit(p) \/ Reject(p) \/ Rollback(p) \/ DeadlockAbort(p)
      PROVE  FolioInv'
  BY <1>7, EndFolio DEF Commit, Reject, Rollback, DeadlockAbort, Outcomes
<1>8. CASE UNCHANGED vars
  BY <1>8 DEF vars, FolioInv, FolioOwner, InTx
<1>. QED
  BY <1>1, <1>2, <1>3, <1>4, <1>5, <1>6, <1>7, <1>8 DEF Next, Step, Quiescent

\* Who is waited for and waits holds the folio lock of its month.
LEMMA WaitingOwner ==
    ASSUME IInv, FolioInv, NEW p \in Procs, NEW q \in Procs, NEW r \in Procs,
           WaitsFor(p, q), WaitsFor(q, r)
    PROVE  req[q] \in Requests /\ req[q].month \in Months /\ folioLock[req[q].month] = q
<1>1. pc[q] \in {"folio", "lock", "upsert", "deduct"} /\ InTx(q) /\ pc[q] # "commit"
  BY DEF WaitsFor, InTx, Steps
<1>2. pc[p] \in {"folio", "lock", "upsert", "deduct"} /\ InTx(p) /\ pc[p] # "commit"
  BY DEF WaitsFor, InTx, Steps
<1>3. /\ Key(p) \in Keys /\ req[p].month \in Months
      /\ req[q] \in Requests /\ req[q].month \in Months
  BY <1>1, <1>2, CurrentLine DEF IInv, Request
<1>4. (folioLock[req[p].month] = q) \/ (rowLock[Key(p)] = q)
  BY DEF WaitsFor
<1>5. pc[q] # "folio" /\ req[q].kind \notin UnlockedKinds
  <2>1. CASE folioLock[req[p].month] = q
    BY <1>3, <2>1 DEF FolioInv, FolioOwner
  <2>2. CASE rowLock[Key(p)] = q
    <3>1. pc[q] \in {"lock", "upsert"}
      BY <1>1, <1>3, <2>2 DEF FolioInv, FolioOwner
    <3>. QED  BY <3>1 DEF IInv, AtLine, LedgerKinds, UnlockedKinds
  <2>. QED  BY <1>4, <2>1, <2>2
<1>. QED  BY <1>1, <1>3, <1>5 DEF FolioInv, FolioOwner

\* When every request falls in one month, the folio lock of that month makes
\* the transactions of create and receiveOrder take their row locks one after
\* another, and fuel and consumption hold a row only when they wait no more:
\* no set of transactions ever waits in a circle.
THEOREM NoDeadlockInOneMonth ==
    ASSUME \A r1, r2 \in Requests : r1.month = r2.month
    PROVE  Spec => []NoWaitCycle
<1>1. IInv /\ FolioInv => NoWaitCycle
  <2>. SUFFICES ASSUME IInv, FolioInv, NEW S \in SUBSET Procs, WaitCycle(S)
                PROVE  FALSE
    BY DEF NoWaitCycle
  <2>1. PICK p \in S : TRUE
    BY DEF WaitCycle
  <2>2. PICK q \in S : WaitsFor(p, q)
    BY DEF WaitCycle
  <2>3. PICK r \in S : WaitsFor(q, r)
    BY DEF WaitCycle
  <2>4. PICK t \in S : WaitsFor(r, t)
    BY DEF WaitCycle
  <2>5. /\ req[q] \in Requests /\ folioLock[req[q].month] = q
        /\ req[r] \in Requests /\ folioLock[req[r].month] = r
    BY <2>2, <2>3, <2>4, WaitingOwner
  <2>6. q = r
    BY <2>5
  <2>. QED  BY <2>3, <2>6 DEF WaitsFor
<1>2. Spec => []FolioInv
  BY InitFolioInv, NextFolioInv, SpecIInv, PTL DEF Spec
<1>. QED  BY <1>1, <1>2, SpecIInv, PTL

-----------------------------------------------------------------------------
(* Bounds: while only the locked writers and the transit receptions run,     *)
(* quantities stay above zero and average costs within the costs received.   *)

Sound(row) == row.qty >= 0 /\ row.cost \in 0..MaxCost

\* What is committed and what a transaction would commit: a row it holds, or
\* the empty row.
BoundsInv ==
    /\ \A k \in Keys : Sound(stock[k])
    /\ \A p \in Procs : \A k \in Keys : Sound(buf[p][k])

-----------------------------------------------------------------------------
(* Lemmas about the average *)

\* A quotient by a positive divisor stays below a bound on the dividend.
LEMMA DivBounds ==
    ASSUME NEW a \in Nat, NEW b \in Nat, b > 0, NEW m \in Nat, a < b * (m + 1)
    PROVE  a \div b \in 0..m
<1>. DEFINE d == a \div b
<1>1. d \in Int /\ b * d <= a /\ a < b * d + b
  OBVIOUS
<1>. HIDE DEF d
<1>2. d >= 0
  <2>1. SUFFICES ASSUME d <= -1 PROVE FALSE
    BY <1>1
  <2>2. b * (d + 1) <= 0
    BY <1>1, <2>1
  <2>. QED  BY <1>1, <2>2
<1>3. d <= m
  <2>1. SUFFICES ASSUME d >= m + 1 PROVE FALSE
    BY <1>1
  <2>2. b * (m + 1) <= b * d
    BY <1>1, <2>1
  <2>. QED  BY <1>1, <2>2
<1>. QED  BY <1>1, <1>2, <1>3 DEF d

LEMMA RoundDivBounds ==
    ASSUME NEW n \in Nat, NEW d \in Nat, d > 0, NEW m \in Nat, n <= d * m
    PROVE  RoundDiv(n, d) \in 0..m
<1>1. 2 * n + d \in Nat /\ 2 * d \in Nat /\ 2 * d > 0
  OBVIOUS
<1>2. (2 * d) * (m + 1) = 2 * (d * m) + 2 * d
  OBVIOUS
<1>3. 2 * n + d < (2 * d) * (m + 1)
  <2>1. d * m \in Nat
    OBVIOUS
  <2>. QED  BY <1>2, <2>1
<1>. QED  BY <1>1, <1>3, DivBounds DEF RoundDiv

\* A weighted average lies between zero and the highest of its costs.
LEMMA AverageBounds ==
    ASSUME MaxCost \in Nat, NEW row \in Row, Sound(row), NEW q \in Nat, NEW c \in 0..MaxCost
    PROVE  Average(row, q, c) \in 0..MaxCost
<1>1. row.qty \in Nat /\ row.cost \in Nat /\ row.cost <= MaxCost
  BY DEF Row, Sound
<1>. DEFINE x == row.qty
            y == row.cost
<1>2. x \in Nat /\ y \in Nat /\ y <= MaxCost /\ c \in Nat /\ c <= MaxCost
  BY <1>1
<1>. HIDE DEF x, y
<1>3. x * y \in Nat /\ x * MaxCost \in Nat /\ q * c \in Nat /\ q * MaxCost \in Nat
  BY <1>2
<1>4. x * y <= x * MaxCost
  BY <1>2
<1>5. q * c <= q * MaxCost
  BY <1>2
<1>6. (x + q) * MaxCost = x * MaxCost + q * MaxCost
  BY <1>2
<1>7. x * y + q * c <= (x + q) * MaxCost /\ x * y + q * c \in Nat /\ x + q \in Nat
  BY <1>2, <1>3, <1>4, <1>5, <1>6
<1>8. x + q > 0 => RoundDiv(x * y + q * c, x + q) \in 0..MaxCost
  BY <1>7, RoundDivBounds
<1>. QED  BY <1>2, <1>8 DEF Average, x, y

\* Every operation on a row keeps it sound; an egress must find enough.
LEMMA SoundOps ==
    ASSUME MaxCost \in Nat, NEW row \in Row, Sound(row), NEW q \in Nat, NEW c \in 0..MaxCost
    PROVE  /\ Sound(Blend(row, q, c))
           /\ Sound(Ingress(row, q, c))
           /\ Sound(Adjust(row, q, c))
           /\ row.qty >= q => Sound(Egress(row, q))
<1>1. row.qty \in Int /\ row.qty >= 0 /\ row.cost \in 0..MaxCost
  BY DEF Row, Sound
<1>2. Average(row, q, c) \in 0..MaxCost
  BY AverageBounds
<1>3. row.qty + q >= 0 /\ (row.qty >= q => row.qty - q >= 0)
  BY <1>1
<1>. QED  BY <1>1, <1>2, <1>3 DEF Sound, Blend, Ingress, Adjust, Egress

-----------------------------------------------------------------------------
(* The steps *)

LEMMA InitBounds == Init => BoundsInv
<1>. SUFFICES ASSUME Init PROVE BoundsInv
  OBVIOUS
<1>1. ASSUME NEW k \in Keys PROVE Sound(stock[k])
  BY InventoryAssumption DEF Init, Sound
<1>2. ASSUME NEW p \in Procs, NEW k \in Keys PROVE Sound(buf[p][k])
  BY InventoryAssumption DEF Init, Sound, Missing
<1>. QED  BY <1>1, <1>2 DEF BoundsInv

\* A transaction that ends forgets its rows.
LEMMA EndBounds ==
    ASSUME IInv, BoundsInv, NEW p \in Procs, NEW o \in Outcomes, End(p, o),
           \A k \in Keys : Sound(stock[k])'
    PROVE  BoundsInv'
<1>1. ASSUME NEW q \in Procs, NEW k \in Keys PROVE Sound(buf'[q][k])
  BY InventoryAssumption DEF End, IInv, TypeOK, BoundsInv, Sound, Missing
<1>. QED  BY <1>1 DEF BoundsInv, Sound

\* A transaction sees a committed row, or the empty one it has just inserted.
LEMMA TakeBounds ==
    ASSUME IInv, BoundsInv, NEW p \in Procs, Key(p) \in Keys, NEW row,
           Sound(row), Take(p, Key(p), row), UNCHANGED stock
    PROVE  BoundsInv'
<1>1. ASSUME NEW q \in Procs, NEW k \in Keys PROVE Sound(buf'[q][k])
  BY DEF Take, IInv, TypeOK, BoundsInv, Sound
<1>. QED  BY <1>1 DEF BoundsInv, Sound

LEMMA PutBounds ==
    ASSUME IInv, BoundsInv, NEW p \in Procs, Key(p) \in Keys, NEW row, NEW e,
           Sound(row), Put(p, row, e), UNCHANGED stock
    PROVE  BoundsInv'
<1>1. ASSUME NEW q \in Procs, NEW k \in Keys PROVE Sound(buf'[q][k])
  BY DEF Put, IInv, TypeOK, BoundsInv, Sound
<1>. QED  BY <1>1 DEF BoundsInv, Sound

LEMMA WriteBounds ==
    ASSUME IInv, BoundsInv, NEW p \in Procs,
           \/ WriteIngreso(p) \/ WriteSalida(p) \/ WriteAjuste(p)
           \/ WriteTransferOut(p) \/ WriteTransferIn(p) \/ WriteReception(p)
    PROVE  BoundsInv'
<1>. DEFINE row == buf[p][Key(p)]
            q == Cur(p).qty
            c == Cur(p).cost
            oc == buf[p][OriginKey(p)].cost
<1>1. pc[p] = "write" /\ ~Refused(p) /\ UNCHANGED stock
  BY DEF WriteIngreso, WriteSalida, WriteAjuste, WriteTransferOut, WriteTransferIn,
         WriteReception, Writing, tables
<1>2. Key(p) \in Keys /\ OriginKey(p) \in Keys /\ q \in Nat /\ row \in Row
  BY <1>1, AtWrite, CurrentLine
<1>3. c \in 0..MaxCost
  <2>1. /\ req[p] \in Requests /\ idx[p] \in 1..Len(Lines(p)) /\ c \in Nat
    BY <1>1, AtWrite, CurrentLine
  <2>. QED  BY <2>1, InventoryAssumption DEF Cur, Lines
<1>4. Sound(row) /\ oc \in 0..MaxCost
  BY <1>2 DEF BoundsInv, Sound
<1>5. req[p].kind \in {"SALIDA", "TRANSFER"} /\ side[p] = "origin" => row.qty >= q
  BY <1>1, <1>2 DEF Refused, Row
<1>6. /\ Sound(Blend(row, q, c)) /\ Sound(Ingress(row, q, c)) /\ Sound(Adjust(row, q, c))
      /\ row.qty >= q => Sound(Egress(row, q))
      /\ Sound(Blend(row, q, oc))
  <2>. HIDE DEF row, q, c, oc
  <2>. QED  BY <1>2, <1>3, <1>4, SoundOps, InventoryAssumption
<1>7. CASE WriteIngreso(p)
  BY <1>1, <1>2, <1>6, <1>7, PutBounds DEF WriteIngreso
<1>8. CASE WriteSalida(p)
  BY <1>1, <1>2, <1>5, <1>6, <1>8, PutBounds DEF WriteSalida, Writing
<1>9. CASE WriteAjuste(p)
  BY <1>1, <1>2, <1>6, <1>9, PutBounds DEF WriteAjuste
<1>10. CASE WriteTransferOut(p)
  BY <1>1, <1>2, <1>5, <1>6, <1>10, PutBounds DEF WriteTransferOut, Writing
<1>11. CASE WriteTransferIn(p)
  BY <1>1, <1>2, <1>6, <1>11, PutBounds DEF WriteTransferIn
<1>12. CASE WriteReception(p)
  BY <1>1, <1>2, <1>6, <1>12, PutBounds DEF WriteReception
<1>. QED  BY <1>7, <1>8, <1>9, <1>10, <1>11, <1>12

LEMMA CommitBounds ==
    ASSUME IInv, BoundsInv, NEW p \in Procs, Commit(p)
    PROVE  BoundsInv'
<1>1. \A k \in Keys : Sound(stock[k])'
  BY DEF Commit, BoundsInv, Sound
<1>. QED  BY <1>1, EndBounds DEF Commit, Outcomes

LEMMA LockBounds ==
    ASSUME IInv, BoundsInv, NEW p \in Procs, LockRow(p) \/ UpsertRow(p)
    PROVE  BoundsInv'
<1>1. pc[p] \in {"lock", "upsert"} /\ InTx(p) /\ pc[p] # "commit" /\ UNCHANGED stock
  BY DEF LockRow, UpsertRow, InTx, Steps, tables
<1>2. Key(p) \in Keys
  BY <1>1, CurrentLine DEF IInv
<1>3. Sound(stock[Key(p)]) /\ Sound(Created)
  BY <1>2, InventoryAssumption DEF BoundsInv, Sound, Created
<1>4. CASE UpsertRow(p)
  BY <1>1, <1>2, <1>3, <1>4, TakeBounds DEF UpsertRow
<1>5. CASE LockRow(p) /\ Take(p, Key(p), stock[Key(p)])
  BY <1>1, <1>2, <1>3, <1>5, TakeBounds
<1>6. CASE LockRow(p) /\ UNCHANGED buf
  BY <1>1, <1>6 DEF BoundsInv, Sound
<1>. QED  BY <1>4, <1>5, <1>6 DEF LockRow

LEMMA NextBounds ==
    ASSUME \A r \in Requests : r.kind \notin UnlockedKinds
    PROVE  IInv /\ BoundsInv /\ [Next]_vars => BoundsInv'
<1>. SUFFICES ASSUME IInv, BoundsInv, [Next]_vars PROVE BoundsInv'
  OBVIOUS
<1>0. UNCHANGED <<stock, buf>> => BoundsInv'
  BY DEF BoundsInv, Sound
<1>1. ASSUME NEW p \in Procs, NEW r \in Requests, Begin(p, r) PROVE BoundsInv'
  BY <1>0, <1>1 DEF Begin, tables
<1>2. ASSUME NEW p \in Procs, Step(p) PROVE BoundsInv'
  <2>1. CASE \/ LockFolio(p) \/ CreateMovement(p) \/ PostTransitLine(p) \/ CheckStock(p)
    BY <1>0, <2>1 DEF LockFolio, CreateMovement, PostTransitLine, CheckStock, tables
  <2>2. CASE LockRow(p) \/ UpsertRow(p)
    BY <2>2, LockBounds
  <2>3. CASE \/ WriteIngreso(p) \/ WriteSalida(p) \/ WriteAjuste(p)
             \/ WriteTransferOut(p) \/ WriteTransferIn(p) \/ WriteReception(p)
    BY <2>3, WriteBounds
  <2>4. ASSUME Deduct(p) PROVE FALSE
    <3>1. pc[p] = "deduct" /\ InTx(p)
      BY <2>4 DEF Deduct, InTx, Steps
    <3>. QED  BY <3>1 DEF IInv, AtLine
  <2>5. CASE Commit(p)
    BY <2>5, CommitBounds
  <2>6. CASE Reject(p)
    BY <2>6, EndBounds DEF Reject, tables, BoundsInv, Sound, Outcomes
  <2>. QED  BY <1>2, <2>1, <2>2, <2>3, <2>4, <2>5, <2>6 DEF Step
<1>3. ASSUME NEW p \in Procs, Rollback(p) \/ DeadlockAbort(p) PROVE BoundsInv'
  BY <1>3, EndBounds DEF Rollback, DeadlockAbort, tables, BoundsInv, Sound, Outcomes
<1>4. CASE UNCHANGED vars
  BY <1>0, <1>4 DEF vars
<1>. QED  BY <1>1, <1>2, <1>3, <1>4 DEF Next, Quiescent

-----------------------------------------------------------------------------
(* The theorems *)

\* As long as nobody dispatches fuel or consumes on a work order, no committed
\* quantity is below zero: the row lock covers the comparison and the update.
THEOREM NoOverdraft ==
    ASSUME \A r \in Requests : r.kind \notin UnlockedKinds
    PROVE  Spec => []StockNeverNegative
<1>1. BoundsInv => StockNeverNegative
  BY DEF BoundsInv, Sound, StockNeverNegative
<1>2. IInv /\ BoundsInv /\ [Next]_vars => BoundsInv'
  BY NextBounds
<1>. QED  BY <1>1, <1>2, InitBounds, SpecIInv, PTL DEF Spec

\* Under the same condition the average cost of a row never leaves the range of
\* the costs that entered, in spite of rounding.
THEOREM CostWithinReceived ==
    ASSUME \A r \in Requests : r.kind \notin UnlockedKinds
    PROVE  Spec => []PmpWithinReceivedCosts
<1>1. BoundsInv => PmpWithinReceivedCosts
  BY DEF BoundsInv, Sound, PmpWithinReceivedCosts
<1>2. IInv /\ BoundsInv /\ [Next]_vars => BoundsInv'
  BY NextBounds
<1>. QED  BY <1>1, <1>2, InitBounds, SpecIInv, PTL DEF Spec

-----------------------------------------------------------------------------
(* Induction over the natural numbers *)

\* A set that holds 0 and the successor of each number it holds holds them all.
LEMMA NatSet ==
    ASSUME NEW S, 0 \in S, \A n \in Nat : n \in S => n + 1 \in S
    PROVE  \A n \in Nat : n \in S
<1>. DEFINE T == Nat \ S
            less == OpToRel(<, Nat)
<1>1. \A m, n \in Nat : m < n => <<m, n>> \in less
  BY DEF OpToRel
<1>2. IsWellFoundedOn(less, Nat)
  BY NatLessThanWellFounded, Zenon
<1>. HIDE DEF less
<1>3. SUFFICES ASSUME T # {} PROVE FALSE
  OBVIOUS
<1>4. PICK n \in T : \A m \in T : ~(<<m, n>> \in less)
  <2>. HIDE DEF T
  <2>1. T \subseteq Nat
    BY DEF T
  <2>. QED  BY <1>2, <1>3, <2>1, WFMin
<1>5. n # 0 /\ n - 1 \in Nat /\ n - 1 < n /\ (n - 1) + 1 = n
  BY <1>4
<1>6. n - 1 \in T
  BY <1>5
<1>. QED  BY <1>1, <1>4, <1>5, <1>6

-----------------------------------------------------------------------------
(* The running balance of a sequence of effects *)

Effects == Seq(Effect)

\* The balances after each of the effects s of a row that starts at b.
Running(s, b) ==
    LET run[i \in 0..Len(s)] == IF i = 0 THEN b ELSE Apply(s[i], run[i - 1])
    IN  run

\* Such balances exist and follow one another.
LEMMA RunningDef ==
    ASSUME NEW s \in Effects, NEW b \in Int
    PROVE  /\ Running(s, b)[0] = b
           /\ \A i \in 1..Len(s) : Running(s, b)[i] = Apply(s[i], Running(s, b)[i - 1])
           /\ \A i \in 0..Len(s) : Running(s, b)[i] \in Int
<1>. DEFINE Upto(n, f) == /\ f \in [0..n -> Int] /\ f[0] = b
                          /\ \A i \in 1..n : f[i] = Apply(s[i], f[i - 1])
            S == {n \in Nat : n <= Len(s) => \E f : Upto(n, f)}
            Runs(f) == f = [i \in 0..Len(s) |-> IF i = 0 THEN b ELSE Apply(s[i], f[i - 1])]
            run == CHOOSE f : Runs(f)
<1>0. Len(s) \in Nat /\ \A i \in 1..Len(s) : s[i] \in Effect
  BY DEF Effects
<1>1. 0 \in S
  <2>. DEFINE f == [i \in 0..0 |-> b]
  <2>1. Upto(0, f)
    OBVIOUS
  <2>. QED  BY <2>1
<1>2. ASSUME NEW n \in Nat, n \in S PROVE n + 1 \in S
  <2>. SUFFICES ASSUME n + 1 <= Len(s) PROVE \E f : Upto(n + 1, f)
    OBVIOUS
  <2>1. PICK f : Upto(n, f)
    BY <1>0, <1>2
  <2>. DEFINE g == [i \in 0..n + 1 |-> IF i <= n THEN f[i] ELSE Apply(s[n + 1], f[n])]
  <2>2. Apply(s[n + 1], f[n]) \in Int
    BY <1>0, <2>1, ApplyType
  <2>3. g \in [0..n + 1 -> Int] /\ g[0] = b
    BY <2>1, <2>2
  <2>4. ASSUME NEW i \in 1..n + 1 PROVE g[i] = Apply(s[i], g[i - 1])
    <3>1. CASE i <= n
      BY <2>1, <3>1
    <3>2. CASE i = n + 1
      BY <2>1, <3>2
    <3>. QED  BY <3>1, <3>2
  <2>5. Upto(n + 1, g)
    <3>. HIDE DEF g
    <3>. QED  BY <2>3, <2>4
  <2>. QED  BY <2>5
<1>3. \E f : Upto(Len(s), f)
  <2>. HIDE DEF S, Upto
  <2>1. \A n \in Nat : n \in S
    BY <1>1, <1>2, NatSet
  <2>. QED  BY <1>0, <2>1 DEF S
<1>4. \E f : Runs(f)
  <2>1. PICK f : Upto(Len(s), f)
    BY <1>3
  <2>2. Runs(f)
    BY <1>0, <2>1
  <2>. QED  BY <2>2
<1>5. Runs(run)
  <2>. HIDE DEF Runs
  <2>. QED  BY <1>4
<1>6. Running(s, b) = run
  BY DEF Running
<1>. HIDE DEF run
<1>7. run[0] = b /\ \A i \in 1..Len(s) : run[i] = Apply(s[i], run[i - 1])
  BY <1>0, <1>5
<1>8. \A i \in 0..Len(s) : run[i] \in Int
  <2>. DEFINE U == {n \in Nat : n <= Len(s) => run[n] \in Int}
  <2>1. 0 \in U
    BY <1>7
  <2>2. ASSUME NEW n \in Nat, n \in U PROVE n + 1 \in U
    <3>. SUFFICES ASSUME n + 1 <= Len(s) PROVE run[n + 1] \in Int
      OBVIOUS
    <3>1. run[n] \in Int /\ s[n + 1] \in Effect /\ run[n + 1] = Apply(s[n + 1], run[n])
      BY <1>0, <1>7, <2>2
    <3>. QED  BY <3>1, ApplyType
  <2>3. \A n \in Nat : n \in U
    <3>. HIDE DEF U
    <3>. QED  BY <2>1, <2>2, NatSet
  <2>. QED  BY <1>0, <2>3
<1>. QED  BY <1>6, <1>7, <1>8

\* Two sequences of effects that agree so far have given the same balances.
LEMMA RunningSame ==
    ASSUME NEW s \in Effects, NEW t \in Effects, NEW b \in Int,
           NEW m \in Nat, m <= Len(s), m <= Len(t), \A i \in 1..m : s[i] = t[i]
    PROVE  Running(s, b)[m] = Running(t, b)[m]
<1>. DEFINE x == Running(s, b)
            y == Running(t, b)
            S == {n \in Nat : n <= m => x[n] = y[n]}
<1>1. /\ x[0] = b /\ \A i \in 1..Len(s) : x[i] = Apply(s[i], x[i - 1])
      /\ y[0] = b /\ \A i \in 1..Len(t) : y[i] = Apply(t[i], y[i - 1])
      /\ Len(s) \in Nat /\ Len(t) \in Nat
  BY RunningDef DEF Effects
<1>. HIDE DEF x, y
<1>2. 0 \in S
  BY <1>1
<1>3. ASSUME NEW n \in Nat, n \in S PROVE n + 1 \in S
  <2>. SUFFICES ASSUME n + 1 <= m PROVE x[n + 1] = y[n + 1]
    OBVIOUS
  <2>1. x[n] = y[n] /\ n + 1 \in 1..m /\ n + 1 \in 1..Len(s) /\ n + 1 \in 1..Len(t)
    BY <1>1, <1>3
  <2>2. x[n + 1] = Apply(s[n + 1], x[(n + 1) - 1]) /\ y[n + 1] = Apply(t[n + 1], y[(n + 1) - 1])
    BY <1>1, <2>1
  <2>3. (n + 1) - 1 = n /\ s[n + 1] = t[n + 1]
    BY <2>1
  <2>. QED  BY <2>1, <2>2, <2>3
<1>4. \A n \in Nat : n \in S
  <2>. HIDE DEF S
  <2>. QED  BY <1>2, <1>3, NatSet
<1>. QED  BY <1>4 DEF x, y

\* One more effect at the end.
LEMMA RunningAppend ==
    ASSUME NEW s \in Effects, NEW e \in Effect, NEW b \in Int
    PROVE  Running(Append(s, e), b)[Len(s) + 1] = Apply(e, Running(s, b)[Len(s)])
<1>. DEFINE t == Append(s, e)
<1>1. /\ t \in Effects /\ Len(t) = Len(s) + 1 /\ Len(s) \in Nat /\ t[Len(s) + 1] = e
      /\ \A i \in 1..Len(s) : t[i] = s[i]
  BY DEF Effects
<1>. HIDE DEF t
<1>2. Running(t, b)[Len(s)] = Running(s, b)[Len(s)]
  BY <1>1, RunningSame
<1>3. Len(s) + 1 \in 1..Len(t) /\ (Len(s) + 1) - 1 = Len(s)
  BY <1>1
<1>4. Running(t, b)[Len(s) + 1] = Apply(t[Len(s) + 1], Running(t, b)[(Len(s) + 1) - 1])
  BY <1>1, <1>3, RunningDef
<1>. QED  BY <1>1, <1>2, <1>3, <1>4 DEF t

\* An effect that adds, put where there was none, adds as much to the last balance
\* when everything after it only adds.
LEMMA RunningLate ==
    ASSUME NEW s \in Effects, NEW t \in Effects, NEW b \in Int, Len(s) = Len(t),
           NEW j \in 1..Len(s), s[j] = NoEffect, ~t[j].set,
           \A i \in 1..Len(s) : i # j => s[i] = t[i],
           \A i \in j + 1..Len(s) : ~s[i].set
    PROVE  Running(t, b)[Len(t)] = Apply(t[j], Running(s, b)[Len(s)])
<1>. DEFINE x == Running(s, b)
            y == Running(t, b)
            S == {n \in Nat : j + n <= Len(s) => y[j + n] = x[j + n] + t[j].n}
<1>1. /\ \A i \in 1..Len(s) : x[i] = Apply(s[i], x[i - 1])
      /\ \A i \in 1..Len(t) : y[i] = Apply(t[i], y[i - 1])
      /\ \A i \in 0..Len(s) : x[i] \in Int /\ y[i] \in Int
      /\ Len(s) \in Nat /\ \A i \in 1..Len(s) : s[i] \in Effect /\ t[i] \in Effect
  BY RunningDef DEF Effects
<1>2. x[j - 1] = y[j - 1]
  <2>1. /\ j - 1 \in Nat /\ j - 1 <= Len(s) /\ j - 1 <= Len(t)
        /\ \A i \in 1..j - 1 : i \in 1..Len(s) /\ i # j
    BY <1>1
  <2>2. \A i \in 1..j - 1 : s[i] = t[i]
    BY <2>1
  <2>. QED  BY <2>1, <2>2, RunningSame
<1>. HIDE DEF x, y
<1>3. x[j] = x[j - 1] /\ y[j] = x[j - 1] + t[j].n /\ x[j - 1] \in Int /\ t[j].n \in Int
  <2>1. x[j] = Apply(NoEffect, x[j - 1]) /\ y[j] = Apply(t[j], x[j - 1]) /\ x[j - 1] \in Int
    BY <1>1, <1>2
  <2>. QED  BY <1>1, <2>1 DEF Apply, NoEffect, Effect
<1>4. 0 \in S
  BY <1>3
<1>5. ASSUME NEW n \in Nat, n \in S PROVE n + 1 \in S
  <2>. SUFFICES ASSUME j + (n + 1) <= Len(s) PROVE y[j + (n + 1)] = x[j + (n + 1)] + t[j].n
    OBVIOUS
  <2>. DEFINE i == j + (n + 1)
  <2>1. i \in 1..Len(s) /\ i # j /\ i \in j + 1..Len(s) /\ i - 1 = j + n /\ j + n \in 0..Len(s)
    OBVIOUS
  <2>. HIDE DEF i
  <2>2. y[j + n] = x[j + n] + t[j].n /\ x[j + n] \in Int
    BY <1>1, <1>5, <2>1
  <2>3. x[i] = Apply(s[i], x[j + n]) /\ y[i] = Apply(s[i], y[j + n]) /\ s[i] \in Effect /\ ~s[i].set
    BY <1>1, <2>1
  <2>4. x[i] = x[j + n] + s[i].n /\ y[i] = y[j + n] + s[i].n /\ s[i].n \in Int
    BY <2>3 DEF Apply, Effect
  <2>. QED  BY <1>3, <2>2, <2>4 DEF i
<1>6. \A n \in Nat : n \in S
  <2>. HIDE DEF S
  <2>. QED  BY <1>4, <1>5, NatSet
<1>7. y[Len(s)] = x[Len(s)] + t[j].n
  <2>1. Len(s) - j \in Nat /\ j + (Len(s) - j) = Len(s)
    BY <1>1
  <2>2. Len(s) - j \in S
    <3>. HIDE DEF S
    <3>. QED  BY <1>6, <2>1
  <2>3. y[j + (Len(s) - j)] = x[j + (Len(s) - j)] + t[j].n
    BY <2>1, <2>2
  <2>. QED  BY <2>1, <2>3
<1>. QED  BY <1>7 DEF x, y, Apply

-----------------------------------------------------------------------------
(* The Kardex *)

\* The effects the Kardex reads on a row, in the order of createdAt: a movement that
\* did not commit has none.
Told(k) ==
    [i \in 1..Len(made) |-> IF pc[made[i]] = "committed" THEN posted[made[i]][k] ELSE NoEffect]

\* The balance a row opened with.
Opened(k) == OpeningStock[k].qty

\* A transaction that stamped its movement early stands in the ledger while it runs:
\* it holds the folio lock, and everything stamped after it only adds.
Recorded(p) ==
    /\ \A i \in 1..Len(made) : made[i] = p =>
          /\ pc[p] # "idle"
          /\ InTx(p) => /\ req[p].kind = "BODEGA" /\ pc[p] \notin {"folio", "create"}
                        /\ \A j \in i + 1..Len(made), k \in Keys : ~posted[made[j]][k].set
    /\ InTx(p) /\ req[p].kind = "BODEGA" /\ pc[p] \notin {"folio", "create"} =>
          \E i \in 1..Len(made) : made[i] = p
    /\ InTx(p) /\ req[p].kind # "AJUSTE" => \A k \in Keys : ~posted[p][k].set

RecordedOnce == \A i, j \in 1..Len(made) : made[i] = made[j] => i = j

KardexInv ==
    /\ RecordedOnce
    /\ \A p \in Procs : Recorded(p)
    /\ \A k \in Keys : Kardex(k) = ledger[k]

LEMMA ToldType ==
    ASSUME TypeOK, NEW k \in Keys
    PROVE  /\ Told(k) \in Effects /\ Len(Told(k)) = Len(made) /\ Opened(k) \in Int
           /\ Len(made) \in Nat
           /\ \A i \in 1..Len(made) :
                 /\ made[i] \in Procs
                 /\ Told(k)[i] = IF pc[made[i]] = "committed" THEN posted[made[i]][k] ELSE NoEffect
<1>1. Len(made) \in Nat /\ \A i \in 1..Len(made) : made[i] \in Procs
  BY DEF TypeOK
<1>2. ASSUME NEW i \in 1..Len(made)
      PROVE  (IF pc[made[i]] = "committed" THEN posted[made[i]][k] ELSE NoEffect) \in Effect
  BY <1>1 DEF TypeOK, Effect, NoEffect
<1>3. Opened(k) \in Int
  BY InventoryAssumption DEF Opened
<1>4. Told(k) \in Effects /\ Len(Told(k)) = Len(made)
  BY <1>1, <1>2 DEF Told, Effects
<1>. QED  BY <1>1, <1>3, <1>4 DEF Told

\* The Kardex ends at the running balance of those effects.
LEMMA KardexRuns ==
    ASSUME TypeOK, NEW k \in Keys
    PROVE  Kardex(k) = Running(Told(k), Opened(k))[Len(made)]
<1>. DEFINE Bal(f) == f = [i \in 0..Len(made) |->
                IF i = 0 THEN OpeningStock[k].qty
                ELSE IF pc[made[i]] = "committed"
                     THEN Apply(posted[made[i]][k], f[i - 1])
                     ELSE f[i - 1]]
            balance == CHOOSE f : Bal(f)
            x == Running(Told(k), Opened(k))
            y == [i \in 0..Len(made) |-> x[i]]
            S == {n \in Nat : n <= Len(made) => balance[n] = x[n]}
<1>1. Kardex(k) = balance[Len(made)]
  BY DEF Kardex
<1>2. /\ Len(made) \in Nat /\ x[0] = Opened(k)
      /\ \A i \in 1..Len(made) : x[i] = Apply(Told(k)[i], x[i - 1])
      /\ \A i \in 0..Len(made) : x[i] \in Int
  BY ToldType, RunningDef
<1>. HIDE DEF x
<1>3. ASSUME NEW i \in 1..Len(made)
      PROVE  x[i] = IF pc[made[i]] = "committed" THEN Apply(posted[made[i]][k], x[i - 1])
                    ELSE x[i - 1]
  <2>1. x[i] = Apply(Told(k)[i], x[i - 1]) /\ x[i - 1] \in Int
    BY <1>2
  <2>2. Told(k)[i] = IF pc[made[i]] = "committed" THEN posted[made[i]][k] ELSE NoEffect
    BY ToldType
  <2>. QED  BY <2>1, <2>2, NoEffectApplies
<1>4. Bal(y)
  <2>1. \A i \in 0..Len(made) :
           y[i] = IF i = 0 THEN OpeningStock[k].qty
                  ELSE IF pc[made[i]] = "committed"
                       THEN Apply(posted[made[i]][k], y[i - 1])
                       ELSE y[i - 1]
    <3>. SUFFICES ASSUME NEW i \in 0..Len(made)
                  PROVE  y[i] = IF i = 0 THEN OpeningStock[k].qty
                                ELSE IF pc[made[i]] = "committed"
                                     THEN Apply(posted[made[i]][k], y[i - 1])
                                     ELSE y[i - 1]
      OBVIOUS
    <3>1. CASE i = 0
      BY <1>2, <3>1 DEF Opened
    <3>2. CASE i # 0
      <4>1. i \in 1..Len(made) /\ i - 1 \in 0..Len(made)
        BY <1>2, <3>2
      <4>. QED  BY <1>3, <3>2, <4>1
    <3>. QED  BY <3>1, <3>2
  <2>. QED  BY <2>1
<1>5. Bal(balance)
  <2>. HIDE DEF Bal
  <2>. QED  BY <1>4
<1>. HIDE DEF balance
<1>6. /\ balance[0] = Opened(k)
      /\ \A i \in 1..Len(made) :
            balance[i] = IF pc[made[i]] = "committed"
                         THEN Apply(posted[made[i]][k], balance[i - 1])
                         ELSE balance[i - 1]
  BY <1>2, <1>5 DEF Opened
<1>7. 0 \in S
  BY <1>2, <1>6
<1>8. ASSUME NEW n \in Nat, n \in S PROVE n + 1 \in S
  <2>. SUFFICES ASSUME n + 1 <= Len(made) PROVE balance[n + 1] = x[n + 1]
    OBVIOUS
  <2>1. n + 1 \in 1..Len(made) /\ (n + 1) - 1 = n /\ balance[n] = x[n]
    BY <1>2, <1>8
  <2>2. balance[n + 1] = IF pc[made[n + 1]] = "committed"
                         THEN Apply(posted[made[n + 1]][k], balance[(n + 1) - 1])
                         ELSE balance[(n + 1) - 1]
    BY <1>6, <2>1
  <2>3. x[n + 1] = IF pc[made[n + 1]] = "committed"
                   THEN Apply(posted[made[n + 1]][k], x[(n + 1) - 1])
                   ELSE x[(n + 1) - 1]
    BY <1>3, <2>1
  <2>. QED  BY <2>1, <2>2, <2>3
<1>9. \A n \in Nat : n \in S
  <2>. HIDE DEF S
  <2>. QED  BY <1>7, <1>8, NatSet
<1>. QED  BY <1>1, <1>2, <1>9 DEF x

LEMMA KardexRunsNext ==
    (TypeOK => \A k \in Keys : Kardex(k) = Running(Told(k), Opened(k))[Len(made)])'
<1>1. TypeOK => \A k \in Keys : Kardex(k) = Running(Told(k), Opened(k))[Len(made)]
  BY KardexRuns
<1>. QED  BY <1>1, PTL

LEMMA ToldTypeNext ==
    (TypeOK => \A k \in Keys :
        /\ Told(k) \in Effects /\ Len(Told(k)) = Len(made) /\ Opened(k) \in Int
        /\ Len(made) \in Nat
        /\ \A i \in 1..Len(made) :
              /\ made[i] \in Procs
              /\ Told(k)[i] = IF pc[made[i]] = "committed" THEN posted[made[i]][k] ELSE NoEffect)'
<1>1. TypeOK => \A k \in Keys :
        /\ Told(k) \in Effects /\ Len(Told(k)) = Len(made) /\ Opened(k) \in Int
        /\ Len(made) \in Nat
        /\ \A i \in 1..Len(made) :
              /\ made[i] \in Procs
              /\ Told(k)[i] = IF pc[made[i]] = "committed" THEN posted[made[i]][k] ELSE NoEffect
  BY ToldType
<1>. QED  BY <1>1, PTL

LEMMA InitKardexInv == Init => KardexInv
<1>. SUFFICES ASSUME Init PROVE KardexInv
  OBVIOUS
<1>1. TypeOK /\ made = << >> /\ Len(made) = 0
  BY InitIInv DEF IInv, Init
<1>2. RecordedOnce /\ \A p \in Procs : Recorded(p)
  BY <1>1 DEF Init, RecordedOnce, Recorded, InTx, Steps
<1>3. ASSUME NEW k \in Keys PROVE Kardex(k) = ledger[k]
  <2>1. /\ Kardex(k) = Running(Told(k), Opened(k))[0]
        /\ Running(Told(k), Opened(k))[0] = Opened(k)
    BY <1>1, KardexRuns, ToldType, RunningDef
  <2>. QED  BY <2>1 DEF Init, Opened
<1>. QED  BY <1>2, <1>3 DEF KardexInv

\* A step that neither commits nor stamps a movement leaves every Kardex alone.
LEMMA KardexKept ==
    ASSUME TypeOK, TypeOK', NEW k \in Keys, made' = made,
           \A q \in Procs : /\ pc'[q] = "committed" <=> pc[q] = "committed"
                            /\ pc[q] = "committed" => posted'[q] = posted[q]
    PROVE  Kardex(k)' = Kardex(k)
<1>1. Told(k)' = Told(k)
  BY ToldType DEF Told
<1>2. Kardex(k) = Running(Told(k), Opened(k))[Len(made)]
  BY KardexRuns
<1>3. Kardex(k)' = Running(Told(k)', Opened(k))[Len(made')]
  BY KardexRunsNext
<1>. QED  BY <1>1, <1>2, <1>3

\* Any statement of p but the first, the stamp of its movement and the commit.
LEMMA QuietStep ==
    ASSUME TypeOK, TypeOK', KardexInv, NEW p \in Procs, InTx(p), UNCHANGED <<made, ledger>>,
           \A q \in Procs \ {p} : pc'[q] = pc[q] /\ req'[q] = req[q] /\ posted'[q] = posted[q],
           \/ /\ InTx(p)' /\ req'[p] = req[p]
              /\ req[p].kind = "BODEGA" =>
                    (pc'[p] \in {"folio", "create"} <=> pc[p] \in {"folio", "create"})
              /\ req[p].kind # "AJUSTE" => \A k \in Keys : ~posted'[p][k].set
           \/ pc'[p] = "rejected" /\ \A k \in Keys : posted'[p][k] = NoEffect
    PROVE  KardexInv'
<1>0. pc[p] # "committed" /\ pc[p] # "idle" /\ pc'[p] # "committed" /\ pc'[p] # "idle"
  BY DEF InTx, Steps
<1>1. ASSUME NEW k \in Keys PROVE Kardex(k)' = ledger'[k]
  BY <1>0, KardexKept DEF KardexInv
<1>2. RecordedOnce'
  BY DEF KardexInv, RecordedOnce
<1>3. \A i \in 1..Len(made) : made[i] \in Procs
  BY DEF TypeOK
<1>4. ASSUME NEW i \in 1..Len(made), NEW k \in Keys, ~posted[made[i]][k].set
      PROVE  ~posted'[made[i]][k].set
  <2>1. CASE made[i] # p
    BY <1>3, <1>4, <2>1
  <2>2. CASE made[i] = p
    <3>1. req[p].kind = "BODEGA"
      BY <2>2 DEF KardexInv, Recorded
    <3>. QED  BY <2>2, <3>1 DEF NoEffect
  <2>. QED  BY <2>1, <2>2
<1>5. ASSUME NEW q \in Procs, q # p PROVE Recorded(q)'
  <2>1. pc'[q] = pc[q] /\ req'[q] = req[q] /\ posted'[q] = posted[q] /\ InTx(q)' = InTx(q)
    BY <1>5 DEF InTx
  <2>2. Recorded(q)
    BY DEF KardexInv
  <2>3. ASSUME NEW i \in 1..Len(made), made[i] = q, InTx(q), NEW j \in i + 1..Len(made), NEW k \in Keys
        PROVE  ~posted'[made[j]][k].set
    <3>1. j \in 1..Len(made)
      BY <2>3 DEF TypeOK
    <3>2. ~posted[made[j]][k].set
      BY <2>2, <2>3 DEF Recorded
    <3>. QED  BY <1>4, <3>1, <3>2
  <2>. QED  BY <2>1, <2>2, <2>3 DEF Recorded
<1>6. Recorded(p)'
  <2>1. Recorded(p)
    BY DEF KardexInv
  <2>2. CASE /\ InTx(p)' /\ req'[p] = req[p]
             /\ req[p].kind = "BODEGA" =>
                   (pc'[p] \in {"folio", "create"} <=> pc[p] \in {"folio", "create"})
             /\ req[p].kind # "AJUSTE" => \A k \in Keys : ~posted'[p][k].set
    <3>1. ASSUME NEW i \in 1..Len(made), made[i] = p, NEW j \in i + 1..Len(made), NEW k \in Keys
          PROVE  ~posted'[made[j]][k].set
      <4>1. j \in 1..Len(made)
        BY <3>1 DEF TypeOK
      <4>2. ~posted[made[j]][k].set
        BY <2>1, <3>1 DEF Recorded
      <4>. QED  BY <1>4, <4>1, <4>2
    <3>2. ASSUME NEW i \in 1..Len(made), made[i] = p
          PROVE  req[p].kind = "BODEGA" /\ pc'[p] \notin {"folio", "create"}
      BY <2>1, <2>2, <3>2 DEF Recorded
    <3>3. req[p].kind = "BODEGA" /\ pc'[p] \notin {"folio", "create"} =>
             \E i \in 1..Len(made) : made[i] = p
      BY <2>1, <2>2 DEF Recorded
    <3>. QED  BY <1>0, <2>2, <3>1, <3>2, <3>3 DEF Recorded
  <2>3. CASE pc'[p] = "rejected" /\ \A k \in Keys : posted'[p][k] = NoEffect
    <3>1. ~InTx(p)'
      BY <2>3 DEF InTx, Steps
    <3>. QED  BY <1>0, <3>1 DEF Recorded
  <2>. QED  BY <2>2, <2>3
<1>. QED  BY <1>1, <1>2, <1>5, <1>6 DEF KardexInv

\* What p posts when it adds to one key.
LEMMA AddedIsRelative ==
    ASSUME TypeOK, NEW p \in Procs, NEW k0 \in Keys, NEW n \in Int,
           posted' = [posted EXCEPT ![p][k0] = [posted[p][k0] EXCEPT !.n = @ + n]],
           \A k \in Keys : ~posted[p][k].set
    PROVE  \A k \in Keys : ~posted'[p][k].set
BY DEF TypeOK, Effect

LEMMA WriteKardex ==
    ASSUME IInv, IInv', KardexInv, NEW p \in Procs,
           \/ WriteIngreso(p) \/ WriteSalida(p) \/ WriteAjuste(p)
           \/ WriteTransferOut(p) \/ WriteTransferIn(p) \/ WriteReception(p)
    PROVE  KardexInv'
<1>1. /\ pc[p] = "write" /\ InTx(p) /\ pc[p] # "commit" /\ UNCHANGED <<made, ledger, req>>
      /\ \/ NextLine(p)
         \/ pc' = [pc EXCEPT ![p] = "lock"]
  BY DEF WriteIngreso, WriteSalida, WriteAjuste, WriteTransferOut, WriteTransferIn,
         WriteReception, Writing, tables, InTx, Steps
<1>2. /\ Key(p) \in Keys /\ Cur(p).qty \in Nat /\ Cur(p).qty \in Int /\ -Cur(p).qty \in Int
      /\ AtLine(p) /\ TypeOK /\ TypeOK'
  BY <1>1, CurrentLine DEF IInv
<1>3. pc'[p] \in {"lock", "post", "check", "commit"} /\ \A q \in Procs \ {p} : pc'[q] = pc[q]
  <2>1. CASE NextLine(p)
    BY <1>1, <1>2, <2>1, NextLineStep
  <2>2. CASE pc' = [pc EXCEPT ![p] = "lock"]
    BY <1>2, <2>2 DEF TypeOK
  <2>. QED  BY <1>1, <2>1, <2>2
<1>4. InTx(p)' /\ pc'[p] \notin {"folio", "create"}
  BY <1>3 DEF InTx, Steps
<1>5. \E e : posted' = [posted EXCEPT ![p][Key(p)] = e]
  BY DEF WriteIngreso, WriteSalida, WriteAjuste, WriteTransferOut, WriteTransferIn,
         WriteReception, Put
<1>6. \A q \in Procs \ {p} : posted'[q] = posted[q]
  BY <1>2, <1>5 DEF TypeOK
<1>7. ASSUME req[p].kind # "AJUSTE" PROVE \A k \in Keys : ~posted'[p][k].set
  <2>1. \A k \in Keys : ~posted[p][k].set
    BY <1>1, <1>7 DEF KardexInv, Recorded
  <2>2. \/ posted' = [posted EXCEPT ![p][Key(p)] = [posted[p][Key(p)] EXCEPT !.n = @ + Cur(p).qty]]
        \/ posted' = [posted EXCEPT ![p][Key(p)] = [posted[p][Key(p)] EXCEPT !.n = @ + -Cur(p).qty]]
    BY <1>7 DEF WriteIngreso, WriteSalida, WriteAjuste, WriteTransferOut, WriteTransferIn,
                WriteReception, Put, Added, Writing
  <2>3. CASE posted' = [posted EXCEPT ![p][Key(p)] = [posted[p][Key(p)] EXCEPT !.n = @ + Cur(p).qty]]
    BY <1>2, <2>1, <2>3, AddedIsRelative
  <2>4. CASE posted' = [posted EXCEPT ![p][Key(p)] = [posted[p][Key(p)] EXCEPT !.n = @ + -Cur(p).qty]]
    BY <1>2, <2>1, <2>4, AddedIsRelative
  <2>. QED  BY <2>2, <2>3, <2>4
<1>. QED  BY <1>1, <1>2, <1>3, <1>4, <1>6, <1>7, QuietStep

LEMMA DeductKardex ==
    ASSUME IInv, IInv', KardexInv, NEW p \in Procs, Deduct(p)
    PROVE  KardexInv'
<1>1. /\ pc[p] = "deduct" /\ InTx(p) /\ pc[p] # "commit" /\ UNCHANGED <<made, ledger, req>>
      /\ pc' = [pc EXCEPT ![p] = "commit"]
      /\ posted' = [posted EXCEPT ![p][Key(p)] = [posted[p][Key(p)] EXCEPT !.n = @ + -Cur(p).qty]]
  BY DEF Deduct, Put, Added, tables, InTx, Steps
<1>2. /\ Key(p) \in Keys /\ Cur(p).qty \in Nat /\ -Cur(p).qty \in Int /\ TypeOK /\ TypeOK'
      /\ req[p].kind \in UnlockedKinds
  BY <1>1, CurrentLine DEF IInv, AtLine
<1>3. /\ pc'[p] = "commit" /\ InTx(p)'
      /\ \A q \in Procs \ {p} : pc'[q] = pc[q] /\ posted'[q] = posted[q]
  BY <1>1, <1>2 DEF TypeOK, InTx, Steps
<1>4. req[p].kind # "BODEGA" /\ req[p].kind # "AJUSTE"
  BY <1>2 DEF UnlockedKinds
<1>5. \A k \in Keys : ~posted[p][k].set
  BY <1>1, <1>4 DEF KardexInv, Recorded
<1>6. \A k \in Keys : ~posted'[p][k].set
  BY <1>1, <1>2, <1>5, AddedIsRelative
<1>. QED  BY <1>1, <1>2, <1>3, <1>4, <1>6, QuietStep

\* Locks and checks.
LEMMA LockKardex ==
    ASSUME IInv, IInv', KardexInv, NEW p \in Procs,
           LockFolio(p) \/ LockRow(p) \/ UpsertRow(p) \/ CheckStock(p)
    PROVE  KardexInv'
<1>1. /\ pc[p] \in {"folio", "lock", "upsert", "check"} /\ InTx(p) /\ pc[p] # "commit"
      /\ UNCHANGED <<made, ledger, req, posted>>
      /\ \E s \in {"create", "deduct", "write", "upsert", FirstStep(req[p].kind)} :
            pc' = [pc EXCEPT ![p] = s]
  BY DEF LockFolio, LockRow, UpsertRow, CheckStock, tables, InTx, Steps
<1>2. TypeOK /\ TypeOK' /\ AtLine(p) /\ req[p].kind \in Kinds
  BY <1>1, CurrentLine DEF IInv, Request
<1>3. /\ \A q \in Procs \ {p} : pc'[q] = pc[q]
      /\ pc'[p] \in {"create", "deduct", "write", "upsert", "lock", "post", "check"} /\ InTx(p)'
  BY <1>1, <1>2 DEF TypeOK, FirstStep, InTx, Steps
<1>4. ASSUME req[p].kind = "BODEGA"
      PROVE  pc'[p] \in {"folio", "create"} <=> pc[p] \in {"folio", "create"}
  <2>1. pc[p] # "check"
    BY <1>2, <1>4 DEF AtLine, UnlockedKinds
  <2>2. CASE LockFolio(p)
    BY <1>2, <1>4, <2>2 DEF LockFolio, TypeOK, EarlyKinds
  <2>3. CASE LockRow(p) \/ UpsertRow(p)
    <3>1. pc' = [pc EXCEPT ![p] = "write"] \/ pc' = [pc EXCEPT ![p] = "upsert"]
      BY <2>3 DEF LockRow, UpsertRow
    <3>2. pc[p] \in {"lock", "upsert"}
      BY <2>3 DEF LockRow, UpsertRow
    <3>. QED  BY <1>2, <3>1, <3>2 DEF TypeOK
  <2>4. CASE CheckStock(p)
    BY <2>1, <2>4 DEF CheckStock
  <2>. QED  BY <2>2, <2>3, <2>4
<1>5. req[p].kind # "AJUSTE" => \A k \in Keys : ~posted'[p][k].set
  BY <1>1 DEF KardexInv, Recorded
<1>. QED  BY <1>1, <1>2, <1>3, <1>4, <1>5, QuietStep

LEMMA AbortKardex ==
    ASSUME IInv, IInv', KardexInv, NEW p \in Procs, InTx(p), End(p, "rejected"), UNCHANGED tables
    PROVE  KardexInv'
<1>1. TypeOK /\ TypeOK' /\ UNCHANGED <<made, ledger>>
  BY DEF IInv, tables
<1>2. pc'[p] = "rejected" /\ \A k \in Keys : posted'[p][k] = NoEffect
  BY <1>1 DEF TypeOK, End
<1>3. \A q \in Procs \ {p} : pc'[q] = pc[q] /\ req'[q] = req[q] /\ posted'[q] = posted[q]
  BY <1>1 DEF TypeOK, End
<1>. QED  BY <1>1, <1>2, <1>3, QuietStep

LEMMA BeginKardex ==
    ASSUME IInv, IInv', KardexInv, NEW p \in Procs, NEW r \in Requests, Begin(p, r)
    PROVE  KardexInv'
<1>1. /\ pc[p] = "idle" /\ ~InTx(p) /\ TypeOK /\ TypeOK' /\ AtLine(p) /\ Holding(p) /\ OwnView(p)
      /\ made' = made /\ ledger' = ledger /\ posted' = posted
  BY DEF Begin, IInv, InTx, Steps, tables
<1>2. /\ pc'[p] \in {"check", "folio", "rejected"}
      /\ \A q \in Procs \ {p} : pc'[q] = pc[q] /\ req'[q] = req[q]
      /\ pc'[p] = "check" => req'[p].kind \in UnlockedKinds
  BY <1>1 DEF Begin, TypeOK
<1>3. \A k \in Keys : posted[p][k] = NoEffect
  <2>1. req[p].kind = "INGRESO" /\ \A k \in Keys : rowLock[k] # p
    BY <1>1 DEF AtLine, Holding, NoRequest
  <2>. QED  BY <1>1, <2>1 DEF OwnView, TransitKinds
<1>4. ASSUME NEW k \in Keys PROVE Kardex(k)' = ledger'[k]
  <2>1. \A q \in Procs : /\ pc'[q] = "committed" <=> pc[q] = "committed"
                          /\ pc[q] = "committed" => posted'[q] = posted[q]
    BY <1>1, <1>2
  <2>3. TypeOK /\ TypeOK' /\ made' = made
    BY <1>1
  <2>2. Kardex(k)' = Kardex(k)
    BY <1>1, <1>2, KardexKept
  <2>. QED  BY <1>1, <2>2 DEF KardexInv
<1>5. RecordedOnce'
  BY <1>1 DEF KardexInv, RecordedOnce
<1>6. ASSUME NEW q \in Procs, q # p PROVE Recorded(q)'
  <2>1. Recorded(q) /\ pc'[q] = pc[q] /\ req'[q] = req[q] /\ InTx(q)' = InTx(q)
    BY <1>2, <1>6 DEF KardexInv, InTx
  <2>2. made' = made /\ posted' = posted
    BY <1>1
  <2>. QED  BY <2>1, <2>2 DEF Recorded
<1>7. Recorded(p)'
  <2>1. \A i \in 1..Len(made) : made[i] # p
    BY <1>1 DEF KardexInv, Recorded
  <2>2. \A k \in Keys : ~posted'[p][k].set
    BY <1>1, <1>3 DEF NoEffect
  <2>3. pc'[p] = "check" => req'[p].kind # "BODEGA"
    BY <1>2 DEF UnlockedKinds
  <2>4. InTx(p)' /\ req'[p].kind = "BODEGA" => pc'[p] = "folio"
    BY <1>2, <2>3 DEF InTx, Steps
  <2>. QED  BY <1>1, <2>1, <2>2, <2>4 DEF Recorded
<1>. QED  BY <1>4, <1>5, <1>6, <1>7 DEF KardexInv

\* Of two transactions of one month, both past their folio lock and neither fuel, one
\* would have waited for the other.
LEMMA OneAtATimeInMonth ==
    ASSUME IInv, FolioInv, \A r1, r2 \in Requests : r1.month = r2.month,
           NEW p \in Procs, NEW q \in Procs, InTx(p), InTx(q),
           pc[p] # "folio", pc[q] # "folio",
           req[p].kind \notin UnlockedKinds, req[q].kind \notin UnlockedKinds
    PROVE  p = q
<1>1. /\ req[p] \in Requests /\ req[q] \in Requests
      /\ req[p].month \in Months /\ req[q].month = req[p].month
  BY InventoryAssumption DEF IInv, AtLine, Request
<1>2. folioLock[req[p].month] = p /\ folioLock[req[p].month] = q
  BY <1>1 DEF FolioInv, FolioOwner
<1>. QED  BY <1>2

LEMMA SameEffects ==
    ASSUME NEW s \in Effects, NEW t \in Effects, Len(s) = Len(t),
           \A i \in 1..Len(s) : s[i] = t[i]
    PROVE  s = t
BY DEF Effects

\* A movement stamped now is the last that the Kardex of a row reads.
LEMMA KardexAppend ==
    ASSUME TypeOK, TypeOK', NEW p \in Procs, NEW k \in Keys, NEW e \in Effect,
           made' = Append(made, p), \A i \in 1..Len(made) : made[i] # p,
           \A q \in Procs \ {p} : pc'[q] = pc[q], \A q \in Procs \ {p} : posted'[q] = posted[q],
           (IF pc'[p] = "committed" THEN posted'[p][k] ELSE NoEffect) = e
    PROVE  Kardex(k)' = Apply(e, Kardex(k))
<1>1. /\ Len(made) \in Nat /\ Len(made') = Len(made) + 1 /\ made'[Len(made) + 1] = p
      /\ \A i \in 1..Len(made) : made'[i] = made[i] /\ made[i] \in Procs
  BY DEF TypeOK
<1>2. Told(k)' = Append(Told(k), e)
  <2>1. /\ Told(k)' \in Effects /\ Len(Told(k)') = Len(made')
        /\ \A i \in 1..Len(made') :
              Told(k)'[i] = IF pc'[made'[i]] = "committed" THEN posted'[made'[i]][k]
                            ELSE NoEffect
    BY ToldTypeNext
  <2>2. \A i \in 1..Len(made) :
           (IF pc'[made'[i]] = "committed" THEN posted'[made'[i]][k] ELSE NoEffect) = Told(k)[i]
    BY <1>1, ToldType
  <2>3. (IF pc'[made'[Len(made) + 1]] = "committed" THEN posted'[made'[Len(made) + 1]][k]
         ELSE NoEffect) = e
    BY <1>1
  <2>. DEFINE f == Append(Told(k), e)
  <2>4. Told(k) \in Effects /\ Len(Told(k)) = Len(made)
    BY ToldType
  <2>5. /\ f \in Effects /\ Len(f) = Len(made) + 1 /\ f[Len(made) + 1] = e
        /\ \A i \in 1..Len(made) : f[i] = Told(k)[i]
    BY <1>1, <2>4 DEF Effects
  <2>. HIDE DEF f
  <2>6. \A i \in 1..Len(made) + 1 : Told(k)'[i] = f[i]
    <3>1. \A i \in 1..Len(made) + 1 : i \in 1..Len(made) \/ i = Len(made) + 1
      BY <1>1
    <3>2. \A i \in 1..Len(made) : i \in 1..Len(made')
      BY <1>1
    <3>3. Len(made) + 1 \in 1..Len(made')
      BY <1>1
    <3>. QED  BY <2>1, <2>2, <2>3, <2>5, <3>1, <3>2, <3>3
  <2>7. Told(k)' = f
    BY <1>1, <2>1, <2>5, <2>6, SameEffects
  <2>. QED  BY <2>7 DEF f
<1>3. Kardex(k)' = Running(Told(k)', Opened(k))[Len(made')]
  BY KardexRunsNext
<1>4. /\ Told(k) \in Effects /\ Len(Told(k)) = Len(made) /\ Opened(k) \in Int
      /\ Kardex(k) = Running(Told(k), Opened(k))[Len(made)]
  BY ToldType, KardexRuns
<1>5. Running(Append(Told(k), e), Opened(k))[Len(made) + 1] =
         Apply(e, Running(Told(k), Opened(k))[Len(made)])
  BY <1>4, RunningAppend
<1>. QED  BY <1>1, <1>2, <1>3, <1>4, <1>5

\* A movement stamped while p runs is the last one so far.
LEMMA CreateKardex ==
    ASSUME IInv, IInv', FolioInv, KardexInv, NEW p \in Procs, CreateMovement(p),
           \A r1, r2 \in Requests : r1.month = r2.month,
           \A r \in Requests : r.kind \notin TransitKinds \cup {"CONSUME"}
    PROVE  KardexInv'
<1>1. /\ pc[p] = "create" /\ InTx(p) /\ pc[p] # "commit" /\ TypeOK /\ TypeOK' /\ AtLine(p)
      /\ made' = Append(made, p) /\ ledger' = ledger /\ req' = req /\ posted' = posted
      /\ pc' = [pc EXCEPT ![p] = IF req[p].kind \in UnlockedKinds THEN "deduct"
                                 ELSE FirstStep(req[p].kind)]
  BY DEF CreateMovement, InTx, Steps, IInv
<1>2. req[p].kind = "BODEGA"
  BY <1>1 DEF AtLine, EarlyKinds
<1>3. pc'[p] = "lock" /\ InTx(p)' /\ \A q \in Procs \ {p} : pc'[q] = pc[q] /\ InTx(q)' = InTx(q)
  <2>1. (IF req[p].kind \in UnlockedKinds THEN "deduct" ELSE FirstStep(req[p].kind)) = "lock"
    BY <1>2 DEF FirstStep, LedgerKinds, TransitKinds, UnlockedKinds
  <2>2. pc' = [pc EXCEPT ![p] = IF req[p].kind \in UnlockedKinds THEN "deduct"
                                ELSE FirstStep(req[p].kind)]
    BY <1>1
  <2>3. pc'[p] = "lock" /\ \A q \in Procs \ {p} : pc'[q] = pc[q]
    BY <1>1, <2>1, <2>2 DEF TypeOK
  <2>. QED  BY <2>3 DEF InTx, Steps
<1>4. \A i \in 1..Len(made) : made[i] # p
  <2>1. Recorded(p)
    BY DEF KardexInv
  <2>. QED  BY <1>1, <2>1 DEF Recorded
<1>5. /\ Len(made) \in Nat /\ Len(made') = Len(made) + 1 /\ made'[Len(made) + 1] = p
      /\ \A i \in 1..Len(made) : made'[i] = made[i] /\ made[i] \in Procs
  BY <1>1 DEF TypeOK
<1>6. RecordedOnce'
  BY <1>4, <1>5 DEF KardexInv, RecordedOnce
<1>7. ASSUME NEW k \in Keys PROVE Kardex(k)' = ledger'[k]
  <2>1. Kardex(k)' = Apply(NoEffect, Kardex(k))
    <3>1. /\ NoEffect \in Effect
          /\ (IF pc'[p] = "committed" THEN posted'[p][k] ELSE NoEffect) = NoEffect
      BY <1>3 DEF NoEffect, Effect
    <3>. QED  BY <1>1, <1>3, <1>4, <3>1, KardexAppend
  <2>2. Kardex(k) = ledger[k] /\ ledger[k] \in Int
    BY <1>1 DEF KardexInv, TypeOK
  <2>. QED  BY <1>1, <2>1, <2>2, NoEffectApplies
<1>8. Recorded(p)'
  <2>1. \A i \in 1..Len(made') : made'[i] = p => i = Len(made')
    BY <1>4, <1>5
  <2>2. Recorded(p)
    BY DEF KardexInv
  <2>. QED  BY <1>1, <1>2, <1>3, <1>5, <2>1, <2>2 DEF Recorded
<1>9. ASSUME NEW q \in Procs, q # p PROVE Recorded(q)'
  <2>1. Recorded(q) /\ pc'[q] = pc[q] /\ InTx(q)' = InTx(q) /\ req'[q] = req[q]
    BY <1>1, <1>3, <1>9 DEF KardexInv
  <2>2. \A i \in 1..Len(made') : made'[i] = q => i \in 1..Len(made) /\ made[i] = q
    BY <1>5, <1>9
  <2>3. \A i \in 1..Len(made') : made'[i] = q => ~InTx(q)
    <3>. SUFFICES ASSUME NEW i \in 1..Len(made), made[i] = q, InTx(q) PROVE FALSE
      BY <2>2
    <3>1. req[q].kind = "BODEGA" /\ pc[q] # "folio"
      BY <2>1 DEF Recorded
    <3>. QED  BY <1>1, <1>2, <1>9, <3>1, OneAtATimeInMonth DEF UnlockedKinds
  <2>4. \A i \in 1..Len(made) : i \in 1..Len(made') /\ made'[i] = made[i]
    BY <1>5
  <2>. QED  BY <1>1, <2>1, <2>2, <2>3, <2>4 DEF Recorded
<1>. QED  BY <1>6, <1>7, <1>8, <1>9 DEF KardexInv

\* A commit: the effect of a movement stamped early is put where its movement stands,
\* the effect of the others at the end.
LEMMA CommitKardex ==
    ASSUME IInv, IInv', FolioInv, KardexInv, NEW p \in Procs, Commit(p),
           \A r1, r2 \in Requests : r1.month = r2.month,
           \A r \in Requests : r.kind \notin TransitKinds \cup {"CONSUME"}
    PROVE  KardexInv'
<1>1. /\ pc[p] = "commit" /\ InTx(p) /\ TypeOK /\ TypeOK' /\ req[p] \in Requests
      /\ req[p].kind \notin TransitKinds \cup {"CONSUME"} /\ Recorded(p) /\ RecordedOnce
  BY DEF Commit, InTx, Steps, IInv, AtLine, KardexInv
<1>2. /\ made' = IF req[p].kind = "BODEGA" THEN made ELSE Append(made, p)
      /\ ledger' = [k \in Keys |-> Apply(posted[p][k], ledger[k])]
      /\ posted' = posted /\ pc' = [pc EXCEPT ![p] = "committed"]
      /\ req' = [req EXCEPT ![p] = NoRequest]
  BY <1>1 DEF Commit, End, EarlyKinds, TransitKinds
<1>3. /\ pc'[p] = "committed" /\ ~InTx(p)'
      /\ \A q \in Procs \ {p} : pc'[q] = pc[q] /\ req'[q] = req[q] /\ InTx(q)' = InTx(q)
  BY <1>1, <1>2 DEF TypeOK, InTx, Steps
<1>4. Len(made) \in Nat /\ \A i \in 1..Len(made) : made[i] \in Procs
  BY <1>1 DEF TypeOK
<1>5. Recorded(p)'
  BY <1>3 DEF Recorded
<1>6. \A k \in Keys : /\ Kardex(k) = ledger[k] /\ posted[p][k] \in Effect
                      /\ ledger'[k] = Apply(posted[p][k], Kardex(k))
  BY <1>1, <1>2 DEF KardexInv, TypeOK
<1>7. CASE req[p].kind = "BODEGA"
  <2>1. /\ made' = made /\ RecordedOnce'
    BY <1>1, <1>2, <1>7 DEF RecordedOnce
  <2>2. ASSUME NEW q \in Procs, q # p PROVE Recorded(q)'
    <3>1. Recorded(q) /\ pc'[q] = pc[q] /\ req'[q] = req[q] /\ InTx(q)' = InTx(q)
      BY <1>3, <2>2 DEF KardexInv
    <3>. QED  BY <1>2, <2>1, <3>1 DEF Recorded
  <2>3. PICK i \in 1..Len(made) : made[i] = p
    BY <1>1, <1>7 DEF Recorded
  <2>4. \A j \in 1..Len(made) : j # i => made[j] # p
    BY <1>1, <2>3 DEF RecordedOnce
  <2>5. ASSUME NEW k \in Keys PROVE Kardex(k)' = ledger'[k]
    <3>1. ~posted[p][k].set
      BY <1>1, <1>7 DEF Recorded
    <3>2. \A j \in i + 1..Len(made) : ~posted[made[j]][k].set
      BY <1>1, <2>3 DEF Recorded
    <3>3. /\ Told(k) \in Effects /\ Len(Told(k)) = Len(made) /\ Opened(k) \in Int
          /\ \A j \in 1..Len(made) :
                Told(k)[j] = IF pc[made[j]] = "committed" THEN posted[made[j]][k] ELSE NoEffect
      BY <1>1, ToldType
    <3>4. /\ Told(k)' \in Effects /\ Len(Told(k)') = Len(made)
          /\ \A j \in 1..Len(made) :
                Told(k)'[j] = IF pc'[made[j]] = "committed" THEN posted[made[j]][k] ELSE NoEffect
      BY <1>1, <1>2, <2>1, ToldTypeNext
    <3>5. Told(k)[i] = NoEffect /\ Told(k)'[i] = posted[p][k]
      BY <1>1, <1>3, <2>3, <3>3, <3>4
    <3>6. \A j \in 1..Len(made) : j # i => Told(k)[j] = Told(k)'[j]
      BY <1>3, <1>4, <2>4, <3>3, <3>4
    <3>7. \A j \in i + 1..Len(made) : ~Told(k)[j].set
      <4>1. \A j \in i + 1..Len(made) : j \in 1..Len(made)
        BY <1>4
      <4>. QED  BY <3>2, <3>3, <4>1 DEF NoEffect
    <3>8. /\ Kardex(k) = Running(Told(k), Opened(k))[Len(made)]
          /\ Kardex(k)' = Running(Told(k)', Opened(k))[Len(made)]
      BY <1>1, <2>1, KardexRuns, KardexRunsNext
    <3>. DEFINE s == Told(k)
                t == Told(k)'
                b == Opened(k)
    <3>9. /\ s \in Effects /\ t \in Effects /\ b \in Int /\ Len(s) = Len(t) /\ i \in 1..Len(s)
          /\ s[i] = NoEffect /\ ~t[i].set /\ t[i] = posted[p][k] /\ Len(s) = Len(made)
          /\ \A j \in 1..Len(s) : j # i => s[j] = t[j]
          /\ \A j \in i + 1..Len(s) : ~s[j].set
      BY <3>1, <3>3, <3>4, <3>5, <3>6, <3>7
    <3>10. Kardex(k) = Running(s, b)[Len(s)] /\ Kardex(k)' = Running(t, b)[Len(t)]
      BY <3>8, <3>9
    <3>. HIDE DEF s, t, b
    <3>11. Running(t, b)[Len(t)] = Apply(t[i], Running(s, b)[Len(s)])
      BY <3>9, RunningLate
    <3>. QED  BY <1>6, <3>9, <3>10, <3>11
  <2>. QED  BY <1>5, <2>1, <2>2, <2>5 DEF KardexInv
<1>8. CASE req[p].kind # "BODEGA"
  <2>1. \A i \in 1..Len(made) : made[i] # p
    BY <1>1, <1>8 DEF Recorded
  <2>2. /\ made' = Append(made, p)
        /\ Len(made') = Len(made) + 1 /\ made'[Len(made) + 1] = p
        /\ \A i \in 1..Len(made) : made'[i] = made[i]
    BY <1>1, <1>2, <1>8 DEF TypeOK
  <2>3. RecordedOnce'
    BY <1>1, <1>4, <2>1, <2>2 DEF RecordedOnce
  <2>4. ASSUME NEW k \in Keys PROVE Kardex(k)' = ledger'[k]
    <3>1. (IF pc'[p] = "committed" THEN posted'[p][k] ELSE NoEffect) = posted[p][k]
      BY <1>2, <1>3
    <3>2. Kardex(k)' = Apply(posted[p][k], Kardex(k))
      BY <1>1, <1>2, <1>3, <1>6, <2>1, <2>2, <3>1, KardexAppend
    <3>. QED  BY <1>6, <3>2
  <2>5. ASSUME NEW q \in Procs, q # p PROVE Recorded(q)'
    <3>1. Recorded(q) /\ pc'[q] = pc[q] /\ InTx(q)' = InTx(q) /\ req'[q] = req[q] /\ posted' = posted
      BY <1>2, <1>3, <2>5 DEF KardexInv
    <3>2. \A i \in 1..Len(made') : made'[i] = q => i \in 1..Len(made) /\ made[i] = q
      BY <1>4, <2>2, <2>5
    <3>3. ASSUME NEW i \in 1..Len(made'), made'[i] = q, InTx(q),
                 NEW j \in i + 1..Len(made'), NEW k \in Keys
          PROVE  ~posted[made'[j]][k].set
      <4>1. i \in 1..Len(made) /\ made[i] = q
        BY <3>2, <3>3
      <4>2. CASE j \in 1..Len(made)
        <5>1. j \in i + 1..Len(made)
          BY <1>4, <4>2
        <5>. QED  BY <2>2, <3>1, <3>3, <4>1, <4>2, <5>1 DEF Recorded
      <4>3. CASE j = Len(made) + 1
        <5>1. req[q].kind = "BODEGA" /\ pc[q] # "folio"
          BY <3>1, <3>3, <4>1 DEF Recorded
        <5>2. req[p].kind # "AJUSTE"
          <6>. SUFFICES ASSUME req[p].kind = "AJUSTE" PROVE FALSE
            OBVIOUS
          <6>1. req[p].kind \notin UnlockedKinds /\ req[q].kind \notin UnlockedKinds
            BY <5>1 DEF UnlockedKinds
          <6>. QED  BY <1>1, <2>5, <3>3, <5>1, <6>1, OneAtATimeInMonth
        <5>. QED  BY <1>1, <2>2, <4>3, <5>2 DEF Recorded
      <4>4. j \in 1..Len(made) \/ j = Len(made) + 1
        BY <1>4, <2>2
      <4>. QED  BY <4>2, <4>3, <4>4
    <3>4. ASSUME NEW i \in 1..Len(made'), made'[i] = q
          PROVE  /\ pc[q] # "idle"
                 /\ InTx(q) => req[q].kind = "BODEGA" /\ pc[q] \notin {"folio", "create"}
      <4>1. i \in 1..Len(made) /\ made[i] = q
        BY <3>2, <3>4
      <4>. QED  BY <3>1, <4>1 DEF Recorded
    <3>5. (\E i \in 1..Len(made) : made[i] = q) => \E i \in 1..Len(made') : made'[i] = q
      BY <1>4, <2>2
    <3>. QED  BY <3>1, <3>3, <3>4, <3>5 DEF Recorded
  <2>. QED  BY <1>5, <2>3, <2>4, <2>5 DEF KardexInv
<1>. QED  BY <1>7, <1>8

LEMMA NextKardexInv ==
    ASSUME \A r1, r2 \in Requests : r1.month = r2.month,
           \A r \in Requests : r.kind \notin TransitKinds \cup {"CONSUME"}
    PROVE  IInv /\ IInv' /\ FolioInv /\ KardexInv /\ [Next]_vars => KardexInv'
<1>. SUFFICES ASSUME IInv, IInv', FolioInv, KardexInv, [Next]_vars PROVE KardexInv'
  OBVIOUS
<1>1. ASSUME NEW p \in Procs, NEW r \in Requests, Begin(p, r) PROVE KardexInv'
  BY <1>1, BeginKardex
<1>2. ASSUME NEW p \in Procs, Step(p) PROVE KardexInv'
  <2>1. CASE LockFolio(p) \/ LockRow(p) \/ UpsertRow(p) \/ CheckStock(p)
    BY <2>1, LockKardex
  <2>2. CASE CreateMovement(p)
    BY <2>2, CreateKardex
  <2>3. CASE \/ WriteIngreso(p) \/ WriteSalida(p) \/ WriteAjuste(p)
             \/ WriteTransferOut(p) \/ WriteTransferIn(p) \/ WriteReception(p)
    BY <2>3, WriteKardex
  <2>4. ASSUME PostTransitLine(p) PROVE FALSE
    <3>1. pc[p] = "post" /\ InTx(p)
      BY <2>4 DEF PostTransitLine, InTx, Steps
    <3>. QED  BY <3>1 DEF IInv, AtLine
  <2>5. CASE Deduct(p)
    BY <2>5, DeductKardex
  <2>6. CASE Commit(p)
    BY <2>6, CommitKardex
  <2>7. CASE Reject(p)
    <3>1. InTx(p) /\ End(p, "rejected") /\ UNCHANGED tables
      BY <2>7 DEF Reject, Refused, InTx, Steps
    <3>. QED  BY <3>1, AbortKardex
  <2>. QED  BY <1>2, <2>1, <2>2, <2>3, <2>4, <2>5, <2>6, <2>7 DEF Step
<1>3. ASSUME NEW p \in Procs, Rollback(p) PROVE KardexInv'
  BY <1>3, AbortKardex DEF Rollback
<1>4. ASSUME NEW p \in Procs, DeadlockAbort(p) PROVE KardexInv'
  <2>1. InTx(p)
    BY <1>4 DEF DeadlockAbort, WaitCycle, WaitsFor, InTx, Steps
  <2>. QED  BY <1>4, <2>1, AbortKardex DEF DeadlockAbort
<1>5. ASSUME UNCHANGED vars PROVE KardexInv'
  <2>1. \A k \in Keys : Kardex(k)' = Kardex(k)
    BY <1>5, KardexKept DEF vars, IInv
  <2>. QED  BY <1>5, <2>1 DEF vars, KardexInv, RecordedOnce, Recorded, InTx
<1>. QED  BY <1>1, <1>2, <1>3, <1>4, <1>5 DEF Next, Quiescent

\* In one month, with no consumption and no reception in transit, the running
\* balance of getKardex ends at the quantity of the Stock row: no order of locks,
\* rollbacks and commits puts a movement in the wrong place of the Kardex, although a
\* reception is stamped before it writes and the others after.
THEOREM KardexSafety ==
    ASSUME \A r1, r2 \in Requests : r1.month = r2.month,
           \A r \in Requests : r.kind \notin TransitKinds \cup {"CONSUME"}
    PROVE  Spec => []KardexMatchesStock
<1>1. IInv /\ KardexInv => KardexMatchesStock
  BY DEF IInv, StockMatchesLedger, KardexInv, KardexMatchesStock
<1>2. IInv /\ IInv' /\ FolioInv /\ KardexInv /\ [Next]_vars => KardexInv'
  BY NextKardexInv
<1>3. Spec => []FolioInv
  BY InitFolioInv, NextFolioInv, SpecIInv, PTL DEF Spec
<1>. QED  BY <1>1, <1>2, <1>3, InitKardexInv, SpecIInv, PTL DEF Spec

-----------------------------------------------------------------------------
(* Movements are serializable *)

\* A row that nobody has inserted holds nothing.
AbsentIsMissing == \A k \in Keys : stock[k].exists \/ stock[k] = Missing

\* The lines of p that are behind it.
Done(p) == IF pc[p] = "commit" THEN Len(Lines(p)) ELSE idx[p] - 1

\* The table as the abstract movement of p has it after the first n lines.
Table(p) == OneAtATime!After(req[p], stock)

\* The row k as that table has it at the line p stands at.
Reached(p, k) ==
    LET row == Table(p)[Done(p)][k]
    IN  IF side[p] = "dest" /\ k = OriginKey(p) THEN Egress(OneAtATime!Opened(row), Cur(p).qty)
        ELSE IF pc[p] = "write" /\ k = Key(p) THEN OneAtATime!Opened(row)
        ELSE row

Moving(p) == InTx(p) /\ req[p].kind \notin TransitKinds /\ ~BadTransfer(req[p])

HereOf(p, i) == OneAtATime!Here(req[p], Lines(p)[i])
ThereOf(p, i) == OneAtATime!There(req[p], Lines(p)[i])

\* The rows p holds are, in its buffer, as its abstract movement leaves them after
\* the lines p is done with; those lines had the stock they deducted, and p still
\* holds every row they touched: nothing they read has changed since.
Serial(p) ==
    /\ InTx(p) => Accepted(req[p])
    /\ InTx(p) /\ BadTransfer(req[p]) => pc[p] \in {"folio", "lock"}
    /\ Moving(p) =>
          /\ \A i \in 1..Done(p) :
                /\ rowLock[HereOf(p, i)] = p
                /\ req[p].kind = "TRANSFER" => rowLock[ThereOf(p, i)] = p
                /\ OneAtATime!Suffices(req[p], Lines(p)[i], Table(p)[i - 1])
          /\ side[p] = "dest" =>
                /\ rowLock[OriginKey(p)] = p
                /\ OneAtATime!Suffices(req[p], Cur(p), Table(p)[Done(p)])
          /\ \A k \in Keys : rowLock[k] = p => buf[p][k] = Reached(p, k)

SerialInv == AbsentIsMissing /\ \A p \in Procs : Serial(p)

\* The table after each line exists, and follows from the one before.
LEMMA AfterDef ==
    ASSUME NEW r \in Request, NEW t
    PROVE  /\ OneAtATime!After(r, t)[0] = t
           /\ \A n \in 1..Len(r.lines) :
                 OneAtATime!After(r, t)[n] =
                    OneAtATime!AfterLine(r, r.lines[n], OneAtATime!After(r, t)[n - 1])
<1>. DEFINE L == r.lines
            Line1(i, table) == OneAtATime!AfterLine(r, L[i], table)
            Upto(n, f) == f = [i \in 0..n |-> IF i = 0 THEN t ELSE Line1(i, f[i - 1])]
            S == {n \in Nat : \E f : Upto(n, f)}
            Is(f) == f = [n \in 0..Len(r.lines) |->
                            IF n = 0 THEN t
                            ELSE OneAtATime!AfterLine(r, r.lines[n], f[n - 1])]
            upTo == CHOOSE f : Is(f)
<1>0. Len(L) \in Nat
  BY DEF Request
<1>. HIDE DEF Line1
<1>1. 0 \in S
  <2>. DEFINE f == [i \in 0..0 |-> t]
  <2>1. Upto(0, f)
    OBVIOUS
  <2>. QED  BY <2>1
<1>2. ASSUME NEW n \in Nat, n \in S PROVE n + 1 \in S
  <2>1. PICK f : Upto(n, f)
    BY <1>2
  <2>. DEFINE g == [i \in 0..n + 1 |-> IF i <= n THEN f[i] ELSE Line1(n + 1, f[n])]
              h == [i \in 0..n + 1 |-> IF i = 0 THEN t ELSE Line1(i, g[i - 1])]
  <2>2. ASSUME NEW i \in 0..n + 1 PROVE g[i] = h[i]
    <3>1. CASE i = 0
      BY <2>1, <3>1
    <3>2. CASE i # 0 /\ i <= n
      <4>1. i \in 0..n /\ i - 1 \in 0..n /\ i - 1 <= n
        BY <3>2
      <4>2. f[i] = Line1(i, f[i - 1])
        BY <2>1, <3>2, <4>1
      <4>. QED  BY <3>2, <4>1, <4>2
    <3>3. CASE i = n + 1
      BY <3>3
    <3>. QED  BY <3>1, <3>2, <3>3
  <2>3. g = h
    <3>1. \A i \in 0..n + 1 : g[i] = h[i]
      BY <2>2
    <3>2. g = [i \in 0..n + 1 |-> g[i]] /\ h = [i \in 0..n + 1 |-> h[i]]
      OBVIOUS
    <3>. HIDE DEF g, h
    <3>. QED  BY <3>1, <3>2
  <2>4. Upto(n + 1, g)
    BY <2>3
  <2>. HIDE DEF Upto, g
  <2>. QED  BY <2>4
<1>3. \E f : Upto(Len(L), f)
  <2>. HIDE DEF S, Upto, L
  <2>1. \A n \in Nat : n \in S
    BY <1>1, <1>2, NatSet
  <2>. QED  BY <1>0, <2>1 DEF S
<1>4. \E f : Is(f)
  <2>1. PICK f : Upto(Len(L), f)
    BY <1>3
  <2>2. ASSUME NEW n \in 0..Len(r.lines)
        PROVE  f[n] = IF n = 0 THEN t ELSE OneAtATime!AfterLine(r, r.lines[n], f[n - 1])
    BY <2>1 DEF Line1
  <2>3. f = [n \in 0..Len(r.lines) |-> f[n]]
    BY <2>1
  <2>4. Is(f)
    BY <2>2, <2>3
  <2>. QED  BY <2>4
<1>5. Is(upTo)
  <2>. HIDE DEF Is
  <2>. QED  BY <1>4
<1>6. OneAtATime!After(r, t) = upTo
  BY DEF OneAtATime!After
<1>. HIDE DEF upTo
<1>7. upTo[0] = t /\ \A n \in 1..Len(r.lines) :
         upTo[n] = OneAtATime!AfterLine(r, r.lines[n], upTo[n - 1])
  <2>1. 0 \in 0..Len(r.lines) /\ \A n \in 1..Len(r.lines) : n \in 0..Len(r.lines) /\ n # 0
    BY <1>0
  <2>. QED  BY <1>5, <2>1
<1>. QED  BY <1>6, <1>7

LEMMA OpenedType ==
    ASSUME NEW row \in Row
    PROVE  /\ OneAtATime!Opened(row) \in Row
           /\ OneAtATime!Opened(row).qty = row.qty /\ OneAtATime!Opened(row).cost = row.cost
           /\ OneAtATime!Opened(row).exists
           /\ row.exists => OneAtATime!Opened(row) = row
BY DEF OneAtATime!Opened, Row

\* Both specifications compute rows alike.
LEMMA SameMath ==
    ASSUME NEW row, NEW q, NEW c
    PROVE  /\ OneAtATime!Ingress(row, q, c) = Ingress(row, q, c)
           /\ OneAtATime!Blend(row, q, c) = Blend(row, q, c)
           /\ OneAtATime!Adjust(row, q, c) = Adjust(row, q, c)
           /\ OneAtATime!Egress(row, q) = Egress(row, q)
<1>1. OneAtATime!Average(row, q, c) = Average(row, q, c)
  BY DEF OneAtATime!Average, Average, OneAtATime!RoundDiv, RoundDiv
<1>. QED
  BY <1>1 DEF OneAtATime!Ingress, Ingress, OneAtATime!Blend, Blend, OneAtATime!Adjust, Adjust,
              OneAtATime!Egress, Egress

\* The rows a line is about.
LEMMA LineKeys ==
    ASSUME NEW r \in Request, NEW l \in Line, ~BadTransfer(r)
    PROVE  /\ OneAtATime!Here(r, l) \in Keys
           /\ r.kind = "TRANSFER" => /\ OneAtATime!There(r, l) \in Keys
                                     /\ OneAtATime!There(r, l) # OneAtATime!Here(r, l)
BY DEF OneAtATime!Here, OneAtATime!There, Request, Line, Keys, BadTransfer

\* What one line makes of the rows, kind by kind.
LEMMA LineEffect ==
    ASSUME NEW r \in Request, NEW l \in Line, ~BadTransfer(r), r.kind \notin TransitKinds,
           NEW t \in [Keys -> Row]
    PROVE  LET here == OneAtATime!Here(r, l)
               there == OneAtATime!There(r, l)
               row == OneAtATime!Opened(t[here])
               after == OneAtATime!AfterLine(r, l, t)
           IN  /\ after \in [Keys -> Row]
               /\ after[here] = CASE r.kind = "INGRESO" -> Ingress(row, l.qty, l.cost)
                                  [] r.kind = "AJUSTE" -> Adjust(row, l.qty, l.cost)
                                  [] r.kind = "BODEGA" -> Blend(row, l.qty, l.cost)
                                  [] OTHER -> Egress(row, l.qty)
               /\ r.kind = "TRANSFER" =>
                     after[there] = Blend(OneAtATime!Opened(t[there]), l.qty, row.cost)
               /\ \A k \in Keys : k # here /\ (r.kind = "TRANSFER" => k # there) =>
                     after[k] = t[k]
<1>. DEFINE here == OneAtATime!Here(r, l)
            there == OneAtATime!There(r, l)
            row == OneAtATime!Opened(t[here])
            after == OneAtATime!AfterLine(r, l, t)
<1>1. /\ here \in Keys /\ row \in Row /\ l.qty \in Nat /\ l.cost \in Nat
      /\ r.kind = "TRANSFER" =>
            there \in Keys /\ there # here /\ OneAtATime!Opened(t[there]) \in Row
  BY LineKeys, OpenedType DEF Line
<1>2. /\ r.kind = "INGRESO" => after = [t EXCEPT ![here] = Ingress(row, l.qty, l.cost)]
      /\ r.kind = "AJUSTE" => after = [t EXCEPT ![here] = Adjust(row, l.qty, l.cost)]
      /\ r.kind = "BODEGA" => after = [t EXCEPT ![here] = Blend(row, l.qty, l.cost)]
      /\ r.kind \in {"SALIDA", "FUEL", "CONSUME"} => after = [t EXCEPT ![here] = Egress(row, l.qty)]
  BY SameMath DEF OneAtATime!AfterLine
<1>8. r.kind = "TRANSFER" =>
         after = [t EXCEPT ![here] = Egress(row, l.qty),
                           ![there] = Blend(OneAtATime!Opened(@), l.qty, row.cost)]
  BY SameMath DEF OneAtATime!AfterLine
<1>3. r.kind \in {"INGRESO", "SALIDA", "AJUSTE", "TRANSFER", "BODEGA", "FUEL", "CONSUME"}
  BY DEF Request, Kinds, LedgerKinds, TransitKinds, UnlockedKinds
<1>. HIDE DEF here, there, row, after
<1>4. /\ Ingress(row, l.qty, l.cost) \in Row /\ Adjust(row, l.qty, l.cost) \in Row
      /\ Blend(row, l.qty, l.cost) \in Row /\ Egress(row, l.qty) \in Row
  <2>1. l.cost \in Int
    BY <1>1
  <2>. QED  BY <1>1, <2>1, RowOps
<1>5. r.kind = "TRANSFER" => Blend(OneAtATime!Opened(t[there]), l.qty, row.cost) \in Row
  <2>1. row.cost \in Int
    BY <1>1 DEF Row
  <2>. QED  BY <1>1, <2>1, RowOps
<1>6. CASE r.kind = "TRANSFER"
  <2>1. after = [t EXCEPT ![here] = Egress(row, l.qty),
                          ![there] = Blend(OneAtATime!Opened(@), l.qty, row.cost)]
    BY <1>6, <1>8
  <2>2. after = [[t EXCEPT ![here] = Egress(row, l.qty)] EXCEPT
                          ![there] = Blend(OneAtATime!Opened(t[there]), l.qty, row.cost)]
    BY <1>1, <1>6, <2>1
  <2>. QED  BY <1>1, <1>4, <1>5, <1>6, <2>2 DEF here, there, row, after
<1>7. CASE r.kind # "TRANSFER"
  <2>. DEFINE new == CASE r.kind = "INGRESO" -> Ingress(row, l.qty, l.cost)
                       [] r.kind = "AJUSTE" -> Adjust(row, l.qty, l.cost)
                       [] r.kind = "BODEGA" -> Blend(row, l.qty, l.cost)
                       [] OTHER -> Egress(row, l.qty)
  <2>1. after = [t EXCEPT ![here] = new] /\ new \in Row
    BY <1>2, <1>3, <1>4, <1>7
  <2>2. after \in [Keys -> Row] /\ after[here] = new /\ \A k \in Keys : k # here => after[k] = t[k]
    <3>. HIDE DEF new
    <3>. QED  BY <1>1, <2>1
  <2>. QED  BY <1>7, <2>2 DEF here, there, row, after
<1>. QED  BY <1>6, <1>7

\* A line reads and writes its own rows only.
LEMMA LineLocal ==
    ASSUME NEW r \in Request, NEW l \in Line, ~BadTransfer(r), r.kind \notin TransitKinds,
           NEW s \in [Keys -> Row], NEW t \in [Keys -> Row], NEW K \in SUBSET Keys,
           OneAtATime!Here(r, l) \in K, r.kind = "TRANSFER" => OneAtATime!There(r, l) \in K,
           \A k \in K : s[k] = t[k]
    PROVE  /\ \A k \in K : OneAtATime!AfterLine(r, l, s)[k] = OneAtATime!AfterLine(r, l, t)[k]
           /\ \A k \in Keys \ K : OneAtATime!AfterLine(r, l, s)[k] = s[k]
           /\ OneAtATime!Suffices(r, l, s) = OneAtATime!Suffices(r, l, t)
<1>. DEFINE here == OneAtATime!Here(r, l)
            there == OneAtATime!There(r, l)
            row == OneAtATime!Opened(s[here])
            a == OneAtATime!AfterLine(r, l, s)
            b == OneAtATime!AfterLine(r, l, t)
<1>1. s[here] = t[here] /\ (r.kind = "TRANSFER" => s[there] = t[there])
  OBVIOUS
<1>2. /\ a[here] = b[here]
      /\ r.kind = "TRANSFER" => a[there] = b[there]
  <2>1. a[here] = CASE r.kind = "INGRESO" -> Ingress(row, l.qty, l.cost)
                    [] r.kind = "AJUSTE" -> Adjust(row, l.qty, l.cost)
                    [] r.kind = "BODEGA" -> Blend(row, l.qty, l.cost)
                    [] OTHER -> Egress(row, l.qty)
    BY LineEffect
  <2>2. b[here] = CASE r.kind = "INGRESO" -> Ingress(row, l.qty, l.cost)
                    [] r.kind = "AJUSTE" -> Adjust(row, l.qty, l.cost)
                    [] r.kind = "BODEGA" -> Blend(row, l.qty, l.cost)
                    [] OTHER -> Egress(row, l.qty)
    BY <1>1, LineEffect
  <2>3. r.kind = "TRANSFER" =>
           a[there] = Blend(OneAtATime!Opened(s[there]), l.qty, row.cost)
    BY LineEffect
  <2>4. r.kind = "TRANSFER" =>
           b[there] = Blend(OneAtATime!Opened(t[there]), l.qty, OneAtATime!Opened(t[here]).cost)
    BY LineEffect
  <2>. HIDE DEF here, there, a, b
  <2>. QED  BY <1>1, <2>1, <2>2, <2>3, <2>4
<1>3. \A k \in Keys : k # here /\ (r.kind = "TRANSFER" => k # there) =>
         a[k] = s[k] /\ b[k] = t[k]
  BY LineEffect
<1>4. OneAtATime!Suffices(r, l, s) = OneAtATime!Suffices(r, l, t)
  BY <1>1 DEF OneAtATime!Suffices
<1>. HIDE DEF here, there, a, b
<1>. QED  BY <1>2, <1>3, <1>4 DEF here, there, a, b

LEMMA AfterType ==
    ASSUME NEW r \in Request, ~BadTransfer(r), r.kind \notin TransitKinds, NEW t \in [Keys -> Row]
    PROVE  \A n \in 0..Len(r.lines) : OneAtATime!After(r, t)[n] \in [Keys -> Row]
<1>. DEFINE x == OneAtATime!After(r, t)
            S == {n \in Nat : n <= Len(r.lines) => x[n] \in [Keys -> Row]}
<1>1. /\ Len(r.lines) \in Nat /\ \A n \in 1..Len(r.lines) : r.lines[n] \in Line
      /\ x[0] = t
      /\ \A n \in 1..Len(r.lines) : x[n] = OneAtATime!AfterLine(r, r.lines[n], x[n - 1])
  BY AfterDef DEF Request
<1>. HIDE DEF x
<1>2. 0 \in S
  BY <1>1
<1>3. ASSUME NEW n \in Nat, n \in S PROVE n + 1 \in S
  <2>. SUFFICES ASSUME n + 1 <= Len(r.lines) PROVE x[n + 1] \in [Keys -> Row]
    OBVIOUS
  <2>1. n + 1 \in 1..Len(r.lines) /\ (n + 1) - 1 = n /\ x[n] \in [Keys -> Row]
    BY <1>1, <1>3
  <2>2. x[n + 1] = OneAtATime!AfterLine(r, r.lines[n + 1], x[n])
    BY <1>1, <2>1
  <2>. QED  BY <1>1, <2>1, <2>2, LineEffect
<1>4. \A n \in Nat : n \in S
  <2>. HIDE DEF S
  <2>. QED  BY <1>2, <1>3, NatSet
<1>. QED  BY <1>1, <1>4 DEF x

\* The first m lines of r name rows of K only; two tables agree on the rows of K.
Within(r, m, K) ==
    \A i \in 1..m : /\ OneAtATime!Here(r, r.lines[i]) \in K
                    /\ r.kind = "TRANSFER" => OneAtATime!There(r, r.lines[i]) \in K
Agree(s, t, K) == \A k \in K : s[k] = t[k]

\* The first m lines of a movement read and write the rows they name; on tables that
\* agree on those they do the same.
LEMMA AfterLocal ==
    ASSUME NEW r \in Request, ~BadTransfer(r), r.kind \notin TransitKinds,
           NEW s \in [Keys -> Row], NEW t \in [Keys -> Row], NEW K \in SUBSET Keys,
           Agree(s, t, K), NEW m \in 0..Len(r.lines), Within(r, m, K)
    PROVE  /\ \A n \in 0..m : \A k \in K : OneAtATime!After(r, s)[n][k] = OneAtATime!After(r, t)[n][k]
           /\ \A n \in 0..m : \A k \in Keys \ K : OneAtATime!After(r, s)[n][k] = s[k]
<1>. DEFINE x == OneAtATime!After(r, s)
            y == OneAtATime!After(r, t)
            S == {n \in Nat : n <= m => /\ \A k \in K : x[n][k] = y[n][k]
                                        /\ \A k \in Keys \ K : x[n][k] = s[k]}
<1>1. /\ Len(r.lines) \in Nat /\ \A n \in 1..Len(r.lines) : r.lines[n] \in Line
      /\ x[0] = s /\ y[0] = t
      /\ \A n \in 1..Len(r.lines) : x[n] = OneAtATime!AfterLine(r, r.lines[n], x[n - 1])
      /\ \A n \in 1..Len(r.lines) : y[n] = OneAtATime!AfterLine(r, r.lines[n], y[n - 1])
  BY AfterDef DEF Request
<1>2. \A n \in 0..Len(r.lines) : x[n] \in [Keys -> Row] /\ y[n] \in [Keys -> Row]
  BY AfterType
<1>. HIDE DEF x, y
<1>3. 0 \in S
  BY <1>1 DEF Agree
<1>4. ASSUME NEW n \in Nat, n \in S PROVE n + 1 \in S
  <2>. SUFFICES ASSUME n + 1 <= m
                PROVE  /\ \A k \in K : x[n + 1][k] = y[n + 1][k]
                       /\ \A k \in Keys \ K : x[n + 1][k] = s[k]
    OBVIOUS
  <2>. DEFINE l == r.lines[n + 1]
  <2>1. /\ n + 1 \in 1..Len(r.lines) /\ n + 1 \in 1..m /\ (n + 1) - 1 = n /\ n \in 0..Len(r.lines)
        /\ \A k \in K : x[n][k] = y[n][k]
        /\ \A k \in Keys \ K : x[n][k] = s[k]
    BY <1>1, <1>4
  <2>2. /\ x[n + 1] = OneAtATime!AfterLine(r, l, x[n])
        /\ y[n + 1] = OneAtATime!AfterLine(r, l, y[n])
        /\ l \in Line /\ x[n] \in [Keys -> Row] /\ y[n] \in [Keys -> Row]
        /\ OneAtATime!Here(r, l) \in K
        /\ r.kind = "TRANSFER" => OneAtATime!There(r, l) \in K
    BY <1>1, <1>2, <2>1 DEF Within
  <2>. HIDE DEF l
  <2>3. /\ \A k \in K : OneAtATime!AfterLine(r, l, x[n])[k] = OneAtATime!AfterLine(r, l, y[n])[k]
        /\ \A k \in Keys \ K : OneAtATime!AfterLine(r, l, x[n])[k] = x[n][k]
    BY <2>1, <2>2, LineLocal
  <2>. QED  BY <2>1, <2>2, <2>3
<1>5. \A n \in Nat : n \in S
  <2>. HIDE DEF S
  <2>. QED  BY <1>3, <1>4, NatSet
<1>. QED  BY <1>1, <1>5 DEF x, y

LEMMA MovingFacts ==
    ASSUME IInv, NEW p \in Procs, Moving(p)
    PROVE  /\ req[p] \in Request /\ ~BadTransfer(req[p]) /\ req[p].kind \notin TransitKinds
           /\ stock \in [Keys -> Row] /\ Lines(p) = req[p].lines
           /\ Len(Lines(p)) \in Nat /\ Done(p) \in 0..Len(Lines(p))
           /\ \A i \in 1..Len(Lines(p)) :
                 /\ Lines(p)[i] \in Line /\ HereOf(p, i) \in Keys
                 /\ req[p].kind = "TRANSFER" =>
                       ThereOf(p, i) \in Keys /\ ThereOf(p, i) # HereOf(p, i)
           /\ Table(p)[0] = stock
           /\ \A n \in 0..Len(Lines(p)) : Table(p)[n] \in [Keys -> Row]
<1>1. /\ InTx(p) /\ req[p] \in Requests /\ ~BadTransfer(req[p]) /\ req[p].kind \notin TransitKinds
      /\ stock \in [Keys -> Row] /\ idx[p] \in Nat \ {0}
      /\ pc[p] # "commit" => idx[p] \in 1..Len(Lines(p))
  BY DEF Moving, IInv, AtLine, TypeOK
<1>2. req[p] \in Request /\ Lines(p) = req[p].lines
  BY <1>1, InventoryAssumption DEF Lines
<1>3. Len(Lines(p)) \in Nat /\ \A i \in 1..Len(Lines(p)) : Lines(p)[i] \in Line
  BY <1>2 DEF Request
<1>4. Done(p) \in 0..Len(Lines(p))
  BY <1>1, <1>3 DEF Done
<1>5. \A i \in 1..Len(Lines(p)) :
         /\ HereOf(p, i) \in Keys
         /\ req[p].kind = "TRANSFER" => ThereOf(p, i) \in Keys /\ ThereOf(p, i) # HereOf(p, i)
  BY <1>1, <1>2, <1>3, LineKeys DEF HereOf, ThereOf
<1>6. Table(p)[0] = stock
  BY <1>2, AfterDef DEF Table
<1>7. \A n \in 0..Len(Lines(p)) : Table(p)[n] \in [Keys -> Row]
  BY <1>1, <1>2, AfterType DEF Table
<1>. QED  BY <1>1, <1>2, <1>3, <1>4, <1>5, <1>6, <1>7

\* The line a moving request stands at.
LEMMA CurrentFacts ==
    ASSUME IInv, NEW p \in Procs, Moving(p), pc[p] # "commit"
    PROVE  /\ idx[p] \in 1..Len(Lines(p)) /\ Done(p) = idx[p] - 1 /\ Cur(p) = Lines(p)[idx[p]]
           /\ Cur(p) \in Line /\ OriginKey(p) = HereOf(p, idx[p]) /\ OriginKey(p) \in Keys
           /\ OriginKey(p) = OneAtATime!Here(req[p], Cur(p))
           /\ Key(p) \in Keys
           /\ side[p] # "dest" => Key(p) = OriginKey(p)
           /\ side[p] = "dest" => /\ req[p].kind = "TRANSFER" /\ Key(p) = ThereOf(p, idx[p])
                                  /\ Key(p) = OneAtATime!There(req[p], Cur(p))
                                  /\ Key(p) # OriginKey(p)
           /\ Table(p)[idx[p]] = OneAtATime!AfterLine(req[p], Cur(p), Table(p)[Done(p)])
<1>1. InTx(p) /\ AtLine(p) /\ TypeOK
  BY DEF Moving, IInv
<1>2. idx[p] \in 1..Len(Lines(p)) /\ Done(p) = idx[p] - 1 /\ Cur(p) = Lines(p)[idx[p]]
  BY <1>1 DEF AtLine, Done, Cur
<1>3. /\ OriginKey(p) = HereOf(p, idx[p])
      /\ side[p] # "dest" => Key(p) = OriginKey(p)
      /\ side[p] = "dest" => Key(p) = ThereOf(p, idx[p]) /\ req[p].kind = "TRANSFER"
  BY <1>1, <1>2 DEF OriginKey, HereOf, ThereOf, Key, Cur, OneAtATime!Here, OneAtATime!There, AtLine
<1>4. Table(p)[idx[p]] = OneAtATime!AfterLine(req[p], Cur(p), Table(p)[Done(p)])
  BY <1>2, MovingFacts, AfterDef DEF Table
<1>5. /\ OriginKey(p) = OneAtATime!Here(req[p], Cur(p))
      /\ side[p] = "dest" => Key(p) = OneAtATime!There(req[p], Cur(p))
  BY <1>2, <1>3 DEF HereOf, ThereOf
<1>. QED  BY <1>2, <1>3, <1>4, <1>5, MovingFacts

\* Rows p does not hold are as stock has them; the others do not depend on these.
LEMMA TableLocal ==
    ASSUME IInv, NEW p \in Procs, Moving(p), Serial(p),
           NEW t \in [Keys -> Row], \A k \in Keys : rowLock[k] = p => t[k] = stock[k]
    PROVE  /\ \A n \in 0..Done(p) : \A k \in Keys : rowLock[k] = p =>
                 OneAtATime!After(req[p], t)[n][k] = Table(p)[n][k]
           /\ \A n \in 0..Done(p) : \A k \in Keys : rowLock[k] # p => Table(p)[n][k] = stock[k]
<1>. DEFINE K == {k \in Keys : rowLock[k] = p}
            r == req[p]
            m == Done(p)
<1>1. /\ r \in Request /\ ~BadTransfer(r) /\ r.kind \notin TransitKinds
      /\ stock \in [Keys -> Row] /\ K \in SUBSET Keys /\ m \in 0..Len(r.lines)
      /\ \A k \in K : stock[k] = t[k]
  BY MovingFacts
<1>2. \A i \in 1..m : /\ OneAtATime!Here(r, r.lines[i]) \in K
                      /\ r.kind = "TRANSFER" => OneAtATime!There(r, r.lines[i]) \in K
  <2>1. \A i \in 1..m : i \in 1..Len(Lines(p))
    BY MovingFacts
  <2>2. \A i \in 1..m : /\ rowLock[HereOf(p, i)] = p
                        /\ r.kind = "TRANSFER" => rowLock[ThereOf(p, i)] = p
    BY DEF Serial
  <2>3. \A i \in 1..m : /\ HereOf(p, i) \in Keys
                        /\ r.kind = "TRANSFER" => ThereOf(p, i) \in Keys
    BY <2>1, MovingFacts
  <2>. QED  BY <2>2, <2>3, MovingFacts DEF HereOf, ThereOf
<1>. HIDE DEF r, m
<1>3. /\ \A n \in 0..m : \A k \in K :
            OneAtATime!After(r, stock)[n][k] = OneAtATime!After(r, t)[n][k]
      /\ \A n \in 0..m : \A k \in Keys \ K : OneAtATime!After(r, stock)[n][k] = stock[k]
  <2>. HIDE DEF K
  <2>1. Within(r, m, K) /\ Agree(stock, t, K)
    BY <1>1, <1>2 DEF Within, Agree
  <2>. QED  BY <1>1, <2>1, AfterLocal
<1>. QED  BY <1>3 DEF Table, r, m

\* Whether a line suffices is a matter of the row it takes from.
LEMMA SufficesLocal ==
    ASSUME NEW r, NEW l, NEW s, NEW t, s[OneAtATime!Here(r, l)] = t[OneAtATime!Here(r, l)]
    PROVE  OneAtATime!Suffices(r, l, s) = OneAtATime!Suffices(r, l, t)
BY DEF OneAtATime!Suffices

\* A step of another request, which leaves the rows q holds alone.
LEMMA SerialFrame ==
    ASSUME IInv, IInv', NEW q \in Procs, Serial(q),
           pc'[q] = pc[q], req'[q] = req[q], idx'[q] = idx[q], side'[q] = side[q],
           buf'[q] = buf[q], \A k \in Keys : rowLock'[k] = q <=> rowLock[k] = q,
           \A k \in Keys : rowLock[k] = q => stock'[k] = stock[k]
    PROVE  Serial(q)'
<1>1. /\ InTx(q)' = InTx(q) /\ Moving(q)' = Moving(q) /\ Done(q)' = Done(q)
      /\ Lines(q)' = Lines(q) /\ Cur(q)' = Cur(q) /\ Key(q)' = Key(q) /\ OriginKey(q)' = OriginKey(q)
      /\ \A i : HereOf(q, i)' = HereOf(q, i) /\ ThereOf(q, i)' = ThereOf(q, i)
      /\ Table(q)' = OneAtATime!After(req[q], stock')
  BY DEF InTx, Moving, Done, Lines, Cur, Key, OriginKey, HereOf, ThereOf, Table
<1>2. CASE ~Moving(q)
  BY <1>1, <1>2 DEF Serial
<1>3. CASE Moving(q)
  <2>1. stock' \in [Keys -> Row]
    BY DEF IInv, TypeOK
  <2>2. \A n \in 0..Done(q) : \A k \in Keys : rowLock[k] = q => Table(q)'[n][k] = Table(q)[n][k]
    BY <1>1, <1>3, <2>1, TableLocal
  <2>3. ASSUME NEW i \in 1..Done(q)
        PROVE  /\ rowLock'[HereOf(q, i)] = q
               /\ req[q].kind = "TRANSFER" => rowLock'[ThereOf(q, i)] = q
               /\ OneAtATime!Suffices(req[q], Lines(q)[i], Table(q)'[i - 1])
    <3>1. /\ rowLock[HereOf(q, i)] = q
          /\ req[q].kind = "TRANSFER" => rowLock[ThereOf(q, i)] = q
          /\ OneAtATime!Suffices(req[q], Lines(q)[i], Table(q)[i - 1])
      BY <1>3 DEF Serial
    <3>2. i \in 1..Len(Lines(q)) /\ i - 1 \in 0..Done(q)
      BY <1>3, MovingFacts
    <3>3. HereOf(q, i) \in Keys /\ (req[q].kind = "TRANSFER" => ThereOf(q, i) \in Keys)
      BY <1>3, <3>2, MovingFacts
    <3>4. Table(q)'[i - 1][HereOf(q, i)] = Table(q)[i - 1][HereOf(q, i)]
      BY <2>2, <3>1, <3>2, <3>3
    <3>5. OneAtATime!Suffices(req[q], Lines(q)[i], Table(q)'[i - 1])
      BY <3>1, <3>4, SufficesLocal DEF HereOf
    <3>. QED  BY <3>1, <3>3, <3>5
  <2>4. ASSUME side[q] = "dest"
        PROVE  /\ rowLock'[OriginKey(q)] = q
               /\ OneAtATime!Suffices(req[q], Cur(q), Table(q)'[Done(q)])
    <3>1. pc[q] # "commit"
      BY <2>4 DEF IInv, AtLine
    <3>2. /\ rowLock[OriginKey(q)] = q
          /\ OneAtATime!Suffices(req[q], Cur(q), Table(q)[Done(q)])
      BY <1>3, <2>4 DEF Serial
    <3>3. OriginKey(q) \in Keys /\ OriginKey(q) = OneAtATime!Here(req[q], Cur(q))
      BY <1>3, <3>1, CurrentFacts
    <3>4. Done(q) \in 0..Done(q)
      BY <1>3, MovingFacts
    <3>5. Table(q)'[Done(q)][OriginKey(q)] = Table(q)[Done(q)][OriginKey(q)]
      BY <2>2, <3>2, <3>3, <3>4
    <3>. QED  BY <3>2, <3>3, <3>5, SufficesLocal
  <2>5. ASSUME NEW k \in Keys, rowLock'[k] = q PROVE buf'[q][k] = Reached(q, k)'
    <3>1. rowLock[k] = q /\ buf[q][k] = Reached(q, k)
      BY <1>3, <2>5 DEF Serial
    <3>2. Done(q) \in 0..Done(q)
      BY <1>3, MovingFacts
    <3>3. Table(q)'[Done(q)][k] = Table(q)[Done(q)][k]
      BY <2>2, <3>1, <3>2
    <3>4. Reached(q, k)' = Reached(q, k)
      BY <1>1, <3>3 DEF Reached
    <3>. QED  BY <3>1, <3>4
  <2>6. InTx(q) => Accepted(req[q])
    BY DEF Serial
  <2>7. InTx(q) /\ BadTransfer(req[q]) => pc[q] \in {"folio", "lock"}
    BY DEF Serial
  <2>. QED  BY <1>1, <2>3, <2>4, <2>5, <2>6, <2>7 DEF Serial
<1>. QED  BY <1>2, <1>3

\* What a step of p has to establish when it changes no committed row.
LEMMA StepSerial ==
    ASSUME IInv, IInv', SerialInv, NEW p \in Procs, stock' = stock, Serial(p)',
           \A q \in Procs \ {p} :
              /\ pc'[q] = pc[q] /\ req'[q] = req[q] /\ idx'[q] = idx[q] /\ side'[q] = side[q]
              /\ buf'[q] = buf[q] /\ \A k \in Keys : rowLock'[k] = q <=> rowLock[k] = q
    PROVE  SerialInv'
<1>1. AbsentIsMissing'
  BY DEF SerialInv, AbsentIsMissing
<1>2. ASSUME NEW q \in Procs, q # p PROVE Serial(q)'
  <2>1. Serial(q)
    BY DEF SerialInv
  <2>. QED  BY <1>2, <2>1, SerialFrame
<1>. QED  BY <1>1, <1>2 DEF SerialInv

\* From one statement to another at the same line, without a new lock.
LEMMA MoveOn ==
    ASSUME IInv, IInv', SerialInv, NEW p \in Procs, InTx(p), pc[p] \notin {"write", "commit"},
           pc'[p] \in Steps \ {"write", "commit"}, BadTransfer(req[p]) => pc'[p] = "lock",
           \A q \in Procs \ {p} : pc'[q] = pc[q],
           UNCHANGED <<stock, rowLock, req, idx, side, buf>>
    PROVE  SerialInv'
<1>1. /\ InTx(p)' /\ Moving(p)' = Moving(p) /\ Done(p)' = Done(p)
      /\ Lines(p)' = Lines(p) /\ Cur(p)' = Cur(p) /\ Key(p)' = Key(p) /\ OriginKey(p)' = OriginKey(p)
      /\ \A i : HereOf(p, i)' = HereOf(p, i) /\ ThereOf(p, i)' = ThereOf(p, i)
      /\ Table(p)' = Table(p)
  BY DEF InTx, Moving, Done, Lines, Cur, Key, OriginKey, HereOf, ThereOf, Table
<1>2. \A k \in Keys : Reached(p, k)' = Reached(p, k)
  BY <1>1 DEF Reached
<1>3. Serial(p)
  BY DEF SerialInv
<1>4. Serial(p)'
  BY <1>1, <1>2, <1>3 DEF Serial
<1>. QED  BY <1>4, StepSerial

\* p gets the lock of the row of its line.
LEMMA TakeSerial ==
    ASSUME IInv, IInv', SerialInv, NEW p \in Procs, pc[p] \in {"lock", "upsert"},
           ~BadTransfer(req[p]), rowLock[Key(p)] \in {NULL, p},
           Take(p, Key(p), OneAtATime!Opened(stock[Key(p)])), pc' = [pc EXCEPT ![p] = "write"],
           UNCHANGED <<stock, req, idx, side>>
    PROVE  SerialInv'
<1>1. /\ InTx(p) /\ Moving(p) /\ TypeOK /\ Serial(p)
      /\ pc[p] # "commit" /\ pc[p] # "write"
  BY DEF IInv, AtLine, Moving, InTx, Steps, LedgerKinds, TransitKinds, SerialInv
<1>2. Key(p) \in Keys /\ (side[p] = "dest" => Key(p) # OriginKey(p)) /\ OriginKey(p) \in Keys
  BY <1>1, CurrentFacts
<1>3. /\ pc'[p] = "write" /\ InTx(p)' /\ Moving(p)' /\ Done(p)' = Done(p)
      /\ Lines(p)' = Lines(p) /\ Cur(p)' = Cur(p) /\ Key(p)' = Key(p) /\ OriginKey(p)' = OriginKey(p)
      /\ \A i : HereOf(p, i)' = HereOf(p, i) /\ ThereOf(p, i)' = ThereOf(p, i)
      /\ Table(p)' = Table(p) /\ \A q \in Procs \ {p} : pc'[q] = pc[q]
  <2>1. pc'[p] = "write" /\ \A q \in Procs \ {p} : pc'[q] = pc[q]
    BY <1>1 DEF TypeOK
  <2>. QED
    BY <1>1, <2>1 DEF InTx, Steps, Moving, Done, Lines, Cur, Key, OriginKey, HereOf, ThereOf, Table
<1>4. /\ \A k \in Keys : rowLock'[k] = IF k = Key(p) THEN p ELSE rowLock[k]
      /\ \A q \in Procs \ {p} : buf'[q] = buf[q]
      /\ \A k \in Keys : k # Key(p) => buf'[p][k] = buf[p][k]
      /\ buf'[p][Key(p)] = IF rowLock[Key(p)] = p THEN buf[p][Key(p)]
                           ELSE OneAtATime!Opened(stock[Key(p)])
  BY <1>1, <1>2 DEF Take, TypeOK
<1>5. \A q \in Procs \ {p} : \A k \in Keys : rowLock'[k] = q <=> rowLock[k] = q
  BY <1>2, <1>4, InventoryAssumption
<1>6. ASSUME NEW k \in Keys, rowLock'[k] = p PROVE buf'[p][k] = Reached(p, k)'
  <2>1. \A n \in 0..Len(Lines(p)) : Table(p)[n] \in [Keys -> Row]
    BY <1>1, MovingFacts
  <2>2. Done(p) \in 0..Len(Lines(p)) /\ Done(p) \in 0..Done(p)
    BY <1>1, MovingFacts
  <2>3. CASE k = Key(p)
    <3>1. Reached(p, k)' = OneAtATime!Opened(Table(p)[Done(p)][k])
      BY <1>2, <1>3, <2>3 DEF Reached
    <3>2. CASE rowLock[k] = p
      <4>1. buf[p][k] = Table(p)[Done(p)][k]
        BY <1>1, <1>2, <2>3, <3>2 DEF Serial, Reached
      <4>2. buf[p][k].exists
        BY <3>2 DEF IInv, Holding
      <4>3. Table(p)[Done(p)][k] \in Row
        BY <2>1, <2>2
      <4>. QED  BY <1>4, <2>3, <3>1, <3>2, <4>1, <4>2, <4>3, OpenedType
    <3>3. CASE rowLock[k] # p
      <4>1. stock \in [Keys -> Row] /\ \A j \in Keys : rowLock[j] = p => stock[j] = stock[j]
        BY <1>1 DEF TypeOK
      <4>2. \A n \in 0..Done(p) : \A j \in Keys : rowLock[j] # p => Table(p)[n][j] = stock[j]
        BY <1>1, <4>1, TableLocal
      <4>. QED  BY <1>4, <2>2, <2>3, <3>1, <3>3, <4>2
    <3>. QED  BY <3>2, <3>3
  <2>4. CASE k # Key(p)
    <3>1. rowLock[k] = p /\ buf'[p][k] = buf[p][k] /\ buf[p][k] = Reached(p, k)
      BY <1>1, <1>4, <1>6, <2>4 DEF Serial
    <3>2. Reached(p, k)' = Reached(p, k)
      BY <1>1, <1>3, <2>4 DEF Reached
    <3>. QED  BY <3>1, <3>2
  <2>. QED  BY <2>3, <2>4
<1>7. \A k \in Keys : rowLock[k] = p => rowLock'[k] = p
  BY <1>4
<1>8. ASSUME NEW i \in 1..Done(p)
      PROVE  /\ rowLock'[HereOf(p, i)] = p
             /\ req[p].kind = "TRANSFER" => rowLock'[ThereOf(p, i)] = p
             /\ OneAtATime!Suffices(req[p], Lines(p)[i], Table(p)[i - 1])
  <2>1. /\ rowLock[HereOf(p, i)] = p
        /\ req[p].kind = "TRANSFER" => rowLock[ThereOf(p, i)] = p
        /\ OneAtATime!Suffices(req[p], Lines(p)[i], Table(p)[i - 1])
    BY <1>1 DEF Serial
  <2>2. i \in 1..Len(Lines(p))
    BY <1>1, MovingFacts
  <2>3. HereOf(p, i) \in Keys /\ (req[p].kind = "TRANSFER" => ThereOf(p, i) \in Keys)
    BY <1>1, <2>2, MovingFacts
  <2>. QED  BY <1>7, <2>1, <2>3
<1>9. side[p] = "dest" => /\ rowLock'[OriginKey(p)] = p
                          /\ OneAtATime!Suffices(req[p], Cur(p), Table(p)[Done(p)])
  BY <1>1, <1>2, <1>7 DEF Serial
<1>10. Accepted(req[p])
  BY <1>1 DEF Serial
<1>11. Serial(p)'
  BY <1>3, <1>6, <1>8, <1>9, <1>10 DEF Serial
<1>. QED  BY <1>3, <1>4, <1>5, <1>11, StepSerial

\* p is done with its line, and its rows are as the line leaves them.
LEMMA LineSerial ==
    ASSUME IInv, IInv', SerialInv, NEW p \in Procs, pc[p] = "write", ~BadTransfer(req[p]),
           NextLine(p), UNCHANGED <<stock, rowLock, req>>, \A q \in Procs \ {p} : buf'[q] = buf[q],
           rowLock[HereOf(p, idx[p])] = p,
           req[p].kind = "TRANSFER" => rowLock[ThereOf(p, idx[p])] = p,
           OneAtATime!Suffices(req[p], Cur(p), Table(p)[Done(p)]),
           \A k \in Keys : rowLock[k] = p => buf'[p][k] = Table(p)[idx[p]][k]
    PROVE  SerialInv'
<1>1. /\ InTx(p) /\ Moving(p) /\ TypeOK /\ Serial(p) /\ req[p].kind \in LedgerKinds
      /\ pc[p] # "commit"
  BY DEF IInv, AtLine, Moving, InTx, Steps, LedgerKinds, TransitKinds, SerialInv
<1>2. /\ idx[p] \in 1..Len(Lines(p)) /\ Done(p) = idx[p] - 1 /\ Cur(p) = Lines(p)[idx[p]]
      /\ Len(Lines(p)) \in Nat
  BY <1>1, CurrentFacts, MovingFacts
<1>3. /\ idx'[p] = idx[p] + 1 /\ side'[p] = "origin"
      /\ pc'[p] = IF idx[p] < Len(Lines(p)) THEN "lock" ELSE "commit"
      /\ \A q \in Procs \ {p} : pc'[q] = pc[q] /\ idx'[q] = idx[q] /\ side'[q] = side[q]
  <2>1. FirstStep(req[p].kind) = "lock"
    BY <1>1 DEF FirstStep, LedgerKinds, TransitKinds
  <2>. QED  BY <1>1, <2>1 DEF NextLine, TypeOK
<1>4. /\ InTx(p)' /\ Moving(p)' /\ Lines(p)' = Lines(p) /\ Done(p)' = idx[p]
      /\ \A i : HereOf(p, i)' = HereOf(p, i) /\ ThereOf(p, i)' = ThereOf(p, i)
      /\ Table(p)' = Table(p)
  <2>1. InTx(p)' /\ Lines(p)' = Lines(p)
    BY <1>3 DEF InTx, Steps, Lines
  <2>2. Done(p)' = idx[p]
    BY <1>2, <1>3, <2>1 DEF Done
  <2>. QED  BY <1>1, <2>1, <2>2 DEF Moving, HereOf, ThereOf, Table, Lines
<1>5. ASSUME NEW i \in 1..idx[p]
      PROVE  /\ rowLock[HereOf(p, i)] = p
             /\ req[p].kind = "TRANSFER" => rowLock[ThereOf(p, i)] = p
             /\ OneAtATime!Suffices(req[p], Lines(p)[i], Table(p)[i - 1])
  <2>1. i = idx[p] \/ i \in 1..Done(p)
    BY <1>2
  <2>2. CASE i = idx[p]
    BY <1>2, <2>2
  <2>3. CASE i \in 1..Done(p)
    BY <1>1, <2>3 DEF Serial
  <2>. QED  BY <2>1, <2>2, <2>3
<1>6. ASSUME NEW k \in Keys, rowLock[k] = p PROVE buf'[p][k] = Reached(p, k)'
  <2>1. Reached(p, k)' = Table(p)[idx[p]][k]
    BY <1>3, <1>4 DEF Reached
  <2>. QED  BY <1>6, <2>1
<1>7. Accepted(req[p])
  BY <1>1 DEF Serial
<1>8. Serial(p)'
  BY <1>3, <1>4, <1>5, <1>6, <1>7 DEF Serial
<1>. QED  BY <1>3, <1>8, StepSerial

\* What p has before it writes the row of its line.
LEMMA WriteFacts ==
    ASSUME IInv, SerialInv, NEW p \in Procs, pc[p] = "write"
    PROVE  /\ InTx(p) /\ Moving(p) /\ TypeOK /\ Serial(p) /\ ~BadTransfer(req[p])
           /\ pc[p] # "commit" /\ rowLock[Key(p)] = p
           /\ Cur(p).qty \in Nat
           /\ Table(p)[Done(p)] \in [Keys -> Row]
           /\ buf[p][Key(p)] = OneAtATime!Opened(Table(p)[Done(p)][Key(p)])
           /\ buf[p][Key(p)].qty = Table(p)[Done(p)][Key(p)].qty
           /\ \A k \in Keys : rowLock[k] = p /\ k # Key(p) =>
                 buf[p][k] = IF side[p] = "dest" /\ k = OriginKey(p)
                             THEN Egress(OneAtATime!Opened(Table(p)[Done(p)][k]), Cur(p).qty)
                             ELSE Table(p)[Done(p)][k]
<1>1. /\ InTx(p) /\ Moving(p) /\ TypeOK /\ Serial(p) /\ ~BadTransfer(req[p])
      /\ pc[p] # "commit" /\ rowLock[Key(p)] = p
  BY DEF IInv, AtLine, Moving, InTx, Steps, LedgerKinds, TransitKinds, SerialInv, Holding
<1>2. /\ Key(p) \in Keys /\ (side[p] = "dest" => Key(p) # OriginKey(p)) /\ Cur(p).qty \in Nat
  BY <1>1, CurrentFacts DEF Line
<1>3. Table(p)[Done(p)] \in [Keys -> Row]
  BY <1>1, MovingFacts
<1>4. buf[p][Key(p)] = OneAtATime!Opened(Table(p)[Done(p)][Key(p)])
  BY <1>1, <1>2 DEF Serial, Reached
<1>5. \A k \in Keys : rowLock[k] = p /\ k # Key(p) =>
         buf[p][k] = IF side[p] = "dest" /\ k = OriginKey(p)
                     THEN Egress(OneAtATime!Opened(Table(p)[Done(p)][k]), Cur(p).qty)
                     ELSE Table(p)[Done(p)][k]
  BY <1>1 DEF Serial, Reached
<1>6. Table(p)[Done(p)][Key(p)] \in Row
  BY <1>2, <1>3
<1>7. buf[p][Key(p)].qty = Table(p)[Done(p)][Key(p)].qty
  BY <1>4, <1>6, OpenedType
<1>. QED  BY <1>1, <1>2, <1>3, <1>4, <1>5, <1>7

\* The writes of one row: an INGRESO, a SALIDA, an AJUSTE, a reception.
LEMMA OneRowSerial ==
    ASSUME IInv, IInv', SerialInv, NEW p \in Procs,
           WriteIngreso(p) \/ WriteSalida(p) \/ WriteAjuste(p) \/ WriteReception(p)
    PROVE  SerialInv'
<1>1. /\ pc[p] = "write" /\ NextLine(p) /\ side[p] = "origin"
      /\ UNCHANGED <<stock, rowLock, req>>
      /\ req[p].kind \in {"INGRESO", "SALIDA", "AJUSTE", "BODEGA"}
      /\ \E row, e : Put(p, row, e)
  BY DEF WriteIngreso, WriteSalida, WriteAjuste, WriteReception, Writing, tables
<1>. DEFINE t == Table(p)[Done(p)]
            l == Cur(p)
            r == req[p]
            new == CASE r.kind = "INGRESO" -> Ingress(buf[p][Key(p)], l.qty, l.cost)
                     [] r.kind = "AJUSTE" -> Adjust(buf[p][Key(p)], l.qty, l.cost)
                     [] r.kind = "BODEGA" -> Blend(buf[p][Key(p)], l.qty, l.cost)
                     [] OTHER -> Egress(buf[p][Key(p)], l.qty)
<1>2. /\ InTx(p) /\ Moving(p) /\ TypeOK /\ Serial(p) /\ ~BadTransfer(req[p])
      /\ pc[p] # "commit" /\ rowLock[Key(p)] = p /\ Cur(p).qty \in Nat
      /\ t \in [Keys -> Row] /\ buf[p][Key(p)] = OneAtATime!Opened(t[Key(p)])
      /\ buf[p][Key(p)].qty = t[Key(p)].qty
      /\ \A k \in Keys : rowLock[k] = p /\ k # Key(p) => buf[p][k] = t[k]
  BY <1>1, WriteFacts
<1>3. /\ Key(p) \in Keys /\ Key(p) = HereOf(p, idx[p]) /\ Key(p) = OneAtATime!Here(r, l)
      /\ l \in Line /\ Table(p)[idx[p]] = OneAtATime!AfterLine(r, l, t)
      /\ r \in Request /\ r.kind \notin TransitKinds
  BY <1>1, <1>2, CurrentFacts, MovingFacts
<1>4. \E e : Put(p, new, e)
  <2>1. CASE WriteIngreso(p)
    BY <2>1 DEF WriteIngreso, Writing
  <2>2. CASE WriteSalida(p)
    BY <2>2 DEF WriteSalida, Writing
  <2>3. CASE WriteAjuste(p)
    BY <2>3 DEF WriteAjuste, Writing
  <2>4. CASE WriteReception(p)
    BY <2>4 DEF WriteReception, Writing
  <2>. QED  BY <2>1, <2>2, <2>3, <2>4
<1>5. /\ buf'[p][Key(p)] = new /\ \A q \in Procs \ {p} : buf'[q] = buf[q]
      /\ \A k \in Keys : k # Key(p) => buf'[p][k] = buf[p][k]
  <2>. HIDE DEF new
  <2>. QED  BY <1>2, <1>3, <1>4 DEF Put, TypeOK
<1>6. /\ OneAtATime!AfterLine(r, l, t)[Key(p)] = new
      /\ \A k \in Keys : k # Key(p) => OneAtATime!AfterLine(r, l, t)[k] = t[k]
  <2>1. LET row == OneAtATime!Opened(t[OneAtATime!Here(r, l)])
        IN  OneAtATime!AfterLine(r, l, t)[OneAtATime!Here(r, l)] =
               CASE r.kind = "INGRESO" -> Ingress(row, l.qty, l.cost)
                 [] r.kind = "AJUSTE" -> Adjust(row, l.qty, l.cost)
                 [] r.kind = "BODEGA" -> Blend(row, l.qty, l.cost)
                 [] OTHER -> Egress(row, l.qty)
    <3>. HIDE DEF r, l, t
    <3>. QED  BY <1>2, <1>3, LineEffect DEF r
  <2>2. \A k \in Keys : k # OneAtATime!Here(r, l) => OneAtATime!AfterLine(r, l, t)[k] = t[k]
    <3>1. r.kind # "TRANSFER"
      BY <1>1
    <3>. HIDE DEF r, l, t
    <3>. QED  BY <1>2, <1>3, <3>1, LineEffect DEF r
  <2>. HIDE DEF t
  <2>. QED  BY <1>2, <1>3, <2>1, <2>2
<1>7. OneAtATime!Suffices(r, l, t)
  <2>1. r.kind = "SALIDA" => t[Key(p)].qty >= l.qty
    <3>1. r.kind = "SALIDA" => ~(buf[p][Key(p)].qty < l.qty)
      BY <1>1 DEF WriteIngreso, WriteSalida, WriteAjuste, WriteReception, Writing, Refused
    <3>2. t[Key(p)].qty \in Int
      BY <1>2, <1>3 DEF Row
    <3>. HIDE DEF t, r, l
    <3>. QED  BY <1>2, <3>1, <3>2 DEF l
  <2>. HIDE DEF t
  <2>. QED  BY <1>1, <1>3, <2>1 DEF OneAtATime!Suffices
<1>. HIDE DEF t, l, new
<1>8. \A k \in Keys : rowLock[k] = p => buf'[p][k] = Table(p)[idx[p]][k]
  BY <1>2, <1>3, <1>5, <1>6
<1>. QED  BY <1>1, <1>2, <1>3, <1>5, <1>7, <1>8, LineSerial DEF t, l

\* The first leg of a transfer: the line is half done.
LEMMA TransferOutSerial ==
    ASSUME IInv, IInv', SerialInv, NEW p \in Procs, WriteTransferOut(p)
    PROVE  SerialInv'
<1>. DEFINE t == Table(p)[Done(p)]
<1>1. /\ pc[p] = "write" /\ side[p] = "origin" /\ req[p].kind = "TRANSFER"
      /\ ~(buf[p][Key(p)].qty < Cur(p).qty)
      /\ side' = [side EXCEPT ![p] = "dest"] /\ pc' = [pc EXCEPT ![p] = "lock"]
      /\ UNCHANGED <<stock, rowLock, req, idx>>
      /\ buf' = [buf EXCEPT ![p][Key(p)] = Egress(buf[p][Key(p)], Cur(p).qty)]
  BY DEF WriteTransferOut, Writing, Put, Refused, tables
<1>2. /\ InTx(p) /\ Moving(p) /\ TypeOK /\ Serial(p) /\ ~BadTransfer(req[p])
      /\ pc[p] # "commit" /\ rowLock[Key(p)] = p /\ Cur(p).qty \in Nat
      /\ t \in [Keys -> Row] /\ buf[p][Key(p)] = OneAtATime!Opened(t[Key(p)])
      /\ buf[p][Key(p)].qty = t[Key(p)].qty
      /\ \A k \in Keys : rowLock[k] = p /\ k # Key(p) => buf[p][k] = t[k]
  BY <1>1, WriteFacts
<1>3. Key(p) \in Keys /\ Key(p) = OriginKey(p) /\ Key(p) = OneAtATime!Here(req[p], Cur(p))
  BY <1>1, <1>2, CurrentFacts
<1>. HIDE DEF t
<1>4. /\ side'[p] = "dest" /\ pc'[p] = "lock"
      /\ \A q \in Procs \ {p} : pc'[q] = pc[q] /\ side'[q] = side[q] /\ buf'[q] = buf[q]
      /\ buf'[p][Key(p)] = Egress(buf[p][Key(p)], Cur(p).qty)
      /\ \A k \in Keys : k # Key(p) => buf'[p][k] = buf[p][k]
  BY <1>1, <1>2, <1>3 DEF TypeOK
<1>5. /\ InTx(p)' /\ Moving(p)' /\ Done(p)' = Done(p) /\ Lines(p)' = Lines(p) /\ Cur(p)' = Cur(p)
      /\ OriginKey(p)' = OriginKey(p) /\ Table(p)' = Table(p)
      /\ \A i : HereOf(p, i)' = HereOf(p, i) /\ ThereOf(p, i)' = ThereOf(p, i)
  BY <1>1, <1>2, <1>4 DEF InTx, Steps, Moving, Done, Lines, Cur, OriginKey, HereOf, ThereOf, Table
<1>6. ASSUME NEW k \in Keys, rowLock[k] = p PROVE buf'[p][k] = Reached(p, k)'
  <2>1. Reached(p, k)' = IF k = OriginKey(p) THEN Egress(OneAtATime!Opened(t[k]), Cur(p).qty)
                         ELSE t[k]
    BY <1>4, <1>5 DEF Reached, t
  <2>2. CASE k = Key(p)
    BY <1>2, <1>3, <1>4, <2>1, <2>2
  <2>3. CASE k # Key(p)
    BY <1>2, <1>3, <1>4, <1>6, <2>1, <2>3
  <2>. QED  BY <2>2, <2>3
<1>7. OneAtATime!Suffices(req[p], Cur(p), t)
  <2>1. t[Key(p)].qty \in Int
    BY <1>2, <1>3 DEF Row
  <2>2. t[Key(p)].qty >= Cur(p).qty
    BY <1>1, <1>2, <2>1
  <2>. QED  BY <1>1, <1>3, <2>2 DEF OneAtATime!Suffices
<1>8. Serial(p)'
  <2>1. Accepted(req[p])
    BY <1>2 DEF Serial
  <2>2. \A i \in 1..Done(p) :
           /\ rowLock[HereOf(p, i)] = p
           /\ req[p].kind = "TRANSFER" => rowLock[ThereOf(p, i)] = p
           /\ OneAtATime!Suffices(req[p], Lines(p)[i], Table(p)[i - 1])
    BY <1>2 DEF Serial
  <2>3. rowLock[OriginKey(p)] = p /\ OneAtATime!Suffices(req[p], Cur(p), Table(p)[Done(p)])
    BY <1>2, <1>3, <1>7 DEF t
  <2>4. rowLock' = rowLock /\ req' = req /\ pc'[p] = "lock"
    BY <1>1, <1>4
  <2>. QED  BY <1>5, <1>6, <2>1, <2>2, <2>3, <2>4 DEF Serial
<1>. QED  BY <1>1, <1>4, <1>8, StepSerial

\* The second leg.
LEMMA TransferInSerial ==
    ASSUME IInv, IInv', SerialInv, NEW p \in Procs, WriteTransferIn(p)
    PROVE  SerialInv'
<1>. DEFINE t == Table(p)[Done(p)]
            l == Cur(p)
            r == req[p]
<1>1. /\ pc[p] = "write" /\ side[p] = "dest" /\ req[p].kind = "TRANSFER" /\ NextLine(p)
      /\ UNCHANGED <<stock, rowLock, req>>
      /\ buf' = [buf EXCEPT ![p][Key(p)] =
                    Blend(buf[p][Key(p)], Cur(p).qty, buf[p][OriginKey(p)].cost)]
  BY DEF WriteTransferIn, Writing, Put, tables
<1>2. /\ InTx(p) /\ Moving(p) /\ TypeOK /\ Serial(p) /\ ~BadTransfer(req[p])
      /\ pc[p] # "commit" /\ rowLock[Key(p)] = p
      /\ t \in [Keys -> Row] /\ buf[p][Key(p)] = OneAtATime!Opened(t[Key(p)])
      /\ \A k \in Keys : rowLock[k] = p /\ k # Key(p) =>
            buf[p][k] = IF k = OriginKey(p) THEN Egress(OneAtATime!Opened(t[k]), Cur(p).qty)
                        ELSE t[k]
  BY <1>1, WriteFacts
<1>3. /\ Key(p) \in Keys /\ Key(p) = ThereOf(p, idx[p]) /\ Key(p) = OneAtATime!There(r, l)
      /\ OriginKey(p) \in Keys /\ OriginKey(p) = HereOf(p, idx[p])
      /\ OriginKey(p) = OneAtATime!Here(r, l) /\ Key(p) # OriginKey(p)
      /\ l \in Line /\ Table(p)[idx[p]] = OneAtATime!AfterLine(r, l, t)
      /\ r \in Request /\ r.kind \notin TransitKinds
  BY <1>1, <1>2, CurrentFacts, MovingFacts
<1>4. rowLock[OriginKey(p)] = p /\ OneAtATime!Suffices(r, l, t)
  BY <1>1, <1>2 DEF Serial
<1>5. /\ buf'[p][Key(p)] = Blend(buf[p][Key(p)], l.qty, buf[p][OriginKey(p)].cost)
      /\ \A q \in Procs \ {p} : buf'[q] = buf[q]
      /\ \A k \in Keys : k # Key(p) => buf'[p][k] = buf[p][k]
  <2>. HIDE DEF t
  <2>. QED  BY <1>1, <1>2, <1>3 DEF TypeOK
<1>6. buf[p][OriginKey(p)].cost = OneAtATime!Opened(t[OriginKey(p)]).cost
  <2>1. buf[p][OriginKey(p)] = Egress(OneAtATime!Opened(t[OriginKey(p)]), Cur(p).qty)
    BY <1>2, <1>3, <1>4
  <2>. QED  BY <2>1 DEF Egress
<1>7. LET here == OneAtATime!Here(r, l)
          there == OneAtATime!There(r, l)
          row == OneAtATime!Opened(t[here])
          after == OneAtATime!AfterLine(r, l, t)
      IN  /\ after[here] = Egress(row, l.qty)
          /\ after[there] = Blend(OneAtATime!Opened(t[there]), l.qty, row.cost)
          /\ \A k \in Keys : k # here /\ k # there => after[k] = t[k]
  <2>1. r.kind = "TRANSFER" /\ ~BadTransfer(r)
    BY <1>1, <1>2
  <2>. HIDE DEF r, l, t
  <2>. QED  BY <1>2, <1>3, <2>1, LineEffect
<1>. HIDE DEF t, l, r
<1>8. \A k \in Keys : rowLock[k] = p => buf'[p][k] = Table(p)[idx[p]][k]
  <2>. SUFFICES ASSUME NEW k \in Keys, rowLock[k] = p
                PROVE  buf'[p][k] = OneAtATime!AfterLine(r, l, t)[k]
    BY <1>3
  <2>1. CASE k = Key(p)
    BY <1>2, <1>3, <1>5, <1>6, <1>7, <2>1
  <2>2. CASE k = OriginKey(p)
    BY <1>2, <1>3, <1>5, <1>7, <2>2 DEF l
  <2>3. CASE k # Key(p) /\ k # OriginKey(p)
    BY <1>2, <1>3, <1>5, <1>7, <2>3
  <2>. QED  BY <2>1, <2>2, <2>3
<1>. QED  BY <1>1, <1>2, <1>3, <1>4, <1>5, <1>8, LineSerial DEF t, l, r

\* A decrement is the only line of its movement.
LEMMA DeductSerial ==
    ASSUME IInv, IInv', SerialInv, NEW p \in Procs, Deduct(p)
    PROVE  SerialInv'
<1>1. /\ pc[p] = "deduct" /\ rowLock[Key(p)] = NULL /\ pc' = [pc EXCEPT ![p] = "commit"]
      /\ rowLock' = [rowLock EXCEPT ![Key(p)] = p] /\ UNCHANGED <<stock, req, idx, side>>
      /\ buf' = [buf EXCEPT ![p][Key(p)] = Egress(stock[Key(p)], Cur(p).qty)]
  BY DEF Deduct, Put, tables
<1>2. /\ InTx(p) /\ TypeOK /\ Serial(p) /\ AtLine(p) /\ Holding(p)
      /\ pc[p] # "commit" /\ req[p].kind \in UnlockedKinds /\ req[p] \in Requests
      /\ side[p] = "origin" /\ stock[Key(p)].exists
  <2>1. InTx(p) /\ TypeOK /\ Serial(p) /\ AtLine(p) /\ Holding(p)
    BY <1>1 DEF IInv, InTx, Steps, SerialInv
  <2>2. side[p] # "dest"
    BY <1>1, <2>1 DEF AtLine
  <2>. QED  BY <1>1, <2>1, <2>2 DEF AtLine, Holding, TypeOK
<1>3. Moving(p) /\ req[p].kind # "TRANSFER" /\ req[p].kind \in {"FUEL", "CONSUME"}
  BY <1>2 DEF Moving, BadTransfer, UnlockedKinds, TransitKinds
<1>4. Len(Lines(p)) = 1 /\ idx[p] = 1 /\ Done(p) = 0
  <2>1. Len(Lines(p)) = 1
    BY <1>2, InventoryAssumption DEF Lines
  <2>. QED  BY <1>2, <1>3, <2>1, CurrentFacts
<1>. DEFINE l == Cur(p)
            r == req[p]
<1>5. /\ Key(p) \in Keys /\ Key(p) = HereOf(p, 1) /\ Key(p) = OneAtATime!Here(r, l)
      /\ l \in Line /\ l = Lines(p)[1] /\ Table(p)[1] = OneAtATime!AfterLine(r, l, stock)
      /\ r \in Request /\ r.kind \notin TransitKinds /\ ~BadTransfer(r) /\ stock \in [Keys -> Row]
      /\ Table(p)[0] = stock
  BY <1>2, <1>3, <1>4, CurrentFacts, MovingFacts
<1>6. /\ pc'[p] = "commit" /\ \A q \in Procs \ {p} : pc'[q] = pc[q] /\ buf'[q] = buf[q]
      /\ \A k \in Keys : rowLock'[k] = IF k = Key(p) THEN p ELSE rowLock[k]
      /\ buf'[p][Key(p)] = Egress(stock[Key(p)], l.qty)
      /\ \A k \in Keys : k # Key(p) => buf'[p][k] = buf[p][k]
  BY <1>1, <1>2, <1>5 DEF TypeOK
<1>7. /\ InTx(p)' /\ Moving(p)' /\ Lines(p)' = Lines(p) /\ Done(p)' = 1 /\ Table(p)' = Table(p)
      /\ \A i : HereOf(p, i)' = HereOf(p, i)
  BY <1>1, <1>3, <1>4, <1>6 DEF InTx, Steps, Moving, Lines, Done, Table, HereOf
<1>8. /\ OneAtATime!AfterLine(r, l, stock)[Key(p)] = Egress(stock[Key(p)], l.qty)
      /\ \A k \in Keys : k # Key(p) => OneAtATime!AfterLine(r, l, stock)[k] = stock[k]
  <2>1. stock[Key(p)] \in Row /\ OneAtATime!Opened(stock[Key(p)]) = stock[Key(p)]
    BY <1>2, <1>5, OpenedType
  <2>2. r.kind # "TRANSFER" /\ r.kind # "INGRESO" /\ r.kind # "AJUSTE" /\ r.kind # "BODEGA"
    BY <1>3
  <2>. HIDE DEF r, l
  <2>3. LET here == OneAtATime!Here(r, l)
            row == OneAtATime!Opened(stock[here])
            after == OneAtATime!AfterLine(r, l, stock)
        IN  /\ after[here] = Egress(row, l.qty)
            /\ \A k \in Keys : k # here => after[k] = stock[k]
    BY <1>5, <2>2, LineEffect
  <2>. QED  BY <1>5, <2>1, <2>3
<1>9. ASSUME NEW k \in Keys, rowLock'[k] = p PROVE buf'[p][k] = Reached(p, k)'
  <2>1. Reached(p, k)' = Table(p)[1][k]
    BY <1>1, <1>2, <1>6, <1>7 DEF Reached
  <2>2. CASE k = Key(p)
    BY <1>5, <1>6, <1>8, <2>1, <2>2
  <2>3. CASE k # Key(p)
    <3>1. rowLock[k] = p
      BY <1>6, <1>9, <2>3
    <3>2. buf[p][k] = Table(p)[0][k]
      BY <1>1, <1>2, <1>3, <1>4, <3>1 DEF Serial, Reached
    <3>. QED  BY <1>5, <1>6, <1>8, <2>1, <2>3, <3>2
  <2>. QED  BY <2>2, <2>3
<1>10. OneAtATime!Suffices(r, l, stock)
  BY <1>3 DEF OneAtATime!Suffices
<1>11. Serial(p)'
  <2>1. Accepted(req[p])
    BY <1>2 DEF Serial
  <2>2. \A i \in 1..1 : /\ rowLock'[HereOf(p, i)] = p
                        /\ OneAtATime!Suffices(r, Lines(p)[i], Table(p)[i - 1])
    BY <1>5, <1>6, <1>10
  <2>. QED  BY <1>1, <1>2, <1>3, <1>7, <1>9, <2>1, <2>2 DEF Serial
<1>12. \A q \in Procs \ {p} : \A k \in Keys : rowLock'[k] = q <=> rowLock[k] = q
  BY <1>1, <1>6, InventoryAssumption
<1>. QED  BY <1>1, <1>6, <1>11, <1>12, StepSerial

LEMMA InitSerialInv == Init => SerialInv
BY InventoryAssumption DEF Init, SerialInv, AbsentIsMissing, Serial, Moving, InTx, Steps, Missing

LEMMA BeginSerial ==
    ASSUME IInv, IInv', SerialInv, NEW p \in Procs, NEW r \in Requests, Begin(p, r)
    PROVE  SerialInv'
<1>1. /\ pc[p] = "idle" /\ ~InTx(p) /\ TypeOK /\ idx[p] = 1 /\ side[p] # "dest"
      /\ \A k \in Keys : rowLock[k] # p
      /\ UNCHANGED <<stock, rowLock, idx, side, buf>>
  BY DEF Begin, IInv, AtLine, Holding, InTx, Steps, tables
<1>2. /\ \A q \in Procs \ {p} : pc'[q] = pc[q] /\ req'[q] = req[q]
      /\ \/ /\ Accepted(r) /\ req'[p] = r
            /\ pc'[p] = IF r.kind \in UnlockedKinds THEN "check" ELSE "folio"
         \/ pc'[p] = "rejected"
  BY <1>1 DEF Begin, TypeOK
<1>3. Serial(p)'
  <2>1. CASE pc'[p] = "rejected"
    BY <2>1 DEF Serial, Moving, InTx, Steps
  <2>2. CASE /\ Accepted(r) /\ req'[p] = r
             /\ pc'[p] = IF r.kind \in UnlockedKinds THEN "check" ELSE "folio"
    <3>1. BadTransfer(r) => pc'[p] = "folio"
      BY <2>2 DEF BadTransfer, UnlockedKinds
    <3>2. pc'[p] # "commit" /\ Done(p)' = 0
      BY <1>1, <2>2 DEF Done
    <3>3. side'[p] # "dest" /\ \A k \in Keys : rowLock'[k] # p
      BY <1>1
    <3>4. 1..Done(p)' = {}
      BY <3>2
    <3>. QED  BY <2>2, <3>1, <3>3, <3>4 DEF Serial
  <2>. QED  BY <1>2, <2>1, <2>2
<1>. QED  BY <1>1, <1>2, <1>3, StepSerial

\* A transaction that ends without its writes.
LEMMA AbortSerial ==
    ASSUME IInv, IInv', SerialInv, NEW p \in Procs, End(p, "rejected"), UNCHANGED tables
    PROVE  SerialInv'
<1>1. /\ TypeOK /\ stock' = stock
  BY DEF IInv, tables
<1>2. pc'[p] = "rejected" /\ \A q \in Procs \ {p} : pc'[q] = pc[q]
  BY <1>1 DEF End, TypeOK
<1>3. \A q \in Procs \ {p} :
         /\ req'[q] = req[q] /\ idx'[q] = idx[q] /\ side'[q] = side[q] /\ buf'[q] = buf[q]
         /\ \A k \in Keys : rowLock'[k] = q <=> rowLock[k] = q
  BY <1>1, InventoryAssumption DEF End, TypeOK
<1>4. Serial(p)'
  BY <1>2 DEF Serial, Moving, InTx, Steps
<1>. QED  BY <1>1, <1>2, <1>3, <1>4, StepSerial

LEMMA CommitSerial ==
    ASSUME IInv, IInv', SerialInv, NEW p \in Procs, Commit(p)
    PROVE  SerialInv'
<1>1. /\ TypeOK /\ End(p, "committed")
      /\ stock' = [k \in Keys |-> IF rowLock[k] = p THEN buf[p][k] ELSE stock[k]]
  BY DEF IInv, Commit
<1>2. pc'[p] = "committed" /\ \A q \in Procs \ {p} : pc'[q] = pc[q]
  BY <1>1 DEF End, TypeOK
<1>3. \A q \in Procs \ {p} :
         /\ req'[q] = req[q] /\ idx'[q] = idx[q] /\ side'[q] = side[q] /\ buf'[q] = buf[q]
         /\ \A k \in Keys : rowLock'[k] = q <=> rowLock[k] = q
  BY <1>1, InventoryAssumption DEF End, TypeOK
<1>4. Serial(p)'
  BY <1>2 DEF Serial, Moving, InTx, Steps
<1>5. ASSUME NEW q \in Procs, q # p PROVE Serial(q)'
  <2>1. Serial(q) /\ \A k \in Keys : rowLock[k] = q => stock'[k] = stock[k]
    BY <1>1, <1>5 DEF SerialInv
  <2>. QED  BY <1>2, <1>3, <1>5, <2>1, SerialFrame
<1>6. AbsentIsMissing'
  <2>1. \A k \in Keys : rowLock[k] = p => buf[p][k].exists
    BY DEF IInv, Holding
  <2>. QED  BY <1>1, <2>1 DEF SerialInv, AbsentIsMissing
<1>. QED  BY <1>4, <1>5, <1>6 DEF SerialInv

LEMMA MoveOnSteps ==
    ASSUME IInv, IInv', SerialInv, NEW p \in Procs,
           \/ LockFolio(p) \/ CreateMovement(p) \/ CheckStock(p)
           \/ LockRow(p) /\ pc' = [pc EXCEPT ![p] = "upsert"] /\ UNCHANGED <<rowLock, buf>>
    PROVE  SerialInv'
<1>1. /\ pc[p] \in {"folio", "create", "check", "lock"} /\ InTx(p) /\ TypeOK /\ AtLine(p)
      /\ UNCHANGED <<stock, rowLock, req, idx, side, buf>>
  BY DEF LockFolio, CreateMovement, CheckStock, LockRow, tables, InTx, Steps, IInv
<1>2. \E s \in {"create", "deduct", "lock", "post", "check", "upsert"} :
         /\ pc' = [pc EXCEPT ![p] = s]
         /\ BadTransfer(req[p]) => s = "lock"
  <2>1. BadTransfer(req[p]) => /\ FirstStep(req[p].kind) = "lock"
                               /\ req[p].kind \notin EarlyKinds \cup UnlockedKinds
    BY DEF BadTransfer, FirstStep, LedgerKinds, TransitKinds, EarlyKinds, UnlockedKinds
  <2>2. FirstStep(req[p].kind) \in {"lock", "post", "check"}
    BY DEF FirstStep
  <2>3. CASE LockFolio(p)
    BY <2>1, <2>2, <2>3 DEF LockFolio
  <2>4. CASE CreateMovement(p)
    BY <1>1, <2>1, <2>2, <2>4 DEF CreateMovement
  <2>5. CASE CheckStock(p)
    BY <1>1, <2>1, <2>5 DEF CheckStock, AtLine
  <2>6. CASE LockRow(p) /\ pc' = [pc EXCEPT ![p] = "upsert"]
    BY <2>6 DEF LockRow, Refused
  <2>. QED  BY <2>3, <2>4, <2>5, <2>6
<1>3. /\ pc'[p] \in {"create", "deduct", "lock", "post", "check", "upsert"}
      /\ BadTransfer(req[p]) => pc'[p] = "lock"
      /\ \A q \in Procs \ {p} : pc'[q] = pc[q]
  BY <1>1, <1>2 DEF TypeOK
<1>. QED  BY <1>1, <1>3, MoveOn DEF Steps

LEMMA LockSerial ==
    ASSUME IInv, IInv', SerialInv, NEW p \in Procs, LockRow(p) \/ UpsertRow(p)
    PROVE  SerialInv'
<1>1. CASE LockRow(p) /\ pc' = [pc EXCEPT ![p] = "upsert"] /\ UNCHANGED <<rowLock, buf>>
  BY <1>1, MoveOnSteps
<1>2. CASE UpsertRow(p)
  <2>1. /\ pc[p] = "upsert" /\ rowLock[Key(p)] = NULL /\ pc' = [pc EXCEPT ![p] = "write"]
        /\ Take(p, Key(p), IF stock[Key(p)].exists THEN stock[Key(p)] ELSE Created)
        /\ UNCHANGED <<stock, req, idx, side>> /\ AtLine(p) /\ InTx(p) /\ TypeOK
    BY <1>2 DEF UpsertRow, tables, IInv, InTx, Steps
  <2>2. ~BadTransfer(req[p])
    BY <2>1 DEF AtLine
  <2>3. Key(p) \in Keys
    BY <2>1, CurrentLine
  <2>4. OneAtATime!Opened(stock[Key(p)]) =
           IF stock[Key(p)].exists THEN stock[Key(p)] ELSE Created
    <3>1. stock[Key(p)] \in Row /\ (stock[Key(p)].exists \/ stock[Key(p)] = Missing)
      BY <2>1, <2>3 DEF TypeOK, SerialInv, AbsentIsMissing
    <3>2. OneAtATime!Opened(Missing) = Created
      <4>1. Missing \in Row /\ Missing.qty = 0 /\ Missing.cost = 0
        BY DEF Missing, Row
      <4>2. /\ OneAtATime!Opened(Missing) \in Row /\ OneAtATime!Opened(Missing).exists = TRUE
            /\ OneAtATime!Opened(Missing).qty = 0 /\ OneAtATime!Opened(Missing).cost = 0
        BY <4>1, OpenedType DEF Row
      <4>. QED  BY <4>2 DEF Row, Created
    <3>. QED  BY <3>1, <3>2, OpenedType DEF Missing
  <2>. QED  BY <2>1, <2>2, <2>4, TakeSerial
<1>3. CASE LockRow(p) /\ Visible(p, Key(p)) /\ rowLock[Key(p)] \in {NULL, p}
           /\ Take(p, Key(p), stock[Key(p)]) /\ pc' = [pc EXCEPT ![p] = "write"]
  <2>1. /\ pc[p] = "lock" /\ ~Refused(p) /\ UNCHANGED <<stock, req, idx, side>>
        /\ AtLine(p) /\ InTx(p) /\ TypeOK
    BY <1>3 DEF LockRow, tables, IInv, InTx, Steps
  <2>2. ~BadTransfer(req[p])
    BY <2>1 DEF Refused
  <2>3. Key(p) \in Keys
    BY <2>1, CurrentLine
  <2>4. Take(p, Key(p), OneAtATime!Opened(stock[Key(p)]))
    <3>1. CASE rowLock[Key(p)] = p
      BY <1>3, <3>1 DEF Take
    <3>2. CASE rowLock[Key(p)] # p
      <4>1. stock[Key(p)] \in Row /\ stock[Key(p)].exists
        BY <1>3, <2>1, <2>3, <3>2 DEF Visible, TypeOK
      <4>. QED  BY <1>3, <4>1, OpenedType
    <3>. QED  BY <3>1, <3>2
  <2>. QED  BY <1>3, <2>1, <2>2, <2>4, TakeSerial
<1>. QED  BY <1>1, <1>2, <1>3 DEF LockRow

\* A reception in transit moves no stock.
LEMMA PostSerial ==
    ASSUME IInv, IInv', SerialInv, NEW p \in Procs, PostTransitLine(p)
    PROVE  SerialInv'
<1>1. /\ pc[p] = "post" /\ InTx(p) /\ TypeOK /\ req[p].kind \in TransitKinds /\ NextLine(p)
      /\ UNCHANGED <<stock, rowLock, req, buf>>
  BY DEF PostTransitLine, tables, InTx, Steps, IInv, AtLine
<1>2. /\ \A q \in Procs \ {p} : pc'[q] = pc[q] /\ idx'[q] = idx[q] /\ side'[q] = side[q]
  BY <1>1 DEF NextLine, TypeOK
<1>3. Serial(p)'
  BY <1>1 DEF SerialInv, Serial, Moving, BadTransfer, TransitKinds
<1>. QED  BY <1>1, <1>2, <1>3, StepSerial

LEMMA NextSerialInv == IInv /\ IInv' /\ SerialInv /\ [Next]_vars => SerialInv'
<1>. SUFFICES ASSUME IInv, IInv', SerialInv, [Next]_vars PROVE SerialInv'
  OBVIOUS
<1>1. ASSUME NEW p \in Procs, NEW r \in Requests, Begin(p, r) PROVE SerialInv'
  BY <1>1, BeginSerial
<1>2. ASSUME NEW p \in Procs, Step(p) PROVE SerialInv'
  <2>1. CASE LockFolio(p) \/ CreateMovement(p) \/ CheckStock(p)
    BY <2>1, MoveOnSteps
  <2>2. CASE LockRow(p) \/ UpsertRow(p)
    BY <2>2, LockSerial
  <2>3. CASE WriteIngreso(p) \/ WriteSalida(p) \/ WriteAjuste(p) \/ WriteReception(p)
    BY <2>3, OneRowSerial
  <2>4. CASE WriteTransferOut(p)
    BY <2>4, TransferOutSerial
  <2>5. CASE WriteTransferIn(p)
    BY <2>5, TransferInSerial
  <2>6. CASE PostTransitLine(p)
    BY <2>6, PostSerial
  <2>7. CASE Deduct(p)
    BY <2>7, DeductSerial
  <2>8. CASE Commit(p)
    BY <2>8, CommitSerial
  <2>9. CASE Reject(p)
    BY <2>9, AbortSerial DEF Reject
  <2>. QED  BY <1>2, <2>1, <2>2, <2>3, <2>4, <2>5, <2>6, <2>7, <2>8, <2>9 DEF Step
<1>3. ASSUME NEW p \in Procs, Rollback(p) \/ DeadlockAbort(p) PROVE SerialInv'
  BY <1>3, AbortSerial DEF Rollback, DeadlockAbort
<1>4. ASSUME UNCHANGED vars PROVE SerialInv'
  <2>1. ASSUME NEW q \in Procs PROVE Serial(q)'
    <3>1. Serial(q)
      BY DEF SerialInv
    <3>. QED  BY <1>4, <3>1, SerialFrame DEF vars
  <2>. QED  BY <1>4, <2>1 DEF vars, SerialInv, AbsentIsMissing
<1>. QED  BY <1>1, <1>2, <1>3, <1>4 DEF Next, Quiescent

-----------------------------------------------------------------------------

\* A commit is the whole movement at once; nothing else touches a committed row.
LEMMA CommitMoves ==
    ASSUME IInv, SerialInv, NEW p \in Procs, Commit(p)
    PROVE  OneAtATime!Next \/ stock' = stock
<1>1. /\ pc[p] = "commit" /\ InTx(p) /\ TypeOK /\ Serial(p) /\ AtLine(p) /\ Holding(p)
      /\ req[p] \in Requests /\ side[p] # "dest"
      /\ stock' = [k \in Keys |-> IF rowLock[k] = p THEN buf[p][k] ELSE stock[k]]
  BY DEF Commit, IInv, InTx, Steps, SerialInv, AtLine
<1>2. CASE req[p].kind \in TransitKinds
  <2>1. \A k \in Keys : rowLock[k] # p
    BY <1>1, <1>2 DEF Holding
  <2>2. stock = [k \in Keys |-> stock[k]]
    BY <1>1 DEF TypeOK
  <2>. QED  BY <1>1, <2>1, <2>2
<1>3. CASE req[p].kind \notin TransitKinds
  <2>1. Accepted(req[p]) /\ ~BadTransfer(req[p]) /\ Moving(p)
    BY <1>1, <1>3 DEF Serial, Moving
  <2>2. /\ Done(p) = Len(Lines(p)) /\ Lines(p) = req[p].lines /\ Len(Lines(p)) \in Nat
        /\ stock \in [Keys -> Row]
        /\ Table(p)[Len(Lines(p))] \in [Keys -> Row]
    <3>1. Done(p) = Len(Lines(p))
      BY <1>1 DEF Done
    <3>. QED  BY <2>1, <3>1, MovingFacts
  <2>3. \A n \in 1..Len(req[p].lines) :
           OneAtATime!Suffices(req[p], req[p].lines[n], OneAtATime!After(req[p], stock)[n - 1])
    BY <1>1, <2>1, <2>2 DEF Serial, Table
  <2>4. ASSUME NEW k \in Keys PROVE stock'[k] = Table(p)[Len(Lines(p))][k]
    <3>1. CASE rowLock[k] = p
      <4>1. buf[p][k] = Table(p)[Done(p)][k]
        BY <1>1, <2>1, <3>1 DEF Serial, Reached
      <4>. QED  BY <1>1, <2>2, <3>1, <4>1
    <3>2. CASE rowLock[k] # p
      <4>1. Done(p) \in 0..Done(p)
        BY <2>2
      <4>2. \A j \in Keys : rowLock[j] # p => Table(p)[Done(p)][j] = stock[j]
        BY <1>1, <2>1, <2>2, <4>1, TableLocal
      <4>. QED  BY <1>1, <2>2, <3>2, <4>2
    <3>. QED  BY <3>1, <3>2
  <2>5. stock' = Table(p)[Len(Lines(p))]
    <3>1. stock' = [k \in Keys |-> stock'[k]]
      BY <1>1
    <3>2. Table(p)[Len(Lines(p))] = [k \in Keys |-> Table(p)[Len(Lines(p))][k]]
      BY <2>2
    <3>. QED  BY <2>4, <3>1, <3>2
  <2>6. OneAtATime!Move(req[p])
    BY <2>2, <2>3, <2>5 DEF OneAtATime!Move, Table
  <2>. QED  BY <1>1, <2>1, <2>6 DEF OneAtATime!Next
<1>. QED  BY <1>2, <1>3

LEMMA StepMoves == IInv /\ SerialInv /\ [Next]_vars => [OneAtATime!Next]_stock
<1>. SUFFICES ASSUME IInv, SerialInv, [Next]_vars PROVE OneAtATime!Next \/ stock' = stock
  OBVIOUS
<1>1. ASSUME NEW p \in Procs, Commit(p) PROVE OneAtATime!Next \/ stock' = stock
  BY <1>1, CommitMoves
<1>2. ASSUME NEW p \in Procs, NEW r \in Requests, Begin(p, r) PROVE stock' = stock
  BY <1>2 DEF Begin, tables
<1>3. ASSUME NEW p \in Procs, Step(p), ~Commit(p) PROVE stock' = stock
  BY <1>3 DEF Step, LockFolio, CreateMovement, LockRow, UpsertRow, WriteIngreso, WriteSalida,
              WriteAjuste, WriteTransferOut, WriteTransferIn, WriteReception, PostTransitLine,
              CheckStock, Deduct, Reject, tables
<1>4. ASSUME NEW p \in Procs, Rollback(p) \/ DeadlockAbort(p) PROVE stock' = stock
  BY <1>4 DEF Rollback, DeadlockAbort, tables
<1>5. UNCHANGED vars => stock' = stock
  BY DEF vars
<1>. QED  BY <1>1, <1>2, <1>3, <1>4, <1>5 DEF Next, Quiescent

\* However the statements of any number of requests interleave, the committed rows of
\* Stock, quantities and average costs, change as if one movement ran after another,
\* each on what the one before it left.
THEOREM MovementsAreSerializable == Spec => ImplementsSequentialStock
<1>1. Init => OneAtATime!Init
  BY DEF Init, OneAtATime!Init
<1>2. IInv /\ IInv' /\ SerialInv /\ [Next]_vars => SerialInv'
  BY NextSerialInv
<1>3. Spec => []SerialInv
  BY <1>2, InitSerialInv, SpecIInv, PTL DEF Spec
<1>. QED
  BY <1>1, <1>3, StepMoves, SpecIInv, PTL DEF Spec, ImplementsSequentialStock, OneAtATime!Spec
==============================================================================
