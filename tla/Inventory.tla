------------------------------ MODULE Inventory ------------------------------
(***************************************************************************)
(* The five writers of the Stock table and the movement ledger behind the  *)
(* Kardex, one action per database statement of a transaction:             *)
(*   MovementsService.create      INGRESO, SALIDA, AJUSTE, TRANSFER        *)
(*   OrdersService.receiveOrder   BODEGA, GARITA, ACTIVO                   *)
(*   FuelService.create           FUEL                                     *)
(*   WorkOrdersService.consumeItem  CONSUME                                *)
(* PostgreSQL runs them at READ COMMITTED: a transaction sees committed    *)
(* rows and its own writes; a row it locked or wrote stays locked until it *)
(* ends; nothing it wrote shows before it commits.                         *)
(***************************************************************************)
EXTENDS StockMath, Sequences

CONSTANTS
    Procs,          \* HTTP requests in flight, one transaction each
    Items,
    Warehouses,
    Months,         \* values of the YYYYMM part of a movement folio
    Requests,       \* what a client may ask for
    OpeningStock,   \* the Stock table the system starts from
    MaxCost,        \* no unit cost of a request or of the opening stock exceeds it
    NULL            \* nobody

Keys == Items \X Warehouses

LedgerKinds == {"INGRESO", "SALIDA", "AJUSTE", "TRANSFER", "BODEGA"}
TransitKinds == {"GARITA", "ACTIVO"}     \* movement rows that leave Stock alone
UnlockedKinds == {"FUEL", "CONSUME"}     \* check first, decrement later
Kinds == LedgerKinds \cup TransitKinds \cup UnlockedKinds

\* Wrong on purpose: a fuel dispatch records its movement first as well.
EarlyAndFuelKinds == TransitKinds \cup {"BODEGA", "CONSUME", "FUEL"}

\* Create their movement row before they touch Stock; the others do it last.
EarlyKinds == TransitKinds \cup {"BODEGA", "CONSUME"}

Row == [exists : BOOLEAN, qty : Int, cost : Int]
Missing == [exists |-> FALSE, qty |-> 0, cost |-> 0]
Created == [exists |-> TRUE, qty |-> 0, cost |-> 0]

Line == [item : Items, qty : Nat, cost : Nat]
Request == [kind : Kinds, wh : Warehouses, target : Warehouses \cup {NULL},
            month : Months, lines : Seq(Line)]

\* What the lines of one movement do to the balance of a key: add n, or, for
\* an AJUSTE, set it to n.
Effect == [set : BOOLEAN, n : Int]
NoEffect == [set |-> FALSE, n |-> 0]
Apply(e, bal) == IF e.set THEN e.n ELSE bal + e.n

CreateKinds == {"INGRESO", "SALIDA", "AJUSTE", "TRANSFER"}

\* Requests have passed their DTO's validation: only MovementsService.create
\* may still be asked for a zero quantity or for no lines. A fuel dispatch and a
\* consumption are of one item.
ASSUME InventoryAssumption ==
    /\ NULL \notin Procs
    /\ Requests \subseteq Request
    /\ \A r \in Requests : r.kind \notin CreateKinds =>
          /\ r.lines # << >>
          /\ \A i \in 1..Len(r.lines) : r.lines[i].qty > 0
    /\ \A r \in Requests : r.kind \in UnlockedKinds => Len(r.lines) = 1
    /\ \A r \in Requests : \A i \in 1..Len(r.lines) : r.lines[i].cost <= MaxCost
    /\ MaxCost \in Nat
    /\ OpeningStock \in [Keys -> [exists : BOOLEAN, qty : Nat, cost : 0..MaxCost]]
    /\ \A k \in Keys : OpeningStock[k].exists \/ OpeningStock[k] = Missing

VARIABLES
    stock,      \* committed rows of table Stock
    ledger,     \* what the committed movements meant to move stock add up to
    made,       \* who created a movement row, in the order of its createdAt
    rowLock,    \* FOR UPDATE / UPDATE lock of each Stock row
    folioLock,  \* pg_advisory_xact_lock(folio_MOV_<month>)
    pc, req, idx, side,  \* per request: next statement, dto, line, leg
    buf,        \* the rows a transaction holds, as it sees them
    posted      \* effect of the movement lines it has prepared or committed

vars == <<stock, ledger, made, rowLock, folioLock, pc, req, idx, side, buf, posted>>
tables == <<stock, ledger, made>>

Steps == {"folio", "create", "lock", "upsert", "write", "check", "deduct", "post", "commit"}
Outcomes == {"committed", "rejected"}

InTx(p) == pc[p] \in Steps
Lines(p) == req[p].lines
Cur(p) == Lines(p)[idx[p]]
Key(p) == <<Cur(p).item, IF side[p] = "dest" THEN req[p].target ELSE req[p].wh>>
OriginKey(p) == <<Cur(p).item, req[p].wh>>

\* A row the transaction can see: a committed one, or one it holds.
Visible(p, k) == stock[k].exists \/ rowLock[k] = p

FirstStep(kind) ==
    CASE kind \in LedgerKinds -> "lock"
      [] kind \in TransitKinds -> "post"
      [] OTHER -> "check"

NoRequest == [kind |-> "INGRESO", wh |-> NULL, target |-> NULL, month |-> NULL,
              lines |-> << >>]

Init ==
    /\ stock = OpeningStock
    /\ ledger = [k \in Keys |-> OpeningStock[k].qty]
    /\ made = << >>
    /\ rowLock = [k \in Keys |-> NULL]
    /\ folioLock = [m \in Months |-> NULL]
    /\ pc = [p \in Procs |-> "idle"]
    /\ req = [p \in Procs |-> NoRequest]
    /\ idx = [p \in Procs |-> 1]
    /\ side = [p \in Procs |-> "origin"]
    /\ buf = [p \in Procs |-> [k \in Keys |-> Missing]]
    /\ posted = [p \in Procs |-> [k \in Keys |-> NoEffect]]


-----------------------------------------------------------------------------
(* Transaction plumbing *)

\* Wrong on purpose: the advisory lock outlives the transaction.
EndKeepingFolio(p, outcome) ==
    /\ pc' = [pc EXCEPT ![p] = outcome]
    /\ rowLock' = [k \in Keys |-> IF rowLock[k] = p THEN NULL ELSE rowLock[k]]
    /\ req' = [req EXCEPT ![p] = NoRequest]
    /\ idx' = [idx EXCEPT ![p] = 1]
    /\ side' = [side EXCEPT ![p] = "origin"]
    /\ buf' = [buf EXCEPT ![p] = [k \in Keys |-> Missing]]
    /\ posted' = IF outcome = "committed" THEN posted
                 ELSE [posted EXCEPT ![p] = [k \in Keys |-> NoEffect]]
    /\ UNCHANGED folioLock

End(p, outcome) ==
    /\ pc' = [pc EXCEPT ![p] = outcome]
    /\ rowLock' = [k \in Keys |-> IF rowLock[k] = p THEN NULL ELSE rowLock[k]]
    /\ folioLock' = [m \in Months |-> IF folioLock[m] = p THEN NULL ELSE folioLock[m]]
    /\ req' = [req EXCEPT ![p] = NoRequest]
    /\ idx' = [idx EXCEPT ![p] = 1]
    /\ side' = [side EXCEPT ![p] = "origin"]
    /\ buf' = [buf EXCEPT ![p] = [k \in Keys |-> Missing]]
    /\ posted' = IF outcome = "committed" THEN posted
                 ELSE [posted EXCEPT ![p] = [k \in Keys |-> NoEffect]]

\* The transaction gets the lock of row k, whose visible content is row.
Take(p, k, row) ==
    /\ rowLock' = [rowLock EXCEPT ![k] = p]
    /\ buf' = IF rowLock[k] = p THEN buf ELSE [buf EXCEPT ![p][k] = row]

\* tx.stock.update of the locked row, and the movement line that explains it.
Put(p, row, effect) ==
    /\ buf' = [buf EXCEPT ![p][Key(p)] = row]
    /\ posted' = [posted EXCEPT ![p][Key(p)] = effect]

Added(p, n) == [posted[p][Key(p)] EXCEPT !.n = @ + n]

\* Wrong on purpose: walks the lines backwards.
PreviousLine(p) ==
    /\ idx' = [idx EXCEPT ![p] = @ - 1]
    /\ side' = [side EXCEPT ![p] = "origin"]
    /\ pc' = [pc EXCEPT ![p] = IF idx[p] < Len(Lines(p))
                               THEN FirstStep(req[p].kind) ELSE "commit"]

NextLine(p) ==
    /\ idx' = [idx EXCEPT ![p] = @ + 1]
    /\ side' = [side EXCEPT ![p] = "origin"]
    /\ pc' = [pc EXCEPT ![p] = IF idx[p] < Len(Lines(p))
                               THEN FirstStep(req[p].kind) ELSE "commit"]

\* Where a handler throws and its transaction rolls back.
BadTransfer(r) == r.kind = "TRANSFER" /\ r.target \in {NULL, r.wh}
\* Wrong on purpose: only a transfer looks at what is left.
RefusedUnchecked(p) ==
    \/ /\ pc[p] = "lock"
       /\ \/ BadTransfer(req[p])
          \/ req[p].kind = "TRANSFER" /\ side[p] = "origin" /\ ~Visible(p, Key(p))
    \/ /\ pc[p] = "write"
       /\ req[p].kind = "TRANSFER" /\ side[p] = "origin"
       /\ buf[p][Key(p)].qty < Cur(p).qty
    \/ /\ pc[p] = "check"
       /\ stock[Key(p)].qty < Cur(p).qty

Refused(p) ==
    \/ /\ pc[p] = "lock"
       /\ \/ BadTransfer(req[p])
          \/ req[p].kind = "TRANSFER" /\ side[p] = "origin" /\ ~Visible(p, Key(p))
    \/ /\ pc[p] = "write"
       /\ req[p].kind \in {"SALIDA", "TRANSFER"} /\ side[p] = "origin"
       /\ buf[p][Key(p)].qty < Cur(p).qty
    \/ /\ pc[p] = "check"
       /\ stock[Key(p)].qty < Cur(p).qty

-----------------------------------------------------------------------------
(* Requests and their first statements *)

\* The checks create makes before its transaction.
Accepted(r) ==
    /\ r.lines # << >>
    /\ \A i \in 1..Len(r.lines) : r.lines[i].qty > 0 \/ r.kind = "AJUSTE"

Begin(p, r) ==
    /\ pc[p] = "idle"
    /\ IF Accepted(r)
       THEN /\ req' = [req EXCEPT ![p] = r]
            /\ pc' = [pc EXCEPT ![p] = IF r.kind \in UnlockedKinds THEN "check" ELSE "folio"]
       ELSE /\ pc' = [pc EXCEPT ![p] = "rejected"]
            /\ UNCHANGED req
    /\ UNCHANGED <<tables, rowLock, folioLock, idx, side, buf, posted>>

\* Wrong on purpose: everybody gets the advisory lock.
LockFolioShared(p) ==
    /\ pc[p] = "folio"
    /\ folioLock' = [folioLock EXCEPT ![req[p].month] = p]
    /\ pc' = [pc EXCEPT ![p] = IF req[p].kind \in EarlyKinds THEN "create"
                               ELSE FirstStep(req[p].kind)]
    /\ UNCHANGED <<tables, rowLock, req, idx, side, buf, posted>>

\* SELECT pg_advisory_xact_lock: waits for the holder's transaction to end.
LockFolio(p) ==
    /\ pc[p] = "folio"
    /\ folioLock[req[p].month] = NULL
    /\ folioLock' = [folioLock EXCEPT ![req[p].month] = p]
    /\ pc' = [pc EXCEPT ![p] = IF req[p].kind \in EarlyKinds THEN "create"
                               ELSE FirstStep(req[p].kind)]
    /\ UNCHANGED <<tables, rowLock, req, idx, side, buf, posted>>

\* Wrong on purpose: a SELECT without FOR UPDATE before the row is written.
LockRowNot(p) ==
    /\ pc[p] = "lock" /\ ~Refused(p)
    /\ \/ /\ Visible(p, Key(p))
          /\ Take(p, Key(p), stock[Key(p)])
          /\ pc' = [pc EXCEPT ![p] = "write"]
       \/ /\ ~Visible(p, Key(p))
          /\ pc' = [pc EXCEPT ![p] = "upsert"]
          /\ UNCHANGED <<rowLock, buf>>
    /\ UNCHANGED <<tables, folioLock, req, idx, side, posted>>

\* tx.warehouseMovement.create ahead of the Stock statements: it stamps createdAt.
CreateMovement(p) ==
    /\ pc[p] = "create"
    /\ made' = Append(made, p)
    /\ pc' = [pc EXCEPT ![p] = IF req[p].kind \in UnlockedKinds THEN "deduct"
                               ELSE FirstStep(req[p].kind)]
    /\ UNCHANGED <<stock, ledger, rowLock, folioLock, req, idx, side, buf, posted>>

\* SELECT ... FOR UPDATE on the Stock row of the current line and leg: waits
\* while another transaction holds the row; locks nothing when none is visible.
LockRow(p) ==
    /\ pc[p] = "lock" /\ ~Refused(p)
    /\ \/ /\ Visible(p, Key(p))
          /\ rowLock[Key(p)] \in {NULL, p}
          /\ Take(p, Key(p), stock[Key(p)])
          /\ pc' = [pc EXCEPT ![p] = "write"]
       \/ /\ ~Visible(p, Key(p))
          /\ pc' = [pc EXCEPT ![p] = "upsert"]
          /\ UNCHANGED <<rowLock, buf>>
    /\ UNCHANGED <<tables, folioLock, req, idx, side, posted>>

\* Wrong on purpose: takes the row as its insert left it, without the second
\* FOR UPDATE.
UpsertRowBlind(p) ==
    /\ pc[p] = "upsert"
    /\ rowLock[Key(p)] = NULL
    /\ Take(p, Key(p), Created)
    /\ pc' = [pc EXCEPT ![p] = "write"]
    /\ UNCHANGED <<tables, folioLock, req, idx, side, posted>>

\* stock.upsert with an empty update, and the FOR UPDATE that follows it. The
\* unique key makes it wait for a transaction that is inserting the same row.
UpsertRow(p) ==
    /\ pc[p] = "upsert"
    /\ rowLock[Key(p)] = NULL
    /\ Take(p, Key(p), IF stock[Key(p)].exists THEN stock[Key(p)] ELSE Created)
    /\ pc' = [pc EXCEPT ![p] = "write"]
    /\ UNCHANGED <<tables, folioLock, req, idx, side, posted>>

-----------------------------------------------------------------------------
(* The locked writers: MovementsService.create and the BODEGA reception *)

Writing(p, kind, leg) ==
    pc[p] = "write" /\ req[p].kind = kind /\ side[p] = leg /\ ~Refused(p)

WriteIngreso(p) ==
    /\ Writing(p, "INGRESO", "origin")
    /\ Put(p, Ingress(buf[p][Key(p)], Cur(p).qty, Cur(p).cost), Added(p, Cur(p).qty))
    /\ NextLine(p)
    /\ UNCHANGED <<tables, rowLock, folioLock, req>>

WriteSalida(p) ==
    /\ Writing(p, "SALIDA", "origin")
    /\ Put(p, Egress(buf[p][Key(p)], Cur(p).qty), Added(p, -Cur(p).qty))
    /\ NextLine(p)
    /\ UNCHANGED <<tables, rowLock, folioLock, req>>

WriteAjuste(p) ==
    /\ Writing(p, "AJUSTE", "origin")
    /\ Put(p, Adjust(buf[p][Key(p)], Cur(p).qty, Cur(p).cost),
           [set |-> TRUE, n |-> Cur(p).qty])
    /\ NextLine(p)
    /\ UNCHANGED <<tables, rowLock, folioLock, req>>

WriteTransferOut(p) ==
    /\ Writing(p, "TRANSFER", "origin")
    /\ Put(p, Egress(buf[p][Key(p)], Cur(p).qty), Added(p, -Cur(p).qty))
    /\ side' = [side EXCEPT ![p] = "dest"]
    /\ pc' = [pc EXCEPT ![p] = "lock"]
    /\ UNCHANGED <<tables, rowLock, folioLock, req, idx>>

\* What enters the destination is costed at the origin's average.
WriteTransferIn(p) ==
    /\ Writing(p, "TRANSFER", "dest")
    /\ Put(p, Blend(buf[p][Key(p)], Cur(p).qty, buf[p][OriginKey(p)].cost),
           Added(p, Cur(p).qty))
    /\ NextLine(p)
    /\ UNCHANGED <<tables, rowLock, folioLock, req>>

WriteReception(p) ==
    /\ Writing(p, "BODEGA", "origin")
    /\ Put(p, Blend(buf[p][Key(p)], Cur(p).qty, Cur(p).cost), Added(p, Cur(p).qty))
    /\ NextLine(p)
    /\ UNCHANGED <<tables, rowLock, folioLock, req>>

-----------------------------------------------------------------------------
(* Receptions that only record a movement *)

\* GARITA_TRANSITO records an INGRESO, ACTIVO_DIRECTO a SALIDA, of every order
\* line; neither touches Stock.
PostTransitLine(p) ==
    /\ pc[p] = "post"
    /\ posted' = [posted EXCEPT ![p][Key(p)] =
                    Added(p, IF req[p].kind = "GARITA" THEN Cur(p).qty ELSE -Cur(p).qty)]
    /\ NextLine(p)
    /\ UNCHANGED <<tables, rowLock, folioLock, req, buf>>

-----------------------------------------------------------------------------
(* The unlocked writers: fuel dispatch and work-order consumption *)

\* stock.findUnique: an ordinary read, no lock.
CheckStock(p) ==
    /\ pc[p] = "check" /\ ~Refused(p)
    /\ pc' = [pc EXCEPT ![p] = IF req[p].kind \in EarlyKinds THEN "create" ELSE "deduct"]
    /\ UNCHANGED <<tables, rowLock, folioLock, req, idx, side, buf, posted>>

\* Wrong on purpose: the decrement does not wait for the row's holder.
DeductAtOnce(p) ==
    /\ pc[p] = "deduct"
    /\ rowLock' = [rowLock EXCEPT ![Key(p)] = p]
    /\ Put(p, Egress(stock[Key(p)], Cur(p).qty), Added(p, -Cur(p).qty))
    /\ pc' = [pc EXCEPT ![p] = "commit"]
    /\ UNCHANGED <<tables, folioLock, req, idx, side>>

\* stock.update with a decrement: one UPDATE, relative to the committed row.
Deduct(p) ==
    /\ pc[p] = "deduct"
    /\ rowLock[Key(p)] = NULL
    /\ rowLock' = [rowLock EXCEPT ![Key(p)] = p]
    /\ Put(p, Egress(stock[Key(p)], Cur(p).qty), Added(p, -Cur(p).qty))
    /\ pc' = [pc EXCEPT ![p] = "commit"]
    /\ UNCHANGED <<tables, folioLock, req, idx, side>>

-----------------------------------------------------------------------------
(* Ends of a transaction *)

\* A movement row created last is stamped here: until then nobody else writes
\* the Stock rows it is about.
Commit(p) ==
    /\ pc[p] = "commit"
    /\ stock' = [k \in Keys |-> IF rowLock[k] = p THEN buf[p][k] ELSE stock[k]]
    /\ made' = IF req[p].kind \in EarlyKinds THEN made ELSE Append(made, p)
    /\ ledger' = IF req[p].kind \in TransitKinds THEN ledger
                 ELSE [k \in Keys |-> Apply(posted[p][k], ledger[k])]
    /\ End(p, "committed")

Reject(p) ==
    /\ Refused(p)
    /\ End(p, "rejected")
    /\ UNCHANGED tables

\* A lost connection, the 5 s limit of an interactive transaction, a folio that
\* is already taken (P2002): the transaction rolls back between two statements.
Rollback(p) ==
    /\ InTx(p)
    /\ End(p, "rejected")
    /\ UNCHANGED tables

\* q holds the lock the next statement of p needs.
WaitsFor(p, q) ==
    /\ p # q
    /\ \/ pc[p] = "folio" /\ folioLock[req[p].month] = q
       \/ pc[p] = "lock" /\ ~Refused(p) /\ Visible(p, Key(p)) /\ rowLock[Key(p)] = q
       \/ pc[p] \in {"upsert", "deduct"} /\ rowLock[Key(p)] = q

WaitCycle(S) ==
    /\ S # {}
    /\ \A p \in S : \E q \in S : WaitsFor(p, q)
    /\ \A q \in S : \E p \in S : WaitsFor(p, q)

\* PostgreSQL's deadlock detector rolls one transaction of a cycle back.
DeadlockAbort(p) ==
    /\ \E S \in SUBSET Procs : p \in S /\ WaitCycle(S)
    /\ End(p, "rejected")
    /\ UNCHANGED tables

Step(p) ==
    \/ LockFolio(p) \/ CreateMovement(p) \/ LockRow(p) \/ UpsertRow(p)
    \/ WriteIngreso(p) \/ WriteSalida(p) \/ WriteAjuste(p)
    \/ WriteTransferOut(p) \/ WriteTransferIn(p) \/ WriteReception(p)
    \/ PostTransitLine(p) \/ CheckStock(p) \/ Deduct(p)
    \/ Commit(p) \/ Reject(p)

\* getKardex's last balance of an item in a warehouse: the committed movements,
\* the oldest first.
Kardex(k) ==
    LET balance[i \in 0..Len(made)] ==
            IF i = 0 THEN OpeningStock[k].qty
            ELSE IF pc[made[i]] = "committed"
                 THEN Apply(posted[made[i]][k], balance[i - 1])
                 ELSE balance[i - 1]
    IN balance[Len(made)]

\* Every request has been answered.
Quiescent ==
    /\ \A p \in Procs : pc[p] \in Outcomes
    /\ UNCHANGED vars

Next ==
    \/ \E p \in Procs : \/ \E r \in Requests : Begin(p, r)
                        \/ Step(p)
                        \/ Rollback(p)
                        \/ DeadlockAbort(p)
    \/ Quiescent

Spec == Init /\ [][Next]_vars

\* The event loop runs every transaction that can run, the database grants a
\* free lock to whoever waits for it, and its detector breaks wait cycles.
Fairness == \A p \in Procs : WF_vars(Step(p)) /\ WF_vars(DeadlockAbort(p))
FairSpec == Spec /\ Fairness

-----------------------------------------------------------------------------
(* Properties *)

\* Every variable ranges over what the tables and the handlers can hold.
TypeOK ==
    /\ stock \in [Keys -> Row]
    /\ ledger \in [Keys -> Int]
    /\ made \in Seq(Procs)
    /\ rowLock \in [Keys -> Procs \cup {NULL}]
    /\ folioLock \in [Months -> Procs \cup {NULL}]
    /\ pc \in [Procs -> {"idle"} \cup Steps \cup Outcomes]
    /\ req \in [Procs -> Requests \cup {NoRequest}]
    /\ idx \in [Procs -> Nat \ {0}]
    /\ side \in [Procs -> {"origin", "dest"}]
    /\ buf \in [Procs -> [Keys -> Row]]
    /\ posted \in [Procs -> [Keys -> Effect]]

\* No movement is lost and none is applied twice, whatever the interleaving of
\* locked and unlocked writers: each committed row is what the committed
\* movements that are meant to move stock add up to.
StockMatchesLedger == \A k \in Keys : stock[k].qty = ledger[k]

\* getKardex's running balance ends at the quantity of the Stock row: the order
\* of createdAt is the order in which the movements reached the row.
KardexMatchesStock == \A k \in Keys : Kardex(k) = stock[k].qty

\* A committed quantity is never below zero.
StockNeverNegative == \A k \in Keys : stock[k].qty >= 0

\* The average cost of a row stays between zero and the highest unit cost that
\* ever entered the system, through every blend, transfer and adjustment.
PmpWithinReceivedCosts == \A k \in Keys : stock[k].cost \in 0..MaxCost

\* Transactions never wait for each other in a circle.
NoWaitCycle == ~ \E S \in SUBSET Procs : WaitCycle(S)

\* A request that entered its transaction is answered.
EveryRequestEnds == \A p \in Procs : InTx(p) ~> pc[p] \in Outcomes
==============================================================================
