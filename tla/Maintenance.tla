---------------------------- MODULE Maintenance ----------------------------
(* Work orders (OT) and the machines they stop: WorkOrdersService.create,    *)
(* update, consumeItem and complete, the meter a fuel dispatch raises, and   *)
(* the changes AssetsService makes by hand.  Every handler first reads the   *)
(* order or the asset outside its transaction and decides on what it read.   *)
(* The stock a consumption takes is in Inventory; the row lock that complete *)
(* keeps on its order from the update to the commit is `Locked'.             *)
EXTENDS Naturals, FiniteSets

CONSTANTS
    Assets,
    Orders,       \* identities of work orders
    Calls,        \* requests served at once
    Costs,        \* costs of one consumption
    Readings,     \* hour meter readings; 0 stands for none given
    MaxCalls,     \* bound: requests that read something they act on
    MaxEdits,     \* bound: changes by hand
    NULL

ASSUME ReadingsAssumption ==
    Readings \subseteq Nat /\ 1 \in Readings /\ Costs \subseteq Nat
ASSUME OrdersAssumption == IsFiniteSet(Orders)

WorkOrderStatus == {"ABIERTA", "EN_PROGRESO", "ESPERA_REPUESTOS", "COMPLETADA", "CANCELADA"}
Active == {"ABIERTA", "EN_PROGRESO", "ESPERA_REPUESTOS"}
WorkOrderPriority == {"MEDIA", "CRITICA"}
WorkOrderType == {"PREVENTIVO", "CORRECTIVO"}
OperationalStatus == {"OPERATIVO", "EN_MANTENCION", "DETENIDO", "DADO_DE_BAJA"}

ASSUME NullAssumption ==
    NULL \notin WorkOrderStatus /\ NULL \notin WorkOrderPriority /\ NULL \notin Readings

\* BAJA is treated as MEDIA, ALTA as CRITICA, EMERGENCIA as CORRECTIVO, PREDICTIVO as PREVENTIVO.
StopsAsset(req) == req.priority = "CRITICA" \/ req.type = "CORRECTIVO"

CreateCall == [op: {"create"}, asset: Assets, priority: WorkOrderPriority, type: WorkOrderType]
UpdateCall == [op: {"update"}, order: Orders, status: WorkOrderStatus \cup {NULL},
               priority: WorkOrderPriority \cup {NULL}]
ConsumeCall == [op: {"consume"}, order: Orders, cost: Costs]
CompleteCall == [op: {"complete"}, order: Orders, hours: Readings]
FuelCall == [op: {"fuel"}, asset: Assets, hours: Readings]
OrderCall == UpdateCall \cup ConsumeCall \cup CompleteCall

VARIABLES
    asset,        \* operationalStatus and currentHourmeter of each asset
    order,        \* the work orders; status NULL is none
    items,        \* what the lines of each order cost together
    call,         \* requests being served, with what they read
    begun, edits,
    excused       \* history: assets whose status was set, or whose orders changed, past complete

vars == <<asset, order, items, call, begun, edits, excused>>

NoOrder == [status |-> NULL, priority |-> NULL, asset |-> NULL, cost |-> 0, number |-> 0]
NoCall == [pc |-> "idle", req |-> NULL, status |-> NULL, cost |-> NULL, hours |-> NULL,
           count |-> NULL]

Existing == {o \in Orders : order[o].status # NULL}
OpenOf(a) == {o \in Existing : order[o].asset = a /\ order[o].status \in Active}
CriticalOf(a) == {o \in OpenOf(a) : order[o].priority = "CRITICA"}

Locked(o) == \E c \in Calls : call[c].pc = "counted" /\ call[c].req.order = o
Completing(a) == \E c \in Calls : call[c].pc = "counted" /\ order[call[c].req.order].asset = a

Init ==
    /\ asset = [a \in Assets |-> [status |-> "OPERATIVO", hours |-> 1]]
    /\ order = [o \in Orders |-> NoOrder]
    /\ items = [o \in Orders |-> 0]
    /\ call = [c \in Calls |-> NoCall]
    /\ begun = 0 /\ edits = 0
    /\ excused = {}

-----------------------------------------------------------------------------
(* What each handler reads before its transaction *)

Begin(c, seen) ==
    /\ call[c].pc = "idle" /\ begun < MaxCalls
    /\ begun' = begun + 1
    /\ call' = [call EXCEPT ![c] = seen]
    /\ UNCHANGED <<asset, order, items, edits, excused>>

\* The order number is the number of orders there are, plus one.
ReadForCreate(c) == \E r \in CreateCall :
    Begin(c, [NoCall EXCEPT !.pc = "seen", !.req = r, !.count = Cardinality(Existing)])

\* Allowed without the early returns on a completed or cancelled order.
AllowedAlways(r, status) == r \in OrderCall /\ status # NULL

Allowed(r, status) ==
    CASE r.op = "update" -> status = "COMPLETADA" => r.status \in {NULL, "COMPLETADA"}
      [] r.op = "consume" -> status \in Active
      [] r.op = "complete" -> status # "COMPLETADA"

\* findOne, with the asset of the order.
ReadOrder(c) == \E r \in OrderCall :
    /\ r.order \in Existing
    /\ Allowed(r, order[r.order].status)
    /\ Begin(c, [NoCall EXCEPT !.pc = "seen", !.req = r, !.status = order[r.order].status,
                               !.cost = order[r.order].cost,
                               !.hours = asset[order[r.order].asset].hours])

ReadAsset(c) == \E r \in FuelCall :
    Begin(c, [NoCall EXCEPT !.pc = "seen", !.req = r, !.hours = asset[r.asset].hours])

-----------------------------------------------------------------------------
(* What it writes *)

At(c, pc, op) == call[c].pc = pc /\ call[c].req.op = op
End(c) == call' = [call EXCEPT ![c] = NoCall]
Excuse(a, raced) == excused' = IF raced THEN excused \cup {a} ELSE excused
\* Taken without the unique index on otNumber.
TakenNever(n) == n = 0

Taken(n) == \E o \in Existing : order[o].number = n

CommitCreate(c) ==
    /\ At(c, "seen", "create") /\ ~Taken(call[c].count + 1)
    /\ LET r == call[c].req IN
         /\ \E o \in Orders \ Existing :
              order' = [order EXCEPT ![o] = [status |-> "ABIERTA", priority |-> r.priority,
                                             asset |-> r.asset, cost |-> 0,
                                             number |-> call[c].count + 1]]
         /\ asset' = IF StopsAsset(r) THEN [asset EXCEPT ![r.asset].status = "EN_MANTENCION"]
                     ELSE asset
         /\ Excuse(r.asset, Completing(r.asset))
    /\ End(c)
    /\ UNCHANGED <<items, begun, edits>>

\* otNumber is unique: the loser of two creations that counted together fails.
RefuseNumber(c) ==
    /\ At(c, "seen", "create") /\ Taken(call[c].count + 1)
    /\ End(c)
    /\ UNCHANGED <<asset, order, items, begun, edits, excused>>

OrElse(given, old) == IF given = NULL THEN old ELSE given

\* update: by id, whatever the row holds by now.
WriteOrder(c) ==
    /\ At(c, "seen", "update") /\ ~Locked(call[c].req.order)
    /\ LET r == call[c].req
           old == order[r.order]
           new == [old EXCEPT !.status = OrElse(r.status, @), !.priority = OrElse(r.priority, @)]
       IN  /\ order' = [order EXCEPT ![r.order] = new]
           /\ Excuse(old.asset, new # old)
    /\ End(c)
    /\ UNCHANGED <<asset, items, begun, edits>>

\* The status an order has after a consumption that read `status'.
Consumed(status) == IF status = "ABIERTA" THEN "EN_PROGRESO" ELSE status

\* The line is added; cost and status are computed from what was read.
CommitConsumption(c) ==
    /\ At(c, "seen", "consume") /\ ~Locked(call[c].req.order)
    /\ LET r == call[c].req
           old == order[r.order]
           new == [old EXCEPT !.cost = call[c].cost + r.cost, !.status = Consumed(call[c].status)]
       IN  /\ items' = [items EXCEPT ![r.order] = @ + r.cost]
           /\ order' = [order EXCEPT ![r.order] = new]
           /\ Excuse(old.asset, old.status \notin Active \/ Completing(old.asset))
    /\ End(c)
    /\ UNCHANGED <<asset, begun, edits>>

\* Rollback of a consumption that updates the order outside its transaction.
RollbackKeepingCost(c) ==
    /\ At(c, "seen", "consume")
    /\ order' = [order EXCEPT ![call[c].req.order].cost = call[c].cost + call[c].req.cost]
    /\ End(c)
    /\ UNCHANGED <<asset, items, begun, edits, excused>>

\* A refusal inside the transaction (no stock), an error or a timeout.
Rollback(c) ==
    /\ call[c].pc = "counted" \/ At(c, "seen", "consume")
    /\ End(c)
    /\ UNCHANGED <<asset, order, items, begun, edits, excused>>

\* CountOthers that counts nothing.
CountNone(c) ==
    /\ At(c, "seen", "complete") /\ ~Locked(call[c].req.order)
    /\ call' = [call EXCEPT ![c].pc = "counted", ![c].count = 0]
    /\ Excuse(order[call[c].req.order].asset, Completing(order[call[c].req.order].asset))
    /\ UNCHANGED <<asset, order, items, begun, edits>>

\* CountOthers before the update of the order, without `id: { not: id }'.
CountAll(c) ==
    /\ At(c, "seen", "complete") /\ ~Locked(call[c].req.order)
    /\ LET a == order[call[c].req.order].asset
       IN  /\ call' = [call EXCEPT ![c].pc = "counted", ![c].count = Cardinality(CriticalOf(a))]
           /\ Excuse(a, Completing(a))
    /\ UNCHANGED <<asset, order, items, begun, edits>>

\* complete updates its order, which stays locked, and counts the other orders
\* that are critical and committed: 0 of them sends the asset back to work.
CountOthers(c) ==
    /\ At(c, "seen", "complete") /\ ~Locked(call[c].req.order)
    /\ LET o == call[c].req.order
           a == order[o].asset
       IN  /\ call' = [call EXCEPT ![c].pc = "counted",
                                   ![c].count = Cardinality(CriticalOf(a) \ {o})]
           /\ Excuse(a, Completing(a))
    /\ UNCHANGED <<asset, order, items, begun, edits>>

\* Raised for any reading given.
RaisedOrNot(c, current) == IF call[c].req.hours > 0 THEN call[c].req.hours ELSE current

\* The meter a handler writes: a given reading above the one it read.
Raised(c, current) == IF call[c].req.hours > call[c].hours THEN call[c].req.hours ELSE current

CommitCompletion(c) ==
    /\ At(c, "counted", "complete")
    /\ LET o == call[c].req.order
           a == order[o].asset
       IN  /\ order' = [order EXCEPT ![o].status = "COMPLETADA"]
           /\ asset' = [asset EXCEPT ![a] =
                          [status |-> IF call[c].count = 0 THEN "OPERATIVO" ELSE @.status,
                           hours |-> Raised(c, @.hours)]]
    /\ End(c)
    /\ UNCHANGED <<items, begun, edits, excused>>

\* FuelService.create, at the end of its transaction.
CommitDispatch(c) ==
    /\ At(c, "seen", "fuel")
    /\ asset' = [asset EXCEPT ![call[c].req.asset].hours = Raised(c, @)]
    /\ End(c)
    /\ UNCHANGED <<order, items, begun, edits, excused>>

-----------------------------------------------------------------------------
(* By hand: AssetsService.update and updateMeter, AssetsService.remove *)

Edit(a, new) ==
    /\ edits < MaxEdits
    /\ edits' = edits + 1
    /\ asset' = [asset EXCEPT ![a] = new]
    /\ Excuse(a, new.status # asset[a].status)
    /\ UNCHANGED <<order, items, call, begun>>

UpdateAsset(a) == \E s \in OperationalStatus : Edit(a, [asset[a] EXCEPT !.status = s])
UpdateMeter(a) == \E h \in Readings : Edit(a, [asset[a] EXCEPT !.hours = h])
RemoveAsset(a) == Edit(a, [asset[a] EXCEPT !.status = "DADO_DE_BAJA"])

Next ==
    \/ \E c \in Calls :
         \/ ReadForCreate(c) \/ ReadOrder(c) \/ ReadAsset(c)
         \/ CommitCreate(c) \/ RefuseNumber(c)
         \/ WriteOrder(c) \/ CommitConsumption(c) \/ Rollback(c)
         \/ CountOthers(c) \/ CommitCompletion(c)
         \/ CommitDispatch(c)
    \/ \E a \in Assets : UpdateAsset(a) \/ UpdateMeter(a) \/ RemoveAsset(a)

Spec == Init /\ [][Next]_vars

-----------------------------------------------------------------------------
(* Properties *)

\* Every variable keeps its type and no two orders have one number.
TypeOK ==
    /\ asset \in [Assets -> [status: OperationalStatus, hours: Readings]]
    /\ \A o \in Existing :
          /\ order[o].status \in WorkOrderStatus /\ order[o].priority \in WorkOrderPriority
          /\ order[o].asset \in Assets /\ order[o].cost \in Nat
          /\ \A p \in Existing : order[p].number = order[o].number => p = o
    /\ items \in [Orders -> Nat]
    /\ \A c \in Calls : call[c].pc \in {"idle", "seen", "counted"}
    /\ excused \subseteq Assets

\* An order never costs more than its lines: consumptions that race with each
\* other (consumeItem adds to the totalCost it read) can only lose a cost.
CostNeverOverstated == \A o \in Orders : order[o].cost <= items[o]

\* An asset is OPERATIVO with a critical order open only after a status set by
\* hand, an order edited or reopened, or a creation that complete did not count.
NotReleasedEarly ==
    \A a \in Assets : asset[a].status = "OPERATIVO" /\ CriticalOf(a) # {} => a \in excused

\* An asset is EN_MANTENCION with no order open only after a status set by hand,
\* an order closed through update, or two completions that counted each other.
NotHeldForNothing ==
    \A a \in Assets : asset[a].status = "EN_MANTENCION" /\ OpenOf(a) = {} => a \in excused

\* Only a call that read the order before it was completed reopens it.
ReopenedOnlyWhenStale ==
    [][\A o \in Orders :
         order[o].status = "COMPLETADA" /\ order'[o].status # "COMPLETADA" =>
           \E c \in Calls : /\ call[c].pc = "seen" /\ call'[c].pc = "idle"
                            /\ call[c].req.order = o /\ call[c].status # "COMPLETADA"]_vars

\* The hour meter goes back only by hand or by a call that read it before a
\* higher reading was committed.
MeterGoesBackOnlyWhenStale ==
    [][\A a \in Assets : asset'[a].hours < asset[a].hours =>
         \/ edits' # edits
         \/ \E c \in Calls : call'[c] = NoCall /\ call[c].hours \notin {NULL, asset[a].hours}]_vars
=============================================================================
