------------------------- MODULE Maintenance_proofs -------------------------
(***************************************************************************)
(* What Maintenance guarantees for any assets, orders, readings and costs, *)
(* and any number of requests served at once.                              *)
(***************************************************************************)
EXTENDS Maintenance, FiniteSetTheorems, TLAPS

Request == CreateCall \cup OrderCall \cup FuelCall

CallRecord == [pc: {"idle", "seen", "counted"}, req: Request \cup {NULL},
               status: WorkOrderStatus \cup {NULL}, cost: Nat \cup {NULL},
               hours: Readings \cup {NULL}, count: Nat \cup {NULL}]

OrderRecord == [status: WorkOrderStatus \cup {NULL}, priority: WorkOrderPriority \cup {NULL},
                asset: Assets \cup {NULL}, cost: Nat, number: Nat]

Typed ==
    /\ asset \in [Assets -> [status: OperationalStatus, hours: Readings]]
    /\ order \in [Orders -> OrderRecord]
    /\ items \in [Orders -> Nat]
    /\ call \in [Calls -> CallRecord]
    /\ excused \subseteq Assets

\* An order that exists has a priority, an asset and a number of its own.
Sound(o) ==
    order[o].status # NULL =>
        /\ order[o].priority \in WorkOrderPriority
        /\ order[o].asset \in Assets
        /\ \A p \in Orders : order[p].status # NULL /\ order[p].number = order[o].number => p = o

\* What a request that has read an order knows of it, however stale.
Aware(c) ==
    /\ call[c].pc # "idle" => call[c].req \in Request
    /\ call[c].pc # "idle" /\ call[c].req \in OrderCall =>
          /\ order[call[c].req.order].status # NULL
          /\ call[c].status \in WorkOrderStatus
          /\ Allowed(call[c].req, call[c].status)
          /\ call[c].cost \in Nat
          /\ call[c].cost <= items[call[c].req.order]
    /\ call[c].pc # "idle" /\ call[c].req \in OrderCall \cup FuelCall => call[c].hours \in Readings
    /\ call[c].pc # "idle" /\ call[c].req \in CreateCall => call[c].count \in Nat
    /\ call[c].pc = "counted" => call[c].req \in CompleteCall /\ call[c].count \in Nat

\* The other critical orders of an asset.
Rivals(a, o) == CriticalOf(a) \ {o}

OrderOf(c) == call[c].req.order
AssetOf(c) == order[OrderOf(c)].asset
Counting(c) == call[c].pc = "counted" /\ AssetOf(c) \notin excused

\* Unless its asset is excused, a completion that has counted the other critical
\* orders of the asset knows whether there are any, and is the only one.
CountTrue(c) == Counting(c) => (call[c].count = 0 <=> Rivals(AssetOf(c), OrderOf(c)) = {})
CountsAlone(c) ==
    Counting(c) => \A d \in Calls \ {c} : call[d].pc = "counted" => AssetOf(d) # AssetOf(c)

\* The inductive invariant: what is promised of orders and assets, and what the
\* requests under way must know for the promises to survive their writes.
IInv ==
    /\ Typed
    /\ \A o \in Orders : Sound(o)
    /\ \A c \in Calls : Aware(c)
    /\ \A c \in Calls : CountTrue(c) /\ CountsAlone(c)
    /\ CostNeverOverstated
    /\ NotReleasedEarly
    /\ NotHeldForNothing

-----------------------------------------------------------------------------
(* Requests *)

\* A request's op tells what it asks.
LEMMA RequestKinds ==
    ASSUME NEW r \in Request
    PROVE  /\ r.op = "create" <=> r \in CreateCall
           /\ r.op = "update" <=> r \in UpdateCall
           /\ r.op = "consume" <=> r \in ConsumeCall
           /\ r.op = "complete" <=> r \in CompleteCall
           /\ r.op = "fuel" <=> r \in FuelCall
  BY DEF Request, OrderCall, CreateCall, UpdateCall, ConsumeCall, CompleteCall, FuelCall

LEMMA RequestFields ==
    /\ \A r \in CreateCall : r.asset \in Assets /\ r.priority \in WorkOrderPriority
    /\ \A r \in OrderCall : r.order \in Orders
    /\ \A r \in UpdateCall : /\ r.status \in WorkOrderStatus \cup {NULL}
                             /\ r.priority \in WorkOrderPriority \cup {NULL}
    /\ \A r \in ConsumeCall : r.cost \in Nat
    /\ \A r \in CompleteCall \cup FuelCall : r.hours \in Readings
    /\ \A r \in FuelCall : r.asset \in Assets
  BY ReadingsAssumption
     DEF OrderCall, CreateCall, UpdateCall, ConsumeCall, CompleteCall, FuelCall

\* Sets of orders are finite, so that a count of none is the empty set.
LEMMA CountsOrders ==
    ASSUME NEW S, S \subseteq Orders
    PROVE  /\ Cardinality(S) \in Nat
           /\ Cardinality(S) = 0 <=> S = {}
  BY OrdersAssumption, FS_Subset, FS_CardinalityType, FS_EmptySet

-----------------------------------------------------------------------------
(* The beginning *)

LEMMA InitIInv == Init => IInv
<1> SUFFICES ASSUME Init PROVE IInv
  OBVIOUS
<1>1. Typed
  BY ReadingsAssumption
     DEF Init, Typed, NoOrder, NoCall, OrderRecord, CallRecord, OperationalStatus
<1>2. \A o \in Orders : Sound(o)
  BY DEF Init, Sound, NoOrder
<1>3. \A c \in Calls : Aware(c) /\ CountTrue(c) /\ CountsAlone(c)
  BY DEF Init, Aware, CountTrue, CountsAlone, Counting, NoCall
<1>4. CostNeverOverstated
  BY DEF Init, CostNeverOverstated, NoOrder
<1>5. NotReleasedEarly /\ NotHeldForNothing
  BY DEF Init, NotReleasedEarly, NotHeldForNothing, CriticalOf, OpenOf, Existing, NoOrder
<1> QED
  BY <1>1, <1>2, <1>3, <1>4, <1>5 DEF IInv

-----------------------------------------------------------------------------
(* Reads *)

\* A read writes nothing: what it knows is what the tables hold.
LEMMA ReadStep ==
    ASSUME IInv, NEW c \in Calls, NEW seen \in CallRecord, Begin(c, seen),
           seen.pc = "seen", seen.req \in Request,
           seen.req \in OrderCall =>
              /\ order[seen.req.order].status # NULL
              /\ seen.status \in WorkOrderStatus
              /\ Allowed(seen.req, seen.status)
              /\ seen.cost \in Nat
              /\ seen.cost <= items[seen.req.order],
           seen.req \in OrderCall \cup FuelCall => seen.hours \in Readings,
           seen.req \in CreateCall => seen.count \in Nat
    PROVE  IInv'
<1> USE DEF IInv, Begin
<1>1. call' \in [Calls -> CallRecord] /\ call'[c] = seen
  BY DEF Typed
<1>2. Typed'
  BY <1>1 DEF Typed
<1>3. \A o \in Orders : Sound(o)'
  BY DEF Sound
<1>4. \A d \in Calls : Aware(d)'
  <2> SUFFICES ASSUME NEW d \in Calls PROVE Aware(d)'
    OBVIOUS
  <2>1. CASE d = c
    BY <1>1, <2>1 DEF Aware, Allowed
  <2>2. CASE d # c
    <3>1. call'[d] = call[d]
      BY <2>2 DEF Typed
    <3> QED
      BY <3>1 DEF Aware, Allowed
  <2> QED
    BY <2>1, <2>2
<1>5. \A d \in Calls : CountTrue(d)' /\ CountsAlone(d)'
  <2>1. \A d \in Calls : call'[d].pc = "counted" => call'[d] = call[d]
    BY <1>1 DEF Typed
  <2>2. \A d \in Calls : CountTrue(d)'
    BY <2>1 DEF CountTrue, Counting, OrderOf, AssetOf, Rivals, CriticalOf, OpenOf, Existing
  <2>3. \A d \in Calls : CountsAlone(d)'
    BY <2>1 DEF CountsAlone, Counting, OrderOf, AssetOf
  <2> QED
    BY <2>2, <2>3
<1>6. CostNeverOverstated' /\ NotReleasedEarly' /\ NotHeldForNothing'
  BY DEF CostNeverOverstated, NotReleasedEarly, NotHeldForNothing, CriticalOf, OpenOf, Existing
<1> QED
  BY <1>2, <1>3, <1>4, <1>5, <1>6

-----------------------------------------------------------------------------
(* Writes *)

\* A request that ends takes what it read with it; the others stay aware.
LEMMA EndStep ==
    ASSUME IInv, NEW c \in Calls, End(c),
           \A o \in Orders : order[o].status # NULL => order'[o].status # NULL,
           \A o \in Orders : items'[o] \in Nat /\ items[o] <= items'[o]
    PROVE  /\ call' \in [Calls -> CallRecord]
           /\ call'[c].pc = "idle"
           /\ \A d \in Calls \ {c} : call'[d] = call[d]
           /\ \A d \in Calls : Aware(d)'
<1>1. /\ call' \in [Calls -> CallRecord]
      /\ call'[c] = NoCall
      /\ \A d \in Calls \ {c} : call'[d] = call[d]
  BY DEF IInv, Typed, End, NoCall, CallRecord
<1>2. \A d \in Calls : Aware(d)'
  <2> SUFFICES ASSUME NEW d \in Calls, call'[d].pc # "idle" PROVE Aware(d)'
    BY DEF Aware
  <2>1. d # c /\ call'[d] = call[d]
    BY <1>1 DEF NoCall
  <2>2. Aware(d)
    BY DEF IInv
  <2>3. call[d].req \in OrderCall => call[d].req.order \in Orders
    BY RequestFields
  <2>4. call[d].req \in OrderCall => items[call[d].req.order] \in Nat
    BY <2>3 DEF IInv, Typed
  <2>5. call[d].req \in OrderCall => call[d].cost <= items'[call[d].req.order]
    BY <2>1, <2>2, <2>3, <2>4 DEF Aware
  <2>6. call[d].req \in OrderCall => Allowed(call[d].req, call[d].status)'
    BY <2>1, <2>2 DEF Aware, Allowed
  <2> QED
    BY <2>1, <2>2, <2>3, <2>5, <2>6 DEF Aware
<1> QED
  BY <1>1, <1>2 DEF NoCall

\* A count stays true while the orders of its asset stay as they are.
LEMMA CountStep ==
    ASSUME IInv, NEW c \in Calls,
           \A d \in Calls : call'[d].pc = "counted" => d # c /\ call'[d] = call[d],
           excused \subseteq excused',
           \A d \in Calls : call'[d].pc = "counted" => AssetOf(d)' = AssetOf(d),
           \A d \in Calls : call'[d].pc = "counted" /\ AssetOf(d) \notin excused' =>
               \/ CriticalOf(AssetOf(d))' = CriticalOf(AssetOf(d))
               \/ Rivals(AssetOf(d), OrderOf(d))' = Rivals(AssetOf(d), OrderOf(d))
    PROVE  \A d \in Calls : CountTrue(d)' /\ CountsAlone(d)'
<1> SUFFICES ASSUME NEW d \in Calls, Counting(d)' PROVE CountTrue(d)' /\ CountsAlone(d)'
  BY DEF CountTrue, CountsAlone
<1>1. d # c /\ call'[d] = call[d] /\ Counting(d)
  BY DEF Counting
<1>2. AssetOf(d)' = AssetOf(d) /\ OrderOf(d)' = OrderOf(d)
  BY <1>1 DEF Counting, OrderOf
<1>3. Rivals(AssetOf(d), OrderOf(d))' = Rivals(AssetOf(d), OrderOf(d))
  BY <1>1, <1>2 DEF Counting, Rivals
<1>4. CountTrue(d)'
  BY <1>1, <1>3 DEF IInv, CountTrue
<1>5. CountsAlone(d)'
  BY <1>1, <1>2 DEF IInv, CountsAlone, Counting
<1> QED
  BY <1>4, <1>5

LEMMA CreateStep == ASSUME IInv, NEW c \in Calls, CommitCreate(c) PROVE IInv'
<1>0. call[c].req \in CreateCall /\ call[c].count \in Nat
  BY RequestKinds DEF CommitCreate, At, IInv, Aware
<1>1. PICK r \in CreateCall : call[c].req = r
  BY <1>0
<1>2. PICK n \in Orders \ Existing :
        order' = [order EXCEPT ![n] = [status |-> "ABIERTA", priority |-> r.priority,
                                       asset |-> r.asset, cost |-> 0,
                                       number |-> call[c].count + 1]]
  BY <1>1 DEF CommitCreate
<1>3. /\ r.asset \in Assets /\ r.priority \in WorkOrderPriority
      /\ order[n].status = NULL
      /\ order'[n] = [status |-> "ABIERTA", priority |-> r.priority, asset |-> r.asset,
                      cost |-> 0, number |-> call[c].count + 1]
      /\ \A o \in Orders \ {n} : order'[o] = order[o]
  BY <1>1, <1>2, RequestFields DEF IInv, Typed, Existing
<1>4. /\ End(c)
      /\ asset' = IF StopsAsset(r) THEN [asset EXCEPT ![r.asset].status = "EN_MANTENCION"] ELSE asset
      /\ excused' = IF Completing(r.asset) THEN excused \cup {r.asset} ELSE excused
      /\ items' = items
      /\ \A o \in Existing : order[o].number # call[c].count + 1
  BY <1>1 DEF CommitCreate, Excuse, Taken
<1>5. /\ call' \in [Calls -> CallRecord]
      /\ call'[c].pc = "idle"
      /\ \A d \in Calls \ {c} : call'[d] = call[d]
      /\ \A d \in Calls : Aware(d)'
  <2>1. \A o \in Orders : items'[o] \in Nat /\ items[o] <= items'[o]
    BY <1>4 DEF IInv, Typed
  <2>2. \A o \in Orders : order[o].status # NULL => order'[o].status # NULL
    BY <1>3
  <2> QED
    BY <1>4, <2>1, <2>2, EndStep
<1>6. Typed'
  <2>1. order' \in [Orders -> OrderRecord]
    BY <1>0, <1>2, <1>3 DEF IInv, Typed, OrderRecord, WorkOrderStatus
  <2>2. asset' \in [Assets -> [status: OperationalStatus, hours: Readings]]
    BY <1>3, <1>4 DEF IInv, Typed, OperationalStatus
  <2> QED
    BY <1>3, <1>4, <1>5, <2>1, <2>2 DEF IInv, Typed
<1>7. \A o \in Orders : Sound(o)'
  BY <1>3, <1>4 DEF IInv, Sound, Existing
<1>8. \A a \in Assets \ {r.asset} : CriticalOf(a)' = CriticalOf(a) /\ OpenOf(a)' = OpenOf(a)
  BY <1>3, NullAssumption DEF CriticalOf, OpenOf, Existing, Active, WorkOrderStatus
<1>9. CriticalOf(r.asset)' = IF r.priority = "CRITICA" THEN CriticalOf(r.asset) \cup {n}
                             ELSE CriticalOf(r.asset)
  BY <1>3, NullAssumption DEF CriticalOf, OpenOf, Existing, Active, WorkOrderStatus
<1>10. n \in OpenOf(r.asset)'
  BY <1>3, NullAssumption DEF OpenOf, Existing, Active, WorkOrderStatus
<1>11. \A d \in Calls : CountTrue(d)' /\ CountsAlone(d)'
  <2>1. \A d \in Calls : call'[d].pc = "counted" => d # c /\ call'[d] = call[d]
    BY <1>5
  <2>2. ASSUME NEW d \in Calls, call'[d].pc = "counted"
        PROVE  /\ AssetOf(d)' = AssetOf(d)
               /\ AssetOf(d) \in Assets
               /\ AssetOf(d) = r.asset => r.asset \in excused'
    <3>1. call[d].req \in OrderCall /\ call[d].req.order \in Orders
      BY <2>1, <2>2, RequestFields DEF IInv, Aware, OrderCall
    <3>2. order[call[d].req.order].status # NULL
      BY <2>1, <2>2, <3>1 DEF IInv, Aware
    <3> QED
      BY <1>3, <1>4, <2>1, <2>2, <3>1, <3>2 DEF IInv, Sound, AssetOf, OrderOf, Completing
  <2>3. excused \subseteq excused'
    BY <1>4
  <2> QED
    BY <1>8, <2>1, <2>2, <2>3, CountStep
<1>12. CostNeverOverstated'
  BY <1>3, <1>4 DEF IInv, Typed, CostNeverOverstated
<1>13. NotReleasedEarly'
  BY <1>3, <1>4, <1>8, <1>9 DEF IInv, Typed, NotReleasedEarly, StopsAsset
<1>14. NotHeldForNothing'
  BY <1>3, <1>4, <1>8, <1>10 DEF IInv, Typed, NotHeldForNothing
<1> QED
  BY <1>5, <1>6, <1>7, <1>11, <1>12, <1>13, <1>14 DEF IInv

\* An order is rewritten: its asset is excused, or the order counts as before.
LEMMA RewriteStep ==
    ASSUME IInv, NEW c \in Calls, End(c), NEW o \in Orders, NEW new \in OrderRecord,
           order[o].status # NULL, order' = [order EXCEPT ![o] = new],
           new.status \in WorkOrderStatus, new.priority \in WorkOrderPriority,
           new.asset = order[o].asset, new.number = order[o].number,
           asset' = asset,
           \A p \in Orders : items'[p] \in Nat /\ items[p] <= items'[p],
           items' \in [Orders -> Nat], new.cost <= items'[o],
           excused \subseteq excused', excused' \subseteq excused \cup {order[o].asset},
           \/ order[o].asset \in excused'
           \/ /\ new.priority = order[o].priority
              /\ new.status \in Active <=> order[o].status \in Active
    PROVE  IInv'
<1>1. /\ order'[o] = new
      /\ \A p \in Orders \ {o} : order'[p] = order[p]
      /\ order[o].asset \in Assets
      /\ NULL \notin WorkOrderStatus
  BY NullAssumption DEF IInv, Typed, Sound
<1>2. /\ call' \in [Calls -> CallRecord]
      /\ call'[c].pc = "idle"
      /\ \A d \in Calls \ {c} : call'[d] = call[d]
      /\ \A d \in Calls : Aware(d)'
  BY <1>1, EndStep
<1>3. Typed'
  BY <1>1, <1>2 DEF IInv, Typed
<1>4. \A p \in Orders : Sound(p)'
  BY <1>1 DEF IInv, Sound
<1>5. \A a \in Assets \ excused' : CriticalOf(a)' = CriticalOf(a) /\ OpenOf(a)' = OpenOf(a)
  BY <1>1 DEF CriticalOf, OpenOf, Existing
<1>6. \A d \in Calls : CountTrue(d)' /\ CountsAlone(d)'
  <2>1. \A d \in Calls : call'[d].pc = "counted" => d # c /\ call'[d] = call[d]
    BY <1>2
  <2>2. ASSUME NEW d \in Calls, call'[d].pc = "counted"
        PROVE  AssetOf(d)' = AssetOf(d) /\ AssetOf(d) \in Assets
    <3>1. call[d].req \in OrderCall /\ call[d].req.order \in Orders
      BY <2>1, <2>2, RequestFields DEF IInv, Aware, OrderCall
    <3>2. order[call[d].req.order].status # NULL
      BY <2>1, <2>2, <3>1 DEF IInv, Aware
    <3> QED
      BY <1>1, <2>1, <2>2, <3>1, <3>2 DEF IInv, Sound, AssetOf, OrderOf
  <2> QED
    BY <1>5, <2>1, <2>2, CountStep
<1>7. CostNeverOverstated'
  <2> SUFFICES ASSUME NEW p \in Orders PROVE order'[p].cost <= items'[p]
    BY DEF CostNeverOverstated
  <2>1. order[p].cost \in Nat /\ items[p] \in Nat
    BY DEF IInv, Typed, OrderRecord
  <2> QED
    BY <1>1, <2>1 DEF IInv, CostNeverOverstated
<1>8. NotReleasedEarly' /\ NotHeldForNothing'
  BY <1>5 DEF IInv, NotReleasedEarly, NotHeldForNothing
<1> QED
  BY <1>2, <1>3, <1>4, <1>6, <1>7, <1>8 DEF IInv

LEMMA UpdateStep == ASSUME IInv, NEW c \in Calls, WriteOrder(c) PROVE IInv'
<1>1. call[c].req \in UpdateCall /\ call[c].req \in OrderCall
  BY RequestKinds DEF WriteOrder, At, IInv, Aware, OrderCall
<1>2. PICK r \in UpdateCall : call[c].req = r
  BY <1>1
<1> DEFINE o == r.order
           old == order[o]
           new == [old EXCEPT !.status = OrElse(r.status, @), !.priority = OrElse(r.priority, @)]
<1>3. o \in Orders /\ old.status # NULL
  BY <1>1, <1>2, RequestFields DEF IInv, Aware, WriteOrder, At
<1>4. /\ old \in OrderRecord /\ old.priority \in WorkOrderPriority
      /\ old.status \in WorkOrderStatus
  BY <1>3 DEF IInv, Typed, Sound, OrderRecord
<1>5. OrElse(r.status, old.status) \in WorkOrderStatus
      /\ OrElse(r.priority, old.priority) \in WorkOrderPriority
  BY <1>4, RequestFields DEF OrElse
<1>6. /\ new \in OrderRecord /\ new.status \in WorkOrderStatus
      /\ new.priority \in WorkOrderPriority
      /\ new.asset = old.asset /\ new.number = old.number /\ new.cost = old.cost
  BY <1>4, <1>5 DEF OrderRecord
<1>7. /\ End(c) /\ order' = [order EXCEPT ![o] = new]
      /\ excused' = IF new # old THEN excused \cup {old.asset} ELSE excused
      /\ items' = items /\ asset' = asset
  BY <1>2 DEF WriteOrder, Excuse
<1>8. /\ \A p \in Orders : items'[p] \in Nat /\ items[p] <= items'[p]
      /\ items' \in [Orders -> Nat] /\ new.cost <= items'[o]
  BY <1>3, <1>6, <1>7 DEF IInv, Typed, CostNeverOverstated
<1> HIDE DEF new
<1> QED
  BY <1>3, <1>6, <1>7, <1>8, RewriteStep

LEMMA ConsumptionStep == ASSUME IInv, NEW c \in Calls, CommitConsumption(c) PROVE IInv'
<1>1. /\ call[c].req \in ConsumeCall /\ call[c].req \in OrderCall
      /\ call[c].req.op = "consume" /\ call[c].pc # "idle"
  BY RequestKinds DEF CommitConsumption, At, IInv, Aware, OrderCall
<1>2. PICK r \in ConsumeCall : call[c].req = r
  BY <1>1
<1> DEFINE o == r.order
           old == order[o]
           new == [old EXCEPT !.cost = call[c].cost + r.cost, !.status = Consumed(call[c].status)]
<1>3. /\ o \in Orders /\ old.status # NULL /\ r.cost \in Nat
      /\ call[c].cost \in Nat /\ call[c].cost <= items[o]
      /\ call[c].status \in WorkOrderStatus
      /\ Allowed(r, call[c].status)
  BY <1>1, <1>2, RequestFields DEF IInv, Aware
<1>4. call[c].status \in Active
  BY <1>1, <1>2, <1>3 DEF Allowed
<1>5. Consumed(call[c].status) \in WorkOrderStatus /\ Consumed(call[c].status) \in Active
  BY <1>4 DEF Consumed, WorkOrderStatus, Active
<1>6. /\ old \in OrderRecord /\ old.priority \in WorkOrderPriority
      /\ old.status \in WorkOrderStatus /\ items[o] \in Nat
  BY <1>3 DEF IInv, Typed, Sound, OrderRecord
<1>7. /\ new \in OrderRecord /\ new.status \in WorkOrderStatus /\ new.status \in Active
      /\ new.priority = old.priority
      /\ new.asset = old.asset /\ new.number = old.number /\ new.cost = call[c].cost + r.cost
  <2>1. PICK n \in Nat : n = call[c].cost + r.cost
    BY <1>3
  <2>2. PICK t \in WorkOrderStatus : t = Consumed(call[c].status) /\ t \in Active
    BY <1>5
  <2>3. PICK x \in OrderRecord : x = old
    BY <1>6
  <2>4. new = [x EXCEPT !.cost = n, !.status = t]
    BY <2>1, <2>2, <2>3
  <2> HIDE DEF new, old
  <2>5. /\ new \in OrderRecord /\ new.status = t /\ new.priority = x.priority
        /\ new.asset = x.asset /\ new.number = x.number /\ new.cost = n
    BY <2>4 DEF OrderRecord
  <2> QED
    BY <2>1, <2>2, <2>3, <2>5
<1>8. /\ End(c) /\ order' = [order EXCEPT ![o] = new]
      /\ excused' = IF old.status \notin Active \/ Completing(old.asset)
                    THEN excused \cup {old.asset} ELSE excused
      /\ items' = [items EXCEPT ![o] = @ + r.cost] /\ asset' = asset
  BY <1>2 DEF CommitConsumption, Excuse
<1>9. /\ \A p \in Orders : items'[p] \in Nat /\ items[p] <= items'[p]
      /\ items' \in [Orders -> Nat] /\ new.cost <= items'[o]
  BY <1>3, <1>6, <1>7, <1>8 DEF IInv, Typed
<1> HIDE DEF new
<1> QED
  BY <1>3, <1>6, <1>7, <1>8, <1>9, RewriteStep

\* A request ends and leaves, at most, another reading on a meter.
LEMMA MeterStep ==
    ASSUME IInv, NEW c \in Calls, End(c), UNCHANGED <<order, items, excused>>,
           asset' \in [Assets -> [status: OperationalStatus, hours: Readings]],
           \A a \in Assets : asset'[a].status = asset[a].status
    PROVE  IInv'
<1>1. /\ call' \in [Calls -> CallRecord]
      /\ call'[c].pc = "idle"
      /\ \A d \in Calls \ {c} : call'[d] = call[d]
      /\ \A d \in Calls : Aware(d)'
  <2>1. \A o \in Orders : items'[o] \in Nat /\ items[o] <= items'[o]
    BY DEF IInv, Typed
  <2> QED
    BY <2>1, EndStep
<1>2. Typed'
  BY <1>1 DEF IInv, Typed
<1>3. \A o \in Orders : Sound(o)'
  BY DEF IInv, Sound
<1>4. \A a : CriticalOf(a)' = CriticalOf(a) /\ OpenOf(a)' = OpenOf(a)
  BY DEF CriticalOf, OpenOf, Existing
<1>5. \A d \in Calls : CountTrue(d)' /\ CountsAlone(d)'
  <2>1. \A d \in Calls : call'[d].pc = "counted" => d # c /\ call'[d] = call[d]
    BY <1>1
  <2>2. \A d \in Calls : call'[d].pc = "counted" =>
           /\ AssetOf(d)' = AssetOf(d)
           /\ CriticalOf(AssetOf(d))' = CriticalOf(AssetOf(d))
    BY <2>1 DEF AssetOf, OrderOf, CriticalOf, OpenOf, Existing
  <2> QED
    BY <2>1, <2>2, CountStep
<1>6. CostNeverOverstated' /\ NotReleasedEarly' /\ NotHeldForNothing'
  BY <1>4 DEF IInv, CostNeverOverstated, NotReleasedEarly, NotHeldForNothing
<1> QED
  BY <1>1, <1>2, <1>3, <1>5, <1>6 DEF IInv

LEMMA RollbackStep == ASSUME IInv, NEW c \in Calls, Rollback(c) \/ RefuseNumber(c) PROVE IInv'
<1>1. End(c) /\ UNCHANGED <<order, items, excused, asset>>
  BY DEF Rollback, RefuseNumber
<1> QED
  BY <1>1, MeterStep DEF IInv, Typed

\* The meter a request writes is a reading.
LEMMA RaisedReading ==
    ASSUME IInv, NEW c \in Calls, call[c].pc # "idle",
           call[c].req \in CompleteCall \cup FuelCall, NEW current \in Readings
    PROVE  Raised(c, current) \in Readings
  BY RequestFields DEF Raised

LEMMA DispatchStep == ASSUME IInv, NEW c \in Calls, CommitDispatch(c) PROVE IInv'
<1>1. call[c].req \in FuelCall
  BY RequestKinds DEF CommitDispatch, At, IInv, Aware
<1>2. PICK a \in Assets : call[c].req.asset = a
  BY <1>1, RequestFields
<1>3. asset[a].hours \in Readings
  BY DEF IInv, Typed
<1>4. Raised(c, asset[a].hours) \in Readings
  BY <1>1, <1>3, RaisedReading DEF CommitDispatch, At
<1>5. /\ asset' \in [Assets -> [status: OperationalStatus, hours: Readings]]
      /\ \A b \in Assets : asset'[b].status = asset[b].status
  BY <1>2, <1>4 DEF CommitDispatch, IInv, Typed
<1> QED
  BY <1>5, MeterStep DEF CommitDispatch

LEMMA CountedStep == ASSUME IInv, NEW c \in Calls, CountOthers(c) PROVE IInv'
<1>1. /\ call[c].req \in CompleteCall /\ call[c].req \in OrderCall
      /\ call[c].req \in Request /\ call[c].pc = "seen"
  BY RequestKinds DEF CountOthers, At, IInv, Aware, OrderCall, Request
<1>2. PICK o \in Orders : call[c].req.order = o
  BY <1>1, RequestFields
<1>3. order[o].status # NULL
  BY <1>1, <1>2 DEF IInv, Aware
<1>4. PICK a \in Assets : order[o].asset = a
  BY <1>3 DEF IInv, Sound
<1> DEFINE n == Cardinality(CriticalOf(a) \ {o})
<1>5. n \in Nat /\ (n = 0 <=> Rivals(a, o) = {})
  BY CountsOrders DEF CriticalOf, OpenOf, Existing, Rivals
<1>6. /\ call' = [call EXCEPT ![c].pc = "counted", ![c].count = n]
      /\ excused' = IF Completing(a) THEN excused \cup {a} ELSE excused
      /\ UNCHANGED <<asset, order, items>>
  BY <1>2, <1>4 DEF CountOthers, Excuse
<1> HIDE DEF n
<1>7. /\ call' \in [Calls -> CallRecord]
      /\ call'[c] = [call[c] EXCEPT !.pc = "counted", !.count = n]
      /\ \A d \in Calls \ {c} : call'[d] = call[d]
  BY <1>5, <1>6 DEF IInv, Typed, CallRecord
<1>8. /\ call'[c].pc = "counted" /\ call'[c].req = call[c].req /\ call'[c].count = n
      /\ call'[c].status = call[c].status /\ call'[c].cost = call[c].cost
      /\ call'[c].hours = call[c].hours
  BY <1>7 DEF IInv, Typed, CallRecord
<1>9. Typed'
  BY <1>6, <1>7 DEF IInv, Typed
<1>10. \A p \in Orders : Sound(p)'
  BY <1>6 DEF IInv, Sound
<1>11. \A d \in Calls : Aware(d)'
  <2>1. Aware(c)'
    BY <1>1, <1>5, <1>6, <1>8 DEF IInv, Aware, Allowed
  <2>2. \A d \in Calls \ {c} : Aware(d)'
    BY <1>6, <1>7 DEF IInv, Aware, Allowed
  <2> QED
    BY <2>1, <2>2
<1>12. /\ \A d \in Calls : OrderOf(d)' = OrderOf(d) /\ AssetOf(d)' = AssetOf(d)
       /\ OrderOf(c) = o /\ AssetOf(c) = a
  BY <1>2, <1>4, <1>6, <1>7, <1>8 DEF OrderOf, AssetOf
<1>13. \A d \in Calls : Rivals(AssetOf(d), OrderOf(d))' = Rivals(AssetOf(d), OrderOf(d))
  BY <1>6, <1>12 DEF Rivals, CriticalOf, OpenOf, Existing
<1>14. \A d \in Calls : CountTrue(d)'
  BY <1>5, <1>6, <1>7, <1>8, <1>12, <1>13 DEF IInv, CountTrue, Counting
<1>15. \A d \in Calls \ {c} : call[d].pc = "counted" /\ AssetOf(d) = a => a \in excused'
  BY <1>6 DEF Completing, AssetOf, OrderOf
<1>16. \A d \in Calls : CountsAlone(d)'
  BY <1>6, <1>7, <1>12, <1>15 DEF IInv, CountsAlone, Counting
<1>17. CostNeverOverstated' /\ NotReleasedEarly' /\ NotHeldForNothing'
  BY <1>6 DEF IInv, CostNeverOverstated, NotReleasedEarly, NotHeldForNothing,
             CriticalOf, OpenOf, Existing
<1> QED
  BY <1>9, <1>10, <1>11, <1>14, <1>16, <1>17 DEF IInv

LEMMA CompletionStep == ASSUME IInv, NEW c \in Calls, CommitCompletion(c) PROVE IInv'
<1>1. /\ call[c].req \in CompleteCall /\ call[c].req \in OrderCall
      /\ call[c].req \in Request /\ call[c].pc = "counted"
  BY RequestKinds DEF CommitCompletion, At, IInv, Aware, OrderCall, Request
<1>2. PICK o \in Orders : call[c].req.order = o
  BY <1>1, RequestFields
<1>3. order[o].status # NULL
  BY <1>1, <1>2 DEF IInv, Aware
<1>4. PICK a \in Assets : order[o].asset = a
  BY <1>3 DEF IInv, Sound
<1>5. OrderOf(c) = o /\ AssetOf(c) = a
  BY <1>2, <1>4 DEF OrderOf, AssetOf
<1>6. /\ End(c) /\ UNCHANGED <<items, excused>>
      /\ order' = [order EXCEPT ![o].status = "COMPLETADA"]
      /\ asset' = [asset EXCEPT ![a] =
                      [status |-> IF call[c].count = 0 THEN "OPERATIVO" ELSE @.status,
                       hours |-> Raised(c, @.hours)]]
  BY <1>2, <1>4 DEF CommitCompletion
<1>7. /\ order' \in [Orders -> OrderRecord]
      /\ order'[o].status = "COMPLETADA"
      /\ \A p \in Orders \ {o} : order'[p] = order[p]
      /\ order'[o].asset = a /\ order'[o].priority = order[o].priority
      /\ order'[o].number = order[o].number /\ order'[o].cost = order[o].cost
  BY <1>4, <1>6 DEF IInv, Typed, OrderRecord, WorkOrderStatus
<1>8. /\ \A p \in Orders : order'[p].status # NULL <=> order[p].status # NULL
      /\ \A p \in Orders : order'[p].asset = order[p].asset /\ order'[p].number = order[p].number
                           /\ order'[p].priority = order[p].priority
                           /\ order'[p].cost = order[p].cost
  BY <1>3, <1>4, <1>7, NullAssumption DEF WorkOrderStatus
<1>9. Raised(c, asset[a].hours) \in Readings
  BY <1>1, RaisedReading DEF IInv, Typed
<1>10. /\ asset' \in [Assets -> [status: OperationalStatus, hours: Readings]]
       /\ \A b \in Assets \ {a} : asset'[b] = asset[b]
       /\ asset'[a].status = IF call[c].count = 0 THEN "OPERATIVO" ELSE asset[a].status
  BY <1>6, <1>9 DEF IInv, Typed, OperationalStatus
<1>11. /\ call' \in [Calls -> CallRecord]
       /\ call'[c].pc = "idle"
       /\ \A d \in Calls \ {c} : call'[d] = call[d]
       /\ \A d \in Calls : Aware(d)'
  <2>1. \A p \in Orders : items'[p] \in Nat /\ items[p] <= items'[p]
    BY <1>6 DEF IInv, Typed
  <2> QED
    BY <1>6, <1>8, <2>1, EndStep
<1>12. Typed'
  BY <1>6, <1>7, <1>10, <1>11 DEF IInv, Typed
<1>13. \A p \in Orders : Sound(p)'
  BY <1>8 DEF IInv, Sound
<1>14. /\ \A b \in Assets \ {a} : CriticalOf(b)' = CriticalOf(b) /\ OpenOf(b)' = OpenOf(b)
       /\ CriticalOf(a)' = Rivals(a, o) /\ OpenOf(a)' = OpenOf(a) \ {o}
  BY <1>4, <1>7, <1>8 DEF Rivals, CriticalOf, OpenOf, Existing, Active
<1>15. a \notin excused => (call[c].count = 0 <=> Rivals(a, o) = {})
  BY <1>1, <1>5 DEF IInv, CountTrue, Counting
<1>16. \A d \in Calls : CountTrue(d)' /\ CountsAlone(d)'
  <2>1. \A d \in Calls : call'[d].pc = "counted" => d # c /\ call'[d] = call[d]
    BY <1>11
  <2>2. ASSUME NEW d \in Calls, call'[d].pc = "counted"
        PROVE  /\ AssetOf(d)' = AssetOf(d) /\ AssetOf(d) \in Assets
               /\ AssetOf(d) = a => a \in excused
    <3>1. call[d].req \in OrderCall /\ call[d].req.order \in Orders
      BY <2>1, <2>2, RequestFields DEF IInv, Aware, OrderCall
    <3>2. order[call[d].req.order].status # NULL
      BY <2>1, <2>2, <3>1 DEF IInv, Aware
    <3>3. AssetOf(d)' = AssetOf(d) /\ AssetOf(d) \in Assets
      BY <1>8, <2>1, <2>2, <3>1, <3>2 DEF IInv, Sound, AssetOf, OrderOf
    <3>4. AssetOf(d) = a => a \in excused
      BY <1>1, <1>5, <2>1, <2>2 DEF IInv, CountsAlone, Counting
    <3> QED
      BY <3>3, <3>4
  <2> QED
    BY <1>6, <1>14, <2>1, <2>2, CountStep
<1>17. CostNeverOverstated'
  BY <1>6, <1>8 DEF IInv, CostNeverOverstated
<1>18. NotReleasedEarly'
  <2> SUFFICES ASSUME NEW b \in Assets, asset'[b].status = "OPERATIVO", CriticalOf(b)' # {}
               PROVE  b \in excused'
    BY DEF NotReleasedEarly
  <2>1. CASE b # a
    BY <1>6, <1>10, <1>14, <2>1 DEF IInv, NotReleasedEarly
  <2>2. CASE b = a
    <3>1. CASE call[c].count = 0
      BY <1>6, <1>14, <1>15, <2>2, <3>1
    <3>2. CASE call[c].count # 0
      BY <1>6, <1>10, <1>14, <2>2, <3>2 DEF IInv, NotReleasedEarly, Rivals
    <3> QED
      BY <3>1, <3>2
  <2> QED
    BY <2>1, <2>2
<1>19. NotHeldForNothing'
  <2> SUFFICES ASSUME NEW b \in Assets, asset'[b].status = "EN_MANTENCION", OpenOf(b)' = {}
               PROVE  b \in excused'
    BY DEF NotHeldForNothing
  <2>1. CASE b # a
    BY <1>6, <1>10, <1>14, <2>1 DEF IInv, NotHeldForNothing
  <2>2. CASE b = a
    <3>1. call[c].count # 0
      BY <1>10, <2>2
    <3>2. Rivals(a, o) \subseteq OpenOf(a)'
      BY <1>14 DEF Rivals, CriticalOf
    <3> QED
      BY <1>6, <1>15, <2>2, <3>1, <3>2
  <2> QED
    BY <2>1, <2>2
<1> QED
  BY <1>11, <1>12, <1>13, <1>16, <1>17, <1>18, <1>19 DEF IInv

LEMMA EditStep ==
    ASSUME IInv, NEW a \in Assets, NEW new \in [status: OperationalStatus, hours: Readings],
           Edit(a, new)
    PROVE  IInv'
<1>1. /\ UNCHANGED <<order, items, call>>
      /\ asset' \in [Assets -> [status: OperationalStatus, hours: Readings]]
      /\ \A b \in Assets \ {a} : asset'[b] = asset[b]
      /\ excused' = IF new.status # asset[a].status THEN excused \cup {a} ELSE excused
      /\ asset'[a].status = new.status
  BY DEF Edit, Excuse, IInv, Typed
<1>2. Typed'
  BY <1>1 DEF IInv, Typed
<1>3. \A o \in Orders : Sound(o)'
  BY <1>1 DEF IInv, Sound
<1>4. \A d \in Calls : Aware(d)'
  BY <1>1 DEF IInv, Aware, Allowed
<1>5. \A b : CriticalOf(b)' = CriticalOf(b) /\ OpenOf(b)' = OpenOf(b)
  BY <1>1 DEF CriticalOf, OpenOf, Existing
<1>6. \A d \in Calls : CountTrue(d)' /\ CountsAlone(d)'
  <2>1. \A d \in Calls : /\ OrderOf(d)' = OrderOf(d) /\ AssetOf(d)' = AssetOf(d)
                         /\ Rivals(AssetOf(d), OrderOf(d))' = Rivals(AssetOf(d), OrderOf(d))
    BY <1>1 DEF OrderOf, AssetOf, Rivals, CriticalOf, OpenOf, Existing
  <2> QED
    BY <1>1, <2>1 DEF IInv, CountTrue, CountsAlone, Counting
<1>7. CostNeverOverstated' /\ NotReleasedEarly' /\ NotHeldForNothing'
  BY <1>1, <1>5 DEF IInv, CostNeverOverstated, NotReleasedEarly, NotHeldForNothing
<1> QED
  BY <1>2, <1>3, <1>4, <1>6, <1>7 DEF IInv

LEMMA HandStep ==
    ASSUME IInv, NEW a \in Assets, UpdateAsset(a) \/ UpdateMeter(a) \/ RemoveAsset(a)
    PROVE  IInv'
<1>1. asset[a] \in [status: OperationalStatus, hours: Readings]
  BY DEF IInv, Typed
<1>2. PICK new \in [status: OperationalStatus, hours: Readings] : Edit(a, new)
  BY <1>1 DEF UpdateAsset, UpdateMeter, RemoveAsset, OperationalStatus
<1> QED
  BY <1>2, EditStep

LEMMA ReadsStep ==
    ASSUME IInv, NEW c \in Calls, ReadForCreate(c) \/ ReadOrder(c) \/ ReadAsset(c)
    PROVE  IInv'
<1>1. CASE ReadForCreate(c)
  <2> DEFINE n == Cardinality(Existing)
  <2>1. n \in Nat
    BY CountsOrders DEF Existing
  <2>2. PICK r \in CreateCall : Begin(c, [NoCall EXCEPT !.pc = "seen", !.req = r, !.count = n])
    BY <1>1 DEF ReadForCreate
  <2> HIDE DEF n
  <2> DEFINE seen == [NoCall EXCEPT !.pc = "seen", !.req = r, !.count = n]
  <2>3. r \in Request /\ r \notin OrderCall \cup FuelCall
    BY RequestKinds DEF Request, OrderCall
  <2>4. seen \in CallRecord /\ seen.pc = "seen" /\ seen.req = r /\ seen.count = n
    BY <2>1, <2>3 DEF CallRecord, NoCall
  <2> HIDE DEF seen
  <2> QED
    BY <2>1, <2>2, <2>3, <2>4, ReadStep DEF seen
<1>2. CASE ReadOrder(c)
  <2>1. PICK r \in OrderCall :
          /\ r.order \in Existing
          /\ Allowed(r, order[r.order].status)
          /\ Begin(c, [NoCall EXCEPT !.pc = "seen", !.req = r, !.status = order[r.order].status,
                                     !.cost = order[r.order].cost,
                                     !.hours = asset[order[r.order].asset].hours])
    BY <1>2 DEF ReadOrder
  <2> DEFINE o == r.order
             seen == [NoCall EXCEPT !.pc = "seen", !.req = r, !.status = order[o].status,
                                    !.cost = order[o].cost, !.hours = asset[order[o].asset].hours]
  <2>2. r \in Request /\ r \notin CreateCall /\ o \in Orders
    BY RequestKinds, RequestFields DEF Request, OrderCall
  <2>3. /\ order[o].status \in WorkOrderStatus /\ order[o].status # NULL
        /\ order[o].cost \in Nat /\ order[o].cost <= items[o]
        /\ asset[order[o].asset].hours \in Readings
    BY <2>1, <2>2 DEF IInv, Typed, Sound, OrderRecord, Existing, CostNeverOverstated
  <2>4. /\ seen \in CallRecord /\ seen.pc = "seen" /\ seen.req = r
        /\ seen.status = order[o].status /\ seen.cost = order[o].cost
        /\ seen.hours = asset[order[o].asset].hours
    BY <2>2, <2>3 DEF CallRecord, NoCall
  <2>5. Begin(c, seen) /\ Allowed(seen.req, seen.status)
    BY <2>1, <2>4
  <2> HIDE DEF seen
  <2> QED
    BY <2>2, <2>3, <2>4, <2>5, ReadStep
<1>3. CASE ReadAsset(c)
  <2>1. PICK r \in FuelCall :
          Begin(c, [NoCall EXCEPT !.pc = "seen", !.req = r, !.hours = asset[r.asset].hours])
    BY <1>3 DEF ReadAsset
  <2> DEFINE seen == [NoCall EXCEPT !.pc = "seen", !.req = r, !.hours = asset[r.asset].hours]
  <2>2. r \in Request /\ r \notin CreateCall \cup OrderCall /\ asset[r.asset].hours \in Readings
    BY RequestKinds, RequestFields DEF Request, OrderCall, IInv, Typed
  <2>3. /\ seen \in CallRecord /\ seen.pc = "seen" /\ seen.req = r
        /\ seen.hours = asset[r.asset].hours
    BY <2>2 DEF CallRecord, NoCall
  <2>4. Begin(c, seen)
    BY <2>1
  <2> HIDE DEF seen
  <2> QED
    BY <2>2, <2>3, <2>4, ReadStep
<1> QED
  BY <1>1, <1>2, <1>3

-----------------------------------------------------------------------------
(* The theorems *)

LEMMA StepIInv == IInv /\ [Next]_vars => IInv'
<1> SUFFICES ASSUME IInv, [Next]_vars PROVE IInv'
  OBVIOUS
<1>1. CASE UNCHANGED vars
  BY <1>1 DEF vars, IInv, Typed, Sound, Aware, Allowed, CountTrue, CountsAlone, Counting,
              Rivals, OrderOf, AssetOf, CriticalOf, OpenOf, Existing, CostNeverOverstated,
              NotReleasedEarly, NotHeldForNothing
<1>2. ASSUME NEW c \in Calls,
             \/ ReadForCreate(c) \/ ReadOrder(c) \/ ReadAsset(c)
             \/ CommitCreate(c) \/ RefuseNumber(c)
             \/ WriteOrder(c) \/ CommitConsumption(c) \/ Rollback(c)
             \/ CountOthers(c) \/ CommitCompletion(c)
             \/ CommitDispatch(c)
      PROVE  IInv'
  BY <1>2, ReadsStep, CreateStep, UpdateStep, ConsumptionStep, RollbackStep, CountedStep,
     CompletionStep, DispatchStep
<1>3. ASSUME NEW a \in Assets, UpdateAsset(a) \/ UpdateMeter(a) \/ RemoveAsset(a)
      PROVE  IInv'
  BY <1>3, HandStep
<1> QED
  BY <1>1, <1>2, <1>3 DEF Next

LEMMA SpecIInv == Spec => []IInv
  BY InitIInv, StepIInv, PTL DEF Spec

\* Every variable keeps its type, an order that exists is about an asset and has a
\* priority, and the unique index gives every order a number of its own.
THEOREM TypeCorrect == Spec => []TypeOK
<1>1. IInv => TypeOK
  <2> SUFFICES ASSUME IInv PROVE TypeOK
    OBVIOUS
  <2>1. \A o \in Existing :
          /\ order[o].status \in WorkOrderStatus /\ order[o].priority \in WorkOrderPriority
          /\ order[o].asset \in Assets /\ order[o].cost \in Nat
    BY DEF IInv, Typed, Sound, OrderRecord, Existing
  <2>2. \A o, p \in Existing : order[p].number = order[o].number => p = o
    BY DEF IInv, Sound, Existing
  <2> QED
    BY <2>1, <2>2 DEF IInv, Typed, CallRecord, TypeOK
<1> QED
  BY <1>1, SpecIInv, PTL

\* However many consumptions of an order race, with any costs, what consumeItem
\* leaves in totalCost is never more than what the order's lines cost.
THEOREM CostSafety == Spec => []CostNeverOverstated
<1>1. IInv => CostNeverOverstated
  BY DEF IInv
<1> QED
  BY <1>1, SpecIInv, PTL

\* complete never sends an asset back to work that a critical order stops, except
\* when something changed the asset's orders between its count and its commit.
THEOREM ReleaseSafety == Spec => []NotReleasedEarly
<1>1. IInv => NotReleasedEarly
  BY DEF IInv
<1> QED
  BY <1>1, SpecIInv, PTL

\* complete never leaves an asset in maintenance without an open order, except
\* after the same changes.
THEOREM HoldSafety == Spec => []NotHeldForNothing
<1>1. IInv => NotHeldForNothing
  BY DEF IInv
<1> QED
  BY <1>1, SpecIInv, PTL

\* A completed order is reopened only by an update or a consumption that read it
\* before it was completed.
THEOREM ReopenSafety == Spec => ReopenedOnlyWhenStale
<1> DEFINE Stale(o) == \E c \in Calls : /\ call[c].pc = "seen" /\ call'[c].pc = "idle"
                                        /\ call[c].req.order = o /\ call[c].status # "COMPLETADA"
           A == \A o \in Orders :
                  order[o].status = "COMPLETADA" /\ order'[o].status # "COMPLETADA" => Stale(o)
<1>1. IInv /\ [Next]_vars => [A]_vars
  <2> SUFFICES ASSUME IInv, Next, NEW o \in Orders,
                      order[o].status = "COMPLETADA", order'[o].status # "COMPLETADA"
               PROVE  Stale(o)
    OBVIOUS
  <2>1. PICK c \in Calls : CommitCreate(c) \/ WriteOrder(c) \/ CommitConsumption(c)
                           \/ CommitCompletion(c)
    BY DEF Next, ReadForCreate, ReadOrder, ReadAsset, Begin, RefuseNumber, Rollback, CountOthers,
           CommitDispatch, UpdateAsset, UpdateMeter, RemoveAsset, Edit
  <2>2. NULL # "COMPLETADA" /\ order \in [Orders -> OrderRecord]
    BY NullAssumption DEF IInv, Typed, WorkOrderStatus
  <2>3. ~CommitCreate(c)
    BY <2>2 DEF CommitCreate, Existing
  <2>4. ~CommitCompletion(c)
    <3>1. SUFFICES ASSUME CommitCompletion(c) PROVE FALSE
      OBVIOUS
    <3>2. PICK x : x = call[c].req.order
      OBVIOUS
    <3>3. order' = [order EXCEPT ![x].status = "COMPLETADA"]
      BY <3>1, <3>2 DEF CommitCompletion
    <3> QED
      BY <2>2, <3>3 DEF OrderRecord
  <2>5. CASE WriteOrder(c)
    <3>1. PICK r \in UpdateCall : r = call[c].req
      BY <2>5, RequestKinds DEF WriteOrder, At, IInv, Aware
    <3>2. r.op = "update" /\ r \in OrderCall
      BY DEF UpdateCall, OrderCall
    <3>3. call[c].pc = "seen" /\ call'[c].pc = "idle"
      BY <2>5 DEF WriteOrder, At, End, NoCall, IInv, Typed
    <3>4. call[c].status = "COMPLETADA" => r.status \in {NULL, "COMPLETADA"}
      BY <3>1, <3>2, <3>3 DEF IInv, Aware, Allowed
    <3>5. order' = [order EXCEPT ![r.order] = [order[r.order] EXCEPT
                      !.status = OrElse(r.status, @), !.priority = OrElse(r.priority, @)]]
      BY <2>5, <3>1 DEF WriteOrder
    <3>6. r.order = o /\ r.status \notin {NULL, "COMPLETADA"}
      BY <2>2, <3>5 DEF OrElse, OrderRecord
    <3> QED
      BY <3>1, <3>3, <3>4, <3>6
  <2>6. CASE CommitConsumption(c)
    <3>1. PICK r \in ConsumeCall : r = call[c].req
      BY <2>6, RequestKinds DEF CommitConsumption, At, IInv, Aware
    <3>2. r.op = "consume" /\ r \in OrderCall
      BY DEF ConsumeCall, OrderCall
    <3>3. call[c].pc = "seen" /\ call'[c].pc = "idle"
      BY <2>6 DEF CommitConsumption, At, End, NoCall, IInv, Typed
    <3>4. call[c].status \in Active
      BY <3>1, <3>2, <3>3 DEF IInv, Aware, Allowed
    <3>5. r.order = o
      BY <2>2, <2>6, <3>1 DEF CommitConsumption
    <3> QED
      BY <3>1, <3>3, <3>4, <3>5 DEF Active
  <2> QED
    BY <2>1, <2>3, <2>4, <2>5, <2>6
<1>2. Spec => [][A]_vars
  BY <1>1, SpecIInv, PTL DEF Spec
<1> QED
  BY <1>2 DEF ReopenedOnlyWhenStale

LEMMA SpecEdits == Spec => [](edits \in Nat)
<1>1. Init => edits \in Nat
  BY DEF Init
<1>2. edits \in Nat /\ [Next]_vars => (edits \in Nat)'
  <2> SUFFICES ASSUME edits \in Nat, Next PROVE edits' \in Nat
    BY DEF vars
  <2>1. ASSUME NEW c \in Calls, ReadForCreate(c) \/ ReadOrder(c) \/ ReadAsset(c)
        PROVE  edits' = edits
    BY <2>1 DEF ReadForCreate, ReadOrder, ReadAsset, Begin
  <2>2. ASSUME NEW c \in Calls,
               \/ CommitCreate(c) \/ RefuseNumber(c)
               \/ WriteOrder(c) \/ CommitConsumption(c) \/ Rollback(c)
               \/ CountOthers(c) \/ CommitCompletion(c) \/ CommitDispatch(c)
        PROVE  edits' = edits
    BY <2>2 DEF CommitCreate, RefuseNumber, WriteOrder, CommitConsumption, Rollback,
                CountOthers, CommitCompletion, CommitDispatch
  <2>3. ASSUME NEW a \in Assets, UpdateAsset(a) \/ UpdateMeter(a) \/ RemoveAsset(a)
        PROVE  edits' = edits + 1
    BY <2>3 DEF UpdateAsset, UpdateMeter, RemoveAsset, Edit
  <2> QED
    BY <2>1, <2>2, <2>3 DEF Next
<1> QED
  BY <1>1, <1>2, PTL DEF Spec

\* The hour meter of an asset goes back only by hand, or when a completion or a
\* dispatch commits a reading it had compared with an earlier one.
THEOREM MeterSafety == Spec => MeterGoesBackOnlyWhenStale
<1> DEFINE A == \A a \in Assets : asset'[a].hours < asset[a].hours =>
         \/ edits' # edits
         \/ \E c \in Calls : call'[c] = NoCall /\ call[c].hours \notin {NULL, asset[a].hours}
<1>1. IInv /\ edits \in Nat /\ [Next]_vars => [A]_vars
  <2> SUFFICES ASSUME IInv, edits \in Nat, Next, NEW a \in Assets,
                      asset'[a].hours < asset[a].hours, edits' = edits
               PROVE  \E c \in Calls : /\ call'[c] = NoCall
                                     /\ call[c].hours \notin {NULL, asset[a].hours}
    OBVIOUS
  <2>1. /\ asset \in [Assets -> [status: OperationalStatus, hours: Readings]]
        /\ asset'[a].hours # asset[a].hours
    <3>1. asset \in [Assets -> [status: OperationalStatus, hours: Readings]]
      BY DEF IInv, Typed
    <3>2. asset[a].hours \in Nat
      BY <3>1, ReadingsAssumption
    <3> QED
      BY <3>1, <3>2
  <2>2. PICK c \in Calls : CommitCreate(c) \/ CommitCompletion(c) \/ CommitDispatch(c)
    <3>1. ASSUME NEW c \in Calls, ReadForCreate(c) \/ ReadOrder(c) \/ ReadAsset(c) PROVE FALSE
      BY <2>1, <3>1 DEF ReadForCreate, ReadOrder, ReadAsset, Begin
    <3>2. ASSUME NEW c \in Calls, \/ RefuseNumber(c) \/ Rollback(c) \/ CountOthers(c)
                                  \/ WriteOrder(c) \/ CommitConsumption(c)
          PROVE  FALSE
      BY <2>1, <3>2 DEF RefuseNumber, Rollback, CountOthers, WriteOrder, CommitConsumption
    <3>3. ASSUME NEW b \in Assets, UpdateAsset(b) \/ UpdateMeter(b) \/ RemoveAsset(b)
          PROVE  FALSE
      BY <3>3 DEF UpdateAsset, UpdateMeter, RemoveAsset, Edit
    <3> QED
      BY <3>1, <3>2, <3>3 DEF Next
  <2>3. ~CommitCreate(c)
    BY <2>1 DEF CommitCreate
  <2>4. call'[c] = NoCall
    BY <2>2 DEF CommitCreate, CommitCompletion, CommitDispatch, End, IInv, Typed
  <2>5. call[c].req \in CompleteCall \cup FuelCall /\ call[c].hours \in Readings
    BY <2>2, <2>3, RequestKinds DEF CommitCompletion, CommitDispatch, At, IInv, Aware, OrderCall
  <2>6. asset'[a].hours = Raised(c, asset[a].hours)
    <3>1. CASE CommitDispatch(c)
      <4>1. PICK x : x = call[c].req.asset
        OBVIOUS
      <4>2. asset' = [asset EXCEPT ![x].hours = Raised(c, @)]
        BY <3>1, <4>1 DEF CommitDispatch
      <4> QED
        BY <2>1, <4>2
    <3>2. CASE CommitCompletion(c)
      <4>1. PICK x, n : x = order[call[c].req.order].asset /\ n = call[c].count
        OBVIOUS
      <4>2. asset' = [asset EXCEPT ![x] = [status |-> IF n = 0 THEN "OPERATIVO" ELSE @.status,
                                           hours |-> Raised(c, @.hours)]]
        BY <3>2, <4>1 DEF CommitCompletion
      <4> QED
        BY <2>1, <4>2
    <3> QED
      BY <2>2, <2>3, <3>1, <3>2
  <2>7. call[c].req.hours \in Readings
    BY <2>5, RequestFields
  <2>8. call[c].hours # asset[a].hours
    <3>1. PICK old, given, seen \in Readings :
             old = asset[a].hours /\ given = call[c].req.hours /\ seen = call[c].hours
      BY <2>1, <2>5, <2>7
    <3>2. asset'[a].hours = IF given > seen THEN given ELSE old
      BY <2>6, <3>1 DEF Raised
    <3>3. given > seen /\ given < old
      BY <2>1, <3>1, <3>2
    <3> QED
      BY <3>1, <3>3, ReadingsAssumption
  <2>9. NULL # call[c].hours
    BY <2>5, NullAssumption
  <2> QED
    BY <2>4, <2>8, <2>9
<1>2. Spec => [][A]_vars
  BY <1>1, SpecIInv, SpecEdits, PTL DEF Spec
<1> QED
  BY <1>2 DEF MeterGoesBackOnlyWhenStale
=============================================================================
