--------------------------- MODULE PurchaseOrders ---------------------------
(***************************************************************************)
(* Field requests and purchase orders, one action per database statement   *)
(* of the service methods that write them:                                 *)
(*   RequestsService.create        newRequest                              *)
(*   RequestsService.updateStatus  moveRequest  (no transaction)           *)
(*   OrdersService.create          create                                  *)
(*   OrdersService.updateStatus    decide                                  *)
(*   OrdersService.receiveOrder    receive                                 *)
(* READ COMMITTED: a plain read takes no lock and sees committed rows; an  *)
(* UPDATE and a SELECT FOR UPDATE wait for the transaction that holds the  *)
(* row; what a transaction wrote shows when it commits.  What receiveOrder *)
(* does to Stock is module Inventory.                                      *)
(***************************************************************************)
EXTENDS Integers, FiniteSets

CONSTANTS
    Procs,            \* HTTP calls in flight
    Orders,           \* rows PurchaseOrder can hold
    FieldRequests,    \* rows PurchaseRequest can hold
    Users,
    RoleLimits,       \* maxApprovalAmount of each role of a user, NULL: no limit
    SuperUsers,       \* users with a superKeyHash
    Calls,            \* what a client may ask for
    OpeningOrders, OpeningRequests, OpeningAuths,
    MaxMovements,     \* bound: no new reception of an order that has this many
    NULL

OrderStatus == {"BORRADOR", "PENDIENTE_APROBACION", "APROBADA", "APROBADA_EXCEPCION",
                "RECHAZADA", "EMITIDA", "RECEPCION_PARCIAL", "RECEPCION_TOTAL", "CANCELADA"}
RequestStatus == {"BORRADOR", "PENDIENTE", "APROBADA", "RECHAZADA", "CONVERTIDA"}
Destinations == {"BODEGA", "GARITA_TRANSITO", "ACTIVO_DIRECTO"}
AuthActions == {"APROBADA", "RECHAZADA", "EXCEPCION"}
Folios == {"ST", "OC", "MOV"}

\* A row that was never inserted has status NULL.
OrderRow == [status : OrderStatus \cup {NULL}, total : Nat, dest : Destinations,
             request : FieldRequests \cup {NULL}, asset : BOOLEAN]
NoOrder == [status |-> NULL, total |-> 0, dest |-> "BODEGA", request |-> NULL,
            asset |-> FALSE]
AuthRow == [order : Orders, by : Users, action : AuthActions]

VALID_ORDER_TRANSITIONS ==
    [BORRADOR |-> {"PENDIENTE_APROBACION", "CANCELADA"},
     PENDIENTE_APROBACION |-> {"APROBADA", "APROBADA_EXCEPCION", "RECHAZADA", "CANCELADA"},
     APROBADA |-> {"EMITIDA", "RECEPCION_TOTAL", "CANCELADA"},
     APROBADA_EXCEPCION |-> {"EMITIDA", "RECEPCION_TOTAL", "CANCELADA"},
     EMITIDA |-> {"RECEPCION_PARCIAL", "RECEPCION_TOTAL", "CANCELADA"},
     RECEPCION_PARCIAL |-> {"RECEPCION_TOTAL", "CANCELADA"},
     RECEPCION_TOTAL |-> {}, RECHAZADA |-> {}, CANCELADA |-> {}]

ALLOWED_REQUEST_TRANSITIONS ==
    [BORRADOR |-> {"PENDIENTE", "APROBADA", "RECHAZADA"},
     PENDIENTE |-> {"APROBADA", "RECHAZADA"},
     APROBADA |-> {"CONVERTIDA", "RECHAZADA"},
     RECHAZADA |-> {}, CONVERTIDA |-> {}]

Closed == {"RECHAZADA", "RECEPCION_TOTAL", "CANCELADA"}
Receivable == {"APROBADA", "APROBADA_EXCEPCION", "EMITIDA", "RECEPCION_PARCIAL"}
Cleared == Receivable \cup {"RECEPCION_TOTAL"}

\* Calls, as the controllers hand them over; NULL is an optional field left out.
NewRequestCall == [op : {"newRequest"}, request : FieldRequests,
                   status : RequestStatus \cup {NULL}]
MoveRequestCall == [op : {"moveRequest"}, request : FieldRequests, status : RequestStatus]
CreateCall == [op : {"create"}, order : Orders, request : FieldRequests \cup {NULL},
               total : Nat, dest : Destinations \cup {NULL}, asset : BOOLEAN]
DecideCall == [op : {"decide"}, order : Orders, by : Users, superKey : BOOLEAN,
               action : AuthActions \cup {NULL}, status : OrderStatus \cup {NULL}]
ReceiveCall == [op : {"receive"}, order : Orders, dest : Destinations \cup {NULL},
                asset : BOOLEAN, warehouse : BOOLEAN]
Call == NewRequestCall \cup MoveRequestCall \cup CreateCall \cup DecideCall \cup ReceiveCall
NoCall == [op |-> "none"]

\* updateStatus: any role without a limit, or the highest limit covers the total.
CanApprove(user, total) ==
    \E limit \in RoleLimits[user] : limit # NULL => total <= limit

\* An authorization row that clears an order of this total.
Clears(auth, total) ==
    \/ auth.action = "APROBADA" /\ CanApprove(auth.by, total)
    \/ auth.action = "EXCEPCION" /\ auth.by \in SuperUsers

ASSUME PurchaseAssumption ==
    /\ NULL \notin Procs \cup FieldRequests \cup Nat
    /\ NULL \notin OrderStatus \cup RequestStatus \cup Destinations \cup AuthActions
    /\ RoleLimits \in [Users -> SUBSET (Nat \cup {NULL})]
    /\ Calls \subseteq Call
    /\ OpeningOrders \in [Orders -> OrderRow]
    /\ OpeningRequests \in [FieldRequests -> RequestStatus \cup {NULL}]
    /\ OpeningAuths \subseteq AuthRow
    /\ \A o \in Orders : OpeningOrders[o].status \in Cleared =>
          \E a \in OpeningAuths : a.order = o /\ Clears(a, OpeningOrders[o].total)
    /\ MaxMovements \in Nat

VARIABLES
    orders, requests,   \* committed rows
    auths,              \* committed rows of table Authorization
    moved,              \* committed reception movements, per order and destination
    orderLock, requestLock,  \* row locks
    folioLock,          \* advisory locks of the running month
    pc, call

vars == <<orders, requests, auths, moved, orderLock, requestLock, folioLock, pc, call>>
tables == <<orders, requests, auths, moved>>
locks == <<orderLock, requestLock, folioLock>>

Init ==
    /\ orders = OpeningOrders
    /\ requests = OpeningRequests
    /\ auths = OpeningAuths
    /\ moved = [o \in Orders |-> [d \in Destinations |-> 0]]
    /\ orderLock = [o \in Orders |-> NULL]
    /\ requestLock = [r \in FieldRequests |-> NULL]
    /\ folioLock = [f \in Folios |-> NULL]
    /\ pc = [p \in Procs |-> "idle"]
    /\ call = [p \in Procs |-> NoCall]

-----------------------------------------------------------------------------
(* Call plumbing *)

Order(p) == call[p].order
OrElse(given, default) == IF given = NULL THEN default ELSE given
Goto(p, step) == pc' = [pc EXCEPT ![p] = step]

\* A new row gets an id of its own; MaxMovements bounds the receptions.
Fresh(c) ==
    CASE c.op = "create" ->
            /\ orders[c.order].status = NULL
            /\ \A q \in Procs : call[q].op = "create" => call[q].order # c.order
      [] c.op = "newRequest" ->
            /\ requests[c.request] = NULL
            /\ \A q \in Procs : call[q].op = "newRequest" => call[q].request # c.request
      [] c.op = "receive" ->
            moved[c.order][OrElse(c.dest, orders[c.order].dest)] < MaxMovements
      [] OTHER -> TRUE

FirstStep(c) ==
    CASE c.op = "newRequest" -> "folio"
      [] c.op = "create" -> IF c.request = NULL THEN "folio" ELSE "read"
      [] c.op = "receive" -> "lock"
      [] OTHER -> "read"

Begin(p, c) ==
    /\ pc[p] = "idle" /\ Fresh(c)
    /\ call' = [call EXCEPT ![p] = c]
    /\ Goto(p, FirstStep(c))
    /\ UNCHANGED <<tables, locks>>

\* Wrong on purpose: the lock of a converted request is never released.
EndKeepingRequest(p) ==
    /\ Goto(p, "idle")
    /\ call' = [call EXCEPT ![p] = NoCall]
    /\ orderLock' = [o \in Orders |-> IF orderLock[o] = p THEN NULL ELSE orderLock[o]]
    /\ folioLock' = [f \in Folios |-> IF folioLock[f] = p THEN NULL ELSE folioLock[f]]
    /\ UNCHANGED requestLock

\* The answer goes out and the transaction's locks are free again.
End(p) ==
    /\ Goto(p, "idle")
    /\ call' = [call EXCEPT ![p] = NoCall]
    /\ orderLock' = [o \in Orders |-> IF orderLock[o] = p THEN NULL ELSE orderLock[o]]
    /\ requestLock' = [r \in FieldRequests |-> IF requestLock[r] = p THEN NULL
                                              ELSE requestLock[r]]
    /\ folioLock' = [f \in Folios |-> IF folioLock[f] = p THEN NULL ELSE folioLock[f]]

At(p, op, step) == call[p].op = op /\ pc[p] = step

\* pg_advisory_xact_lock, held to the end of the transaction.
Folio(p) ==
    CASE call[p].op = "newRequest" -> "ST" [] call[p].op = "create" -> "OC" [] OTHER -> "MOV"
LockFolio(p) ==
    /\ pc[p] = "folio"
    /\ folioLock[Folio(p)] = NULL
    /\ folioLock' = [folioLock EXCEPT ![Folio(p)] = p]
    /\ Goto(p, IF call[p].op = "receive" THEN "post" ELSE "commit")
    /\ UNCHANGED <<tables, orderLock, requestLock, call>>

-----------------------------------------------------------------------------
(* RequestsService *)

\* The new request is PENDIENTE unless the client names another status.
CommitNewRequest(p) ==
    /\ At(p, "newRequest", "commit")
    /\ requests' = [requests EXCEPT ![call[p].request] = OrElse(call[p].status, "PENDIENTE")]
    /\ End(p)
    /\ UNCHANGED <<orders, auths, moved>>

\* updateStatus reads the request and checks the move against what it read.
MoveAllowed(from, to) == from # NULL /\ to \in ALLOWED_REQUEST_TRANSITIONS[from]
ReadRequest(p) ==
    /\ At(p, "moveRequest", "read")
    /\ MoveAllowed(requests[call[p].request], call[p].status)
    /\ Goto(p, "write")
    /\ UNCHANGED <<tables, locks, call>>

\* Its update, a statement of its own: by id, whatever the status is by now.
WriteRequest(p) ==
    /\ At(p, "moveRequest", "write")
    /\ requestLock[call[p].request] = NULL
    /\ requests' = [requests EXCEPT ![call[p].request] = call[p].status]
    /\ End(p)
    /\ UNCHANGED <<orders, auths, moved>>

-----------------------------------------------------------------------------
(* OrdersService.create *)

\* The linked request must be APROBADA; the read takes no lock.
ReadForOrder(p) ==
    /\ At(p, "create", "read")
    /\ requests[call[p].request] = "APROBADA"
    /\ Goto(p, "convert")
    /\ UNCHANGED <<tables, locks, call>>

\* Its status becomes CONVERTIDA: the row is locked until the transaction ends.
ConvertRequest(p) ==
    /\ At(p, "create", "convert")
    /\ requestLock[call[p].request] = NULL
    /\ requestLock' = [requestLock EXCEPT ![call[p].request] = p]
    /\ Goto(p, "folio")
    /\ UNCHANGED <<tables, orderLock, folioLock, call>>

CommitCreate(p) ==
    /\ At(p, "create", "commit")
    /\ orders' = [orders EXCEPT ![Order(p)] =
                    [status |-> "PENDIENTE_APROBACION", total |-> call[p].total,
                     dest |-> OrElse(call[p].dest, "BODEGA"), request |-> call[p].request,
                     asset |-> call[p].asset]]
    /\ requests' = [r \in FieldRequests |-> IF r = call[p].request THEN "CONVERTIDA"
                                           ELSE requests[r]]
    /\ End(p)
    /\ UNCHANGED <<auths, moved>>

-----------------------------------------------------------------------------
(* OrdersService.updateStatus *)

\* The status a call asks for: its action first, then its status field.
Asked(c) ==
    CASE c.action = "APROBADA" -> "APROBADA"
      [] c.action = "RECHAZADA" -> "RECHAZADA"
      [] c.action = "EXCEPCION" -> "APROBADA_EXCEPCION"
      [] OTHER -> c.status

\* Wrong on purpose: an optional field left out stays out.
RecordedAsGiven(c) == c.action

\* The action recorded when the client gave none.
Recorded(c) ==
    CASE c.action # NULL -> c.action
      [] c.action = NULL /\ Asked(c) = "APROBADA" -> "APROBADA"
      [] c.action = NULL /\ Asked(c) = "APROBADA_EXCEPCION" -> "EXCEPCION"
      [] OTHER -> "RECHAZADA"

\* Wrong on purpose: nobody compares the total with the limit.
DecidableByAnyone(c, row) ==
    /\ row.status # NULL /\ row.status \notin Closed
    /\ Asked(c) \in VALID_ORDER_TRANSITIONS[row.status]
    /\ Asked(c) = "APROBADA_EXCEPCION" => c.superKey /\ c.by \in SuperUsers

Decidable(c, row) ==
    /\ row.status # NULL /\ row.status \notin Closed
    /\ Asked(c) \in VALID_ORDER_TRANSITIONS[row.status]
    /\ Asked(c) = "APROBADA" => CanApprove(c.by, row.total)
    /\ Asked(c) = "APROBADA_EXCEPCION" => c.superKey /\ c.by \in SuperUsers

\* Every check is made against a row read without a lock.
ReadOrder(p) ==
    /\ At(p, "decide", "read")
    /\ Decidable(call[p], orders[Order(p)])
    /\ Goto(p, "write")
    /\ UNCHANGED <<tables, locks, call>>

\* authorization.create, then the update of the order by id: it waits for a
\* reception or another decision to end, and does not look at the row again.
WriteOrder(p) ==
    /\ At(p, "decide", "write")
    /\ orderLock[Order(p)] = NULL
    /\ orderLock' = [orderLock EXCEPT ![Order(p)] = p]
    /\ Goto(p, "commit")
    /\ UNCHANGED <<tables, requestLock, folioLock, call>>

CommitDecision(p) ==
    /\ At(p, "decide", "commit")
    /\ orders' = [orders EXCEPT ![Order(p)].status = Asked(call[p])]
    /\ auths' = auths \cup {[order |-> Order(p), by |-> call[p].by,
                             action |-> Recorded(call[p])]}
    /\ End(p)
    /\ UNCHANGED <<requests, moved>>

-----------------------------------------------------------------------------
(* OrdersService.receiveOrder *)

\* Wrong on purpose: a SELECT without FOR UPDATE.
LockOrderNot(p) ==
    /\ At(p, "receive", "lock")
    /\ orders[Order(p)].status \in Receivable
    /\ Goto(p, "folio")
    /\ UNCHANGED <<tables, locks, call>>

\* SELECT ... FOR UPDATE, then the check of the row as it is under the lock.
LockOrder(p) ==
    /\ At(p, "receive", "lock")
    /\ orderLock[Order(p)] = NULL
    /\ orders[Order(p)].status \in Receivable
    /\ orderLock' = [orderLock EXCEPT ![Order(p)] = p]
    /\ Goto(p, "folio")
    /\ UNCHANGED <<tables, requestLock, folioLock, call>>

\* destination || receptionDestination || BODEGA
Destination(p) == OrElse(call[p].dest, orders[Order(p)].dest)
HasAsset(p) == call[p].asset \/ orders[Order(p)].asset
Deliverable(p) == call[p].warehouse /\ (Destination(p) = "ACTIVO_DIRECTO" => HasAsset(p))

PostMovement(p) ==
    /\ At(p, "receive", "post")
    /\ Deliverable(p)
    /\ Goto(p, "commit")
    /\ UNCHANGED <<tables, locks, call>>

\* One movement, and the order ends in RECEPCION_TOTAL unless the goods only
\* passed the gate.
CommitReception(p) ==
    /\ At(p, "receive", "commit")
    /\ moved' = [moved EXCEPT ![Order(p)][Destination(p)] = @ + 1]
    /\ orders' = [orders EXCEPT ![Order(p)] =
                    [status |-> IF Destination(p) = "GARITA_TRANSITO"
                                THEN "RECEPCION_PARCIAL" ELSE "RECEPCION_TOTAL",
                     total |-> @.total, dest |-> Destination(p), request |-> @.request,
                     asset |-> @.asset \/ (Destination(p) = "ACTIVO_DIRECTO")]]
    /\ End(p)
    /\ UNCHANGED <<requests, auths>>

-----------------------------------------------------------------------------
(* Ends without an effect *)

\* Where a service method throws, or returns the request it read unchanged.
Refused(p) ==
    \/ /\ At(p, "moveRequest", "read")
       /\ ~MoveAllowed(requests[call[p].request], call[p].status)
    \/ At(p, "create", "read") /\ requests[call[p].request] # "APROBADA"
    \/ At(p, "decide", "read") /\ ~Decidable(call[p], orders[Order(p)])
    \/ /\ At(p, "receive", "lock") /\ orderLock[Order(p)] = NULL
       /\ orders[Order(p)].status \notin Receivable
    \/ At(p, "receive", "post") /\ ~Deliverable(p)

Reject(p) ==
    /\ Refused(p)
    /\ End(p)
    /\ UNCHANGED tables

\* A lost connection, the transaction's time limit, a folio already taken.
Rollback(p) ==
    /\ pc[p] # "idle"
    /\ End(p)
    /\ UNCHANGED tables

Step(p) ==
    \/ LockFolio(p) \/ CommitNewRequest(p)
    \/ ReadRequest(p) \/ WriteRequest(p)
    \/ ReadForOrder(p) \/ ConvertRequest(p) \/ CommitCreate(p)
    \/ ReadOrder(p) \/ WriteOrder(p) \/ CommitDecision(p)
    \/ LockOrder(p) \/ PostMovement(p) \/ CommitReception(p)
    \/ Reject(p)

Next ==
    \E p \in Procs : (\E c \in Calls : Begin(p, c)) \/ Step(p) \/ Rollback(p)

Spec == Init /\ [][Next]_vars

\* The event loop runs every call that can run and the database hands a free
\* lock to one of those that wait for it, again and again: strong fairness for
\* the statements that wait.
Fairness == \A p \in Procs : SF_vars(Step(p))
FairSpec == Spec /\ Fairness

-----------------------------------------------------------------------------
(* Properties *)

TypeOK ==
    /\ orders \in [Orders -> OrderRow]
    /\ requests \in [FieldRequests -> RequestStatus \cup {NULL}]
    /\ auths \subseteq AuthRow
    /\ moved \in [Orders -> [Destinations -> Nat]]
    /\ orderLock \in [Orders -> Procs \cup {NULL}]
    /\ requestLock \in [FieldRequests -> Procs \cup {NULL}]
    /\ folioLock \in [Folios -> Procs \cup {NULL}]
    /\ pc \in [Procs -> {"idle", "folio", "read", "convert", "write", "lock", "post", "commit"}]
    /\ call \in [Procs -> Calls \cup {NoCall}]

\* No order is cleared and no goods of it move, at the gate, into a warehouse
\* or to an asset, unless somebody whose limit covers its total approved it or
\* a holder of a super key let it through, whatever decisions raced.
GoodsOnlyWhenAuthorised ==
    \A o \in Orders :
        orders[o].status \in Cleared \/ (\E d \in Destinations : moved[o][d] > 0)
            => \E a \in auths : a.order = o /\ Clears(a, orders[o].total)

\* A reception commits onto an order that is still receivable at that moment:
\* nothing cancels or completes it between the check and the movement.
ReceptionOfOpenOrder ==
    [][\A o \in Orders : moved'[o] # moved[o] => orders[o].status \in Receivable]_vars

\* An order that is received, rejected or cancelled stays so, whatever races,
\* unless a decision that had read it while it was open writes it last.
ReopenedOnlyByDecision ==
    [][\A o \in Orders :
          orders[o].status \in Closed /\ orders'[o].status # orders[o].status
              => \E p \in Procs : At(p, "decide", "commit") /\ Order(p) = o]_vars

\* Every call is answered.
EveryCallEnds == \A p \in Procs : pc[p] # "idle" ~> pc[p] = "idle"
=============================================================================
