------------------------ MODULE PurchaseOrders_proofs ------------------------
(***************************************************************************)
(* What PurchaseOrders guarantees for any number of calls in flight, any   *)
(* orders, requests, users and role limits.                                *)
(***************************************************************************)
EXTENDS PurchaseOrders, TLAPS

\* Somebody entitled to it cleared order o.
Authorised(o) == \E a \in auths : a.order = o /\ Clears(a, orders[o].total)

\* The statements a call of each kind can be at.
Phase(p) ==
    /\ pc[p] = "idle" => call[p] = NoCall
    /\ call[p].op = "decide" => pc[p] \in {"read", "write", "commit"}
    /\ call[p].op = "receive" => pc[p] \in {"lock", "folio", "post", "commit"}

\* The row a create is about to insert is not there, and is nobody else's.
Creating(p) ==
    call[p].op = "create" =>
        /\ orders[call[p].order].status = NULL
        /\ \A q \in Procs \ {p} : call[q].op = "create" => call[q].order # call[p].order

\* What a decision that passed its checks knows, however stale its read is.
Deciding(p) ==
    call[p].op = "decide" /\ pc[p] \in {"write", "commit"} =>
        /\ orders[call[p].order].status # NULL
        /\ Asked(call[p]) \in OrderStatus
        /\ Asked(call[p]) = "APROBADA" => CanApprove(call[p].by, orders[call[p].order].total)
        /\ Asked(call[p]) = "APROBADA_EXCEPCION" => call[p].by \in SuperUsers
        /\ Asked(call[p]) \in Cleared \ {"APROBADA", "APROBADA_EXCEPCION"}
              => Authorised(call[p].order)
        /\ pc[p] = "commit" => orderLock[call[p].order] = p

\* A reception past its FOR UPDATE holds an order that is still receivable.
Receiving(p) ==
    call[p].op = "receive" /\ pc[p] \in {"folio", "post", "commit"} =>
        /\ orderLock[call[p].order] = p
        /\ orders[call[p].order].status \in Receivable

\* Only an inserted order has movements.
Inserted == \A o \in Orders : \A d \in Destinations :
                moved[o][d] > 0 => orders[o].status # NULL

CallsSound == \A p \in Procs : Phase(p) /\ Creating(p) /\ Deciding(p) /\ Receiving(p)

\* The inductive invariant: what is promised, and what every call in flight
\* must know for the promise to survive its commit.
IInv == TypeOK /\ GoodsOnlyWhenAuthorised /\ Inserted /\ CallsSound

-----------------------------------------------------------------------------
(* Calls *)

\* A call's op tells which fields it has.
LEMMA CallKinds ==
    ASSUME NEW c \in Calls \cup {NoCall}
    PROVE  /\ c.op = "newRequest" => c \in NewRequestCall
           /\ c.op = "moveRequest" => c \in MoveRequestCall
           /\ c.op = "create" => c \in CreateCall
           /\ c.op = "decide" => c \in DecideCall
           /\ c.op = "receive" => c \in ReceiveCall
           /\ c # NoCall => c.op \in {"newRequest", "moveRequest", "create", "decide", "receive"}
  BY PurchaseAssumption
     DEF PurchaseAssumption, Call, NewRequestCall, MoveRequestCall, CreateCall, DecideCall,
         ReceiveCall, NoCall

\* The authorization row agrees with the status a decision asks for.
LEMMA AskedRecorded ==
    ASSUME NEW c \in DecideCall
    PROVE  /\ Asked(c) \in OrderStatus \cup {NULL}
           /\ Recorded(c) \in AuthActions
           /\ Asked(c) = "APROBADA" => Recorded(c) = "APROBADA"
           /\ Asked(c) = "APROBADA_EXCEPCION" => Recorded(c) = "EXCEPCION"
  BY PurchaseAssumption
     DEF PurchaseAssumption, DecideCall, Asked, Recorded, AuthActions, OrderStatus

\* The transition table lets nothing into the cleared statuses but through
\* APROBADA and APROBADA_EXCEPCION.
LEMMA ClearedOnlyThroughApproval ==
    ASSUME NEW from \in OrderStatus, NEW to \in VALID_ORDER_TRANSITIONS[from],
           to \in Cleared \ {"APROBADA", "APROBADA_EXCEPCION"}
    PROVE  from \in Cleared
  BY DEF OrderStatus, VALID_ORDER_TRANSITIONS, Cleared, Receivable

-----------------------------------------------------------------------------
(* Types *)

LEMMA InitType == Init => TypeOK
  BY PurchaseAssumption
     DEF PurchaseAssumption, Init, TypeOK, NoCall, Folios

LEMMA EndType ==
    ASSUME TypeOK, NEW p \in Procs, End(p)
    PROVE  /\ orderLock' \in [Orders -> Procs \cup {NULL}]
           /\ requestLock' \in [FieldRequests -> Procs \cup {NULL}]
           /\ folioLock' \in [Folios -> Procs \cup {NULL}]
           /\ pc' \in [Procs -> {"idle", "folio", "read", "convert", "write", "lock", "post",
                                 "commit"}]
           /\ call' \in [Procs -> Calls \cup {NoCall}]
  BY DEF TypeOK, End, Goto

LEMMA TypeStep == TypeOK /\ [Next]_vars => TypeOK'
<1> SUFFICES ASSUME TypeOK, [Next]_vars PROVE TypeOK'
  OBVIOUS
<1>1. CASE UNCHANGED vars
  BY <1>1 DEF TypeOK, vars
<1>2. ASSUME NEW p \in Procs, NEW c \in Calls, Begin(p, c) PROVE TypeOK'
  BY <1>2 DEF Begin, TypeOK, tables, locks, Goto, FirstStep
<1>3. ASSUME NEW p \in Procs, Step(p) PROVE TypeOK'
  <2>1. CASE LockFolio(p)
    BY <2>1 DEF LockFolio, Folio, Folios, TypeOK, tables, Goto
  <2>2. CASE CommitNewRequest(p)
    <3>1. call[p] \in NewRequestCall
      BY <2>2, CallKinds DEF CommitNewRequest, At, TypeOK
    <3>2. OrElse(call[p].status, "PENDIENTE") \in RequestStatus
      BY <3>1 DEF NewRequestCall, OrElse, RequestStatus
    <3>3. requests' \in [FieldRequests -> RequestStatus \cup {NULL}]
      BY <2>2, <3>2 DEF CommitNewRequest, TypeOK
    <3> QED
      BY <2>2, <3>3, EndType DEF CommitNewRequest, TypeOK
  <2>3. CASE ReadRequest(p)
    BY <2>3 DEF ReadRequest, TypeOK, tables, locks, Goto
  <2>4. CASE WriteRequest(p)
    <3>1. call[p] \in MoveRequestCall
      BY <2>4, CallKinds DEF WriteRequest, At, TypeOK
    <3>2. requests' \in [FieldRequests -> RequestStatus \cup {NULL}]
      BY <2>4, <3>1 DEF WriteRequest, MoveRequestCall, TypeOK
    <3> QED
      BY <2>4, <3>2, EndType DEF WriteRequest, TypeOK
  <2>5. CASE ReadForOrder(p)
    BY <2>5 DEF ReadForOrder, TypeOK, tables, locks, Goto
  <2>6. CASE ConvertRequest(p)
    BY <2>6 DEF ConvertRequest, TypeOK, tables, Goto
  <2>7. CASE CommitCreate(p)
    <3>1. call[p] \in CreateCall
      BY <2>7, CallKinds DEF CommitCreate, At, TypeOK
    <3>2. [status |-> "PENDIENTE_APROBACION", total |-> call[p].total,
           dest |-> OrElse(call[p].dest, "BODEGA"), request |-> call[p].request,
           asset |-> call[p].asset] \in OrderRow
      BY <3>1 DEF CreateCall, OrElse, Destinations, OrderRow, OrderStatus
    <3>3. orders' \in [Orders -> OrderRow]
      BY <2>7, <3>2 DEF CommitCreate, TypeOK
    <3>4. requests' \in [FieldRequests -> RequestStatus \cup {NULL}]
      BY <2>7 DEF CommitCreate, TypeOK, RequestStatus
    <3> QED
      BY <2>7, <3>3, <3>4, EndType DEF CommitCreate, TypeOK
  <2>8. CASE ReadOrder(p)
    BY <2>8 DEF ReadOrder, TypeOK, tables, locks, Goto
  <2>9. CASE WriteOrder(p)
    BY <2>9 DEF WriteOrder, TypeOK, tables, Goto
  <2>10. CASE CommitDecision(p)
    <3>1. call[p] \in DecideCall
      BY <2>10, CallKinds DEF CommitDecision, At, TypeOK
    <3>2. orders' \in [Orders -> OrderRow]
      <4>1. Asked(call[p]) \in OrderStatus \cup {NULL}
        BY <3>1, AskedRecorded
      <4> QED
        BY <2>10, <4>1 DEF CommitDecision, TypeOK, OrderRow
    <3>3. auths' \subseteq AuthRow
      BY <2>10, <3>1, AskedRecorded
         DEF CommitDecision, TypeOK, AuthRow, DecideCall, Order
    <3> QED
      BY <2>10, <3>2, <3>3, EndType DEF CommitDecision, TypeOK
  <2>11. CASE LockOrder(p)
    BY <2>11 DEF LockOrder, TypeOK, tables, Goto
  <2>12. CASE PostMovement(p)
    BY <2>12 DEF PostMovement, TypeOK, tables, locks, Goto
  <2>13. CASE CommitReception(p)
    <3>1. call[p] \in ReceiveCall
      BY <2>13, CallKinds DEF CommitReception, At, TypeOK
    <3>2. orders[Order(p)] \in OrderRow
      BY <3>1 DEF TypeOK, Order, ReceiveCall
    <3>3. Destination(p) \in Destinations
      BY <3>1, <3>2 DEF ReceiveCall, Destination, OrElse, OrderRow
    <3>4. orders' \in [Orders -> OrderRow]
      <4> DEFINE new == [status |-> IF Destination(p) = "GARITA_TRANSITO"
                                    THEN "RECEPCION_PARCIAL" ELSE "RECEPCION_TOTAL",
                         total |-> orders[Order(p)].total, dest |-> Destination(p),
                         request |-> orders[Order(p)].request,
                         asset |-> orders[Order(p)].asset \/ Destination(p) = "ACTIVO_DIRECTO"]
      <4>1. new \in OrderRow
        BY <3>2, <3>3 DEF OrderRow, OrderStatus
      <4>2. orders' = [orders EXCEPT ![Order(p)] = new]
        BY <2>13, <3>1 DEF CommitReception, Order, ReceiveCall, TypeOK
      <4> HIDE DEF new
      <4> QED
        BY <4>1, <4>2 DEF TypeOK
    <3>5. moved' \in [Orders -> [Destinations -> Nat]]
      BY <2>13, <3>1, <3>3 DEF CommitReception, TypeOK, Order, ReceiveCall
    <3> QED
      BY <2>13, <3>4, <3>5, EndType DEF CommitReception, TypeOK
  <2>14. CASE Reject(p)
    BY <2>14, EndType DEF Reject, tables, TypeOK
  <2> QED
    BY <1>3, <2>1, <2>2, <2>3, <2>4, <2>5, <2>6, <2>7, <2>8, <2>9, <2>10, <2>11, <2>12,
       <2>13, <2>14 DEF Step
<1>4. ASSUME NEW p \in Procs, Rollback(p) PROVE TypeOK'
  BY <1>4, EndType DEF Rollback, tables, TypeOK
<1> QED
  BY <1>1, <1>2, <1>3, <1>4 DEF Next

\* Type correctness: the tables hold rows of the schema's enums, and the locks
\* and calls in flight are well formed, in every reachable state.
THEOREM TypeCorrect == Spec => []TypeOK
  BY InitType, TypeStep, PTL DEF Spec

-----------------------------------------------------------------------------
(* The inductive invariant *)

LEMMA InitIInv == Init => IInv
<1> SUFFICES ASSUME Init PROVE IInv
  OBVIOUS
<1>1. TypeOK
  BY InitType
<1>2. GoodsOnlyWhenAuthorised
  BY PurchaseAssumption DEF PurchaseAssumption, Init, GoodsOnlyWhenAuthorised
<1>3. Inserted
  BY DEF Init, Inserted
<1>4. CallsSound
  BY DEF Init, CallsSound, Phase, Creating, Deciding, Receiving, NoCall
<1> QED
  BY <1>1, <1>2, <1>3, <1>4 DEF IInv

\* A step of p that writes neither orders nor authorizations nor movements, and
\* takes no lock from another call, leaves the promises and what the other
\* calls know as they were.
LEMMA PrivateStep ==
    ASSUME IInv, NEW p \in Procs, TypeOK', UNCHANGED <<orders, auths, moved>>,
           \A q \in Procs \ {p} : pc'[q] = pc[q] /\ call'[q] = call[q],
           call'[p] \in {call[p], NoCall},
           \A q \in Procs \ {p}, o \in Orders : orderLock[o] = q => orderLock'[o] = q,
           Phase(p)', Deciding(p)', Receiving(p)'
    PROVE  IInv'
<1>1. GoodsOnlyWhenAuthorised' /\ Inserted'
  BY DEF IInv, GoodsOnlyWhenAuthorised, Inserted, Clears, CanApprove
<1>2. ASSUME NEW q \in Procs PROVE Creating(q)'
  BY DEF IInv, CallsSound, Creating, NoCall
<1>3. ASSUME NEW q \in Procs \ {p} PROVE Phase(q)' /\ Deciding(q)' /\ Receiving(q)'
  <2>1. Phase(q)'
    BY DEF IInv, CallsSound, Phase
  <2>2. call[q].op = "decide" => call[q].order \in Orders
    BY CallKinds DEF IInv, TypeOK, DecideCall
  <2>3. call[q].op = "receive" => call[q].order \in Orders
    BY CallKinds DEF IInv, TypeOK, ReceiveCall
  <2>4. Deciding(q)'
    BY <2>2 DEF IInv, CallsSound, Deciding, Authorised, Clears, CanApprove, Asked
  <2>5. Receiving(q)'
    BY <2>3 DEF IInv, CallsSound, Receiving
  <2> QED
    BY <2>1, <2>4, <2>5
<1> QED
  BY <1>1, <1>2, <1>3 DEF IInv, CallsSound

\* A call that ends takes nobody else's lock and knows nothing any more.
LEMMA EndCall ==
    ASSUME TypeOK, NEW p \in Procs, End(p)
    PROVE  /\ \A q \in Procs \ {p} : pc'[q] = pc[q] /\ call'[q] = call[q]
           /\ call'[p] = NoCall /\ pc'[p] = "idle"
           /\ \A q \in Procs \ {p}, o \in Orders : orderLock[o] = q => orderLock'[o] = q
           /\ Phase(p)' /\ Creating(p)' /\ Deciding(p)' /\ Receiving(p)'
<1>1. \A q \in Procs \ {p} : pc'[q] = pc[q] /\ call'[q] = call[q]
  BY DEF TypeOK, End, Goto
<1>2. call'[p] = NoCall /\ pc'[p] = "idle"
  BY DEF TypeOK, End, Goto
<1>3. \A q \in Procs \ {p}, o \in Orders : orderLock[o] = q => orderLock'[o] = q
  BY DEF TypeOK, End
<1>4. Phase(p)' /\ Creating(p)' /\ Deciding(p)' /\ Receiving(p)'
  BY <1>2 DEF Phase, Creating, Deciding, Receiving, NoCall
<1> QED
  BY <1>1, <1>2, <1>3, <1>4

LEMMA QuietEnd ==
    ASSUME IInv, NEW p \in Procs, TypeOK', End(p), UNCHANGED <<orders, auths, moved>>
    PROVE  IInv'
  BY EndCall, PrivateStep DEF IInv

LEMMA BeginStep ==
    ASSUME IInv, TypeOK', NEW p \in Procs, NEW c \in Calls, Begin(p, c)
    PROVE  IInv'
<1>1. /\ pc'[p] = FirstStep(c) /\ call'[p] = c
      /\ \A q \in Procs \ {p} : pc'[q] = pc[q] /\ call'[q] = call[q]
      /\ orderLock' = orderLock /\ UNCHANGED tables
  BY DEF IInv, TypeOK, Begin, Goto, locks
<1>2. GoodsOnlyWhenAuthorised' /\ Inserted'
  BY <1>1 DEF IInv, GoodsOnlyWhenAuthorised, Inserted, Clears, CanApprove, tables
<1>3. ASSUME NEW q \in Procs PROVE Phase(q)'
  <2>1. CASE q = p
    BY <1>1, <2>1, CallKinds DEF Phase, FirstStep, NoCall
  <2>2. CASE q # p
    BY <1>1, <2>2 DEF IInv, CallsSound, Phase
  <2> QED
    BY <2>1, <2>2
<1>4. ASSUME NEW q \in Procs PROVE Creating(q)'
  <2>1. c.op = "create" => /\ orders[c.order].status = NULL
                           /\ \A r \in Procs : call[r].op = "create" => call[r].order # c.order
    BY DEF Begin, Fresh
  <2> QED
    BY <1>1, <2>1 DEF IInv, CallsSound, Creating, tables
<1>5. ASSUME NEW q \in Procs PROVE Deciding(q)' /\ Receiving(q)'
  <2>1. CASE q = p
    BY <1>1, <2>1 DEF Deciding, Receiving, FirstStep
  <2>2. CASE q # p
    <3>1. Deciding(q)'
      BY <1>1, <2>2 DEF IInv, CallsSound, Deciding, Authorised, Clears, CanApprove, Asked, tables
    <3>2. Receiving(q)'
      BY <1>1, <2>2 DEF IInv, CallsSound, Receiving, tables
    <3> QED
      BY <3>1, <3>2
  <2> QED
    BY <2>1, <2>2
<1> QED
  BY <1>2, <1>3, <1>4, <1>5 DEF IInv, CallsSound

\* The statements that only read, or take a lock: what a call knows after a check
\* is what it checked.
LEMMA LocalSteps ==
    ASSUME IInv, TypeOK', NEW p \in Procs,
           \/ LockFolio(p) \/ ReadRequest(p) \/ ReadForOrder(p) \/ ConvertRequest(p)
           \/ ReadOrder(p) \/ WriteOrder(p) \/ LockOrder(p) \/ PostMovement(p)
    PROVE  IInv'
<1>1. /\ UNCHANGED <<orders, auths, moved, call>>
      /\ \A q \in Procs \ {p} : pc'[q] = pc[q] /\ call'[q] = call[q]
  BY DEF IInv, TypeOK, tables, locks, Goto, LockFolio, ReadRequest, ReadForOrder,
         ConvertRequest, ReadOrder, WriteOrder, LockOrder, PostMovement
<1>2. call[p].op = "decide" => call[p] \in DecideCall
  BY CallKinds DEF IInv, TypeOK
<1>3. call[p].op = "receive" => call[p] \in ReceiveCall
  BY CallKinds DEF IInv, TypeOK
<1>4. \A q \in Procs \ {p}, o \in Orders : orderLock[o] = q => orderLock'[o] = q
  <2>1. orderLock' = orderLock \/ WriteOrder(p) \/ LockOrder(p)
    BY DEF locks, LockFolio, ReadRequest, ReadForOrder, ConvertRequest, ReadOrder, PostMovement
  <2>2. ASSUME WriteOrder(p) \/ LockOrder(p), NEW q \in Procs \ {p}, NEW o \in Orders,
               orderLock[o] = q
        PROVE  orderLock'[o] = q
    BY <2>2, PurchaseAssumption DEF PurchaseAssumption, IInv, TypeOK, WriteOrder, LockOrder, Order
  <2> QED
    BY <2>1, <2>2
<1>5. Phase(p)'
  <2>1. pc'[p] # "idle"
    BY DEF IInv, TypeOK, Goto, LockFolio, ReadRequest, ReadForOrder, ConvertRequest, ReadOrder,
           WriteOrder, LockOrder, PostMovement
  <2>2. call[p].op = "decide" => pc'[p] \in {"read", "write", "commit"}
    BY DEF IInv, TypeOK, CallsSound, Phase, At, Goto, LockFolio, ReadRequest, ReadForOrder,
           ConvertRequest, ReadOrder, WriteOrder, LockOrder, PostMovement
  <2>3. call[p].op = "receive" => pc'[p] \in {"lock", "folio", "post", "commit"}
    BY DEF IInv, TypeOK, CallsSound, Phase, At, Goto, LockFolio, ReadRequest, ReadForOrder,
           ConvertRequest, ReadOrder, WriteOrder, LockOrder, PostMovement
  <2> QED
    BY <1>1, <2>1, <2>2, <2>3 DEF Phase
<1>6. Deciding(p)'
  <2> SUFFICES ASSUME call[p].op = "decide" PROVE Deciding(p)'
    BY <1>1 DEF Deciding
  <2>1. ReadOrder(p) \/ WriteOrder(p)
    BY DEF IInv, CallsSound, Phase, At, LockFolio, ReadRequest, ReadForOrder, ConvertRequest,
           LockOrder, PostMovement
  <2>2. CASE ReadOrder(p)
    <3>1. pc'[p] = "write" /\ Decidable(call[p], orders[call[p].order])
      BY <2>2 DEF ReadOrder, Goto, Order, IInv, TypeOK
    <3>2. orders[call[p].order].status \in OrderStatus
      BY <1>2, <3>1 DEF Decidable, IInv, TypeOK, OrderRow, DecideCall
    <3>3. Asked(call[p]) \in OrderStatus
      BY <3>1, <3>2 DEF Decidable, VALID_ORDER_TRANSITIONS, OrderStatus
    <3>4. Asked(call[p]) \in Cleared \ {"APROBADA", "APROBADA_EXCEPCION"}
             => Authorised(call[p].order)
      BY <1>2, <3>1, <3>2, ClearedOnlyThroughApproval
         DEF Decidable, IInv, GoodsOnlyWhenAuthorised, Authorised, DecideCall
    <3>5. Authorised(call[p].order)' = Authorised(call[p].order)
      BY <1>1 DEF Authorised, Clears, CanApprove
    <3> QED
      BY <1>1, <3>1, <3>2, <3>3, <3>4, <3>5, PurchaseAssumption
         DEF Deciding, Decidable, PurchaseAssumption, Asked, CanApprove
  <2>3. CASE WriteOrder(p)
    <3>1. pc[p] = "write" /\ orderLock'[call[p].order] = p
      BY <1>2, <2>3 DEF WriteOrder, At, Order, IInv, TypeOK, DecideCall
    <3>2. Authorised(call[p].order)' = Authorised(call[p].order)
      BY <1>1 DEF Authorised, Clears, CanApprove
    <3> QED
      BY <1>1, <3>1, <3>2 DEF IInv, CallsSound, Deciding, Asked, CanApprove
  <2> QED
    BY <2>1, <2>2, <2>3
<1>7. Receiving(p)'
  <2> SUFFICES ASSUME call[p].op = "receive" PROVE Receiving(p)'
    BY <1>1 DEF Receiving
  <2>1. LockFolio(p) \/ LockOrder(p) \/ PostMovement(p)
    BY DEF At, ReadRequest, ReadForOrder, ConvertRequest, ReadOrder, WriteOrder
  <2>2. CASE LockOrder(p)
    BY <1>1, <1>3, <2>2 DEF LockOrder, Order, IInv, TypeOK, ReceiveCall, Receiving
  <2>3. CASE LockFolio(p) \/ PostMovement(p)
    <3>1. pc[p] \in {"folio", "post"} /\ orderLock' = orderLock
      BY <2>3 DEF LockFolio, PostMovement, At, locks
    <3> QED
      BY <1>1, <3>1 DEF IInv, CallsSound, Receiving
  <2> QED
    BY <2>1, <2>2, <2>3
<1> QED
  BY <1>1, <1>4, <1>5, <1>6, <1>7, PrivateStep

\* The commits: only the order the call is about changes, and its lock or its
\* freshness keeps every other call that knows something about it away.
LEMMA CommitCreateStep ==
    ASSUME IInv, TypeOK', NEW p \in Procs, CommitCreate(p)
    PROVE  IInv'
<1> DEFINE o == call[p].order
<1>1. call[p] \in CreateCall /\ o \in Orders /\ call[p].op = "create"
  BY CallKinds DEF CommitCreate, At, IInv, TypeOK, CreateCall
<1>2. orders[o].status = NULL
  BY <1>1 DEF IInv, CallsSound, Creating
<1>3. /\ orders'[o].status = "PENDIENTE_APROBACION"
      /\ \A x \in Orders \ {o} : orders'[x] = orders[x]
      /\ UNCHANGED <<auths, moved>> /\ End(p)
  BY <1>1 DEF CommitCreate, Order, IInv, TypeOK
<1> HIDE DEF o
<1>4. Inserted'
  BY <1>3, PurchaseAssumption DEF IInv, Inserted, PurchaseAssumption, OrderStatus
<1>5. GoodsOnlyWhenAuthorised'
  <2>1. \A d \in Destinations : ~(moved[o][d] > 0)
    BY <1>1, <1>2 DEF IInv, Inserted
  <2>2. "PENDIENTE_APROBACION" \notin Cleared
    BY DEF Cleared, Receivable
  <2> QED
    BY <1>3, <2>1, <2>2 DEF IInv, GoodsOnlyWhenAuthorised, Clears, CanApprove
<1>6. ASSUME NEW q \in Procs \ {p}
      PROVE  Phase(q)' /\ Creating(q)' /\ Deciding(q)' /\ Receiving(q)'
  <2>1. pc'[q] = pc[q] /\ call'[q] = call[q] /\ call'[p] = NoCall
        /\ \A x \in Orders : orderLock[x] = q => orderLock'[x] = q
    BY <1>3, EndCall DEF IInv
  <2>2. \A r \in Procs \ {p} : call'[r] = call[r]
    BY <1>3, EndCall DEF IInv
  <2>3. Phase(q)'
    BY <2>1 DEF IInv, CallsSound, Phase
  <2>4. Creating(q)'
    <3> SUFFICES ASSUME call[q].op = "create" PROVE Creating(q)'
      BY <2>1 DEF Creating
    <3>1. call[q].order # o /\ call[q].order \in Orders
      BY <1>1, CallKinds DEF IInv, CallsSound, Creating, TypeOK, CreateCall, o
    <3> QED
      BY <1>3, <2>1, <2>2, <3>1 DEF IInv, CallsSound, Creating, NoCall
  <2>5. Deciding(q)'
    <3> SUFFICES ASSUME call[q].op = "decide", pc[q] \in {"write", "commit"} PROVE Deciding(q)'
      BY <2>1 DEF Deciding
    <3>1. call[q].order # o /\ call[q].order \in Orders
      BY <1>2, CallKinds DEF IInv, CallsSound, Deciding, TypeOK, DecideCall
    <3> QED
      BY <1>3, <2>1, <3>1
         DEF IInv, CallsSound, Deciding, Authorised, Clears, CanApprove, Asked
  <2>6. Receiving(q)'
    <3> SUFFICES ASSUME call[q].op = "receive", pc[q] \in {"folio", "post", "commit"}
                 PROVE  Receiving(q)'
      BY <2>1 DEF Receiving
    <3>1. orders[call[q].order].status \in Receivable /\ call[q].order \in Orders
      BY CallKinds DEF IInv, CallsSound, Receiving, TypeOK, ReceiveCall
    <3>2. call[q].order # o
      BY <1>2, <3>1, PurchaseAssumption DEF PurchaseAssumption, Receivable, OrderStatus
    <3> QED
      BY <1>3, <2>1, <3>1, <3>2 DEF IInv, CallsSound, Receiving
  <2> QED
    BY <2>3, <2>4, <2>5, <2>6
<1>7. Phase(p)' /\ Creating(p)' /\ Deciding(p)' /\ Receiving(p)'
  BY <1>3, EndCall DEF IInv
<1> QED
  BY <1>4, <1>5, <1>6, <1>7 DEF IInv, CallsSound

\* The same for a commit that holds the order's row lock: a decision or a
\* reception leaves the total alone and only adds authorizations.
LEMMA LockedCommit ==
    ASSUME IInv, TypeOK', NEW p \in Procs, End(p), NEW o \in Orders, orderLock[o] = p,
           orders[o].status # NULL,
           orders'[o].status \in OrderStatus, orders'[o].total = orders[o].total,
           \A x \in Orders \ {o} : orders'[x] = orders[x],
           auths \subseteq auths', GoodsOnlyWhenAuthorised', Inserted'
    PROVE  IInv'
<1>1. ASSUME NEW q \in Procs \ {p}
      PROVE  Phase(q)' /\ Creating(q)' /\ Deciding(q)' /\ Receiving(q)'
  <2>1. pc'[q] = pc[q] /\ call'[q] = call[q] /\ call'[p] = NoCall
        /\ \A x \in Orders : orderLock[x] = q => orderLock'[x] = q
    BY EndCall DEF IInv
  <2>2. \A r \in Procs \ {p} : call'[r] = call[r]
    BY EndCall DEF IInv
  <2>3. Phase(q)'
    BY <2>1 DEF IInv, CallsSound, Phase
  <2>4. Creating(q)'
    <3> SUFFICES ASSUME call[q].op = "create" PROVE Creating(q)'
      BY <2>1 DEF Creating
    <3>1. call[q].order # o /\ call[q].order \in Orders
      BY CallKinds DEF IInv, CallsSound, Creating, TypeOK, CreateCall
    <3> QED
      BY <2>1, <2>2, <3>1 DEF IInv, CallsSound, Creating, NoCall
  <2>5. Deciding(q)'
    <3> SUFFICES ASSUME call[q].op = "decide", pc[q] \in {"write", "commit"} PROVE Deciding(q)'
      BY <2>1 DEF Deciding
    <3>1. call[q].order \in Orders
      BY CallKinds DEF IInv, TypeOK, DecideCall
    <3>2. orders'[call[q].order].total = orders[call[q].order].total
      BY <3>1
    <3>3. orders[call[q].order].status # NULL
      BY DEF IInv, CallsSound, Deciding
    <3>4. orders'[call[q].order].status # NULL
      BY <3>1, <3>3, PurchaseAssumption DEF PurchaseAssumption
    <3>5. Authorised(call[q].order) => Authorised(call[q].order)'
      BY <2>1, <3>2 DEF Authorised, Clears, CanApprove
    <3> QED
      BY <2>1, <3>1, <3>2, <3>4, <3>5 DEF IInv, CallsSound, Deciding, CanApprove, Asked
  <2>6. Receiving(q)'
    <3> SUFFICES ASSUME call[q].op = "receive", pc[q] \in {"folio", "post", "commit"}
                 PROVE  Receiving(q)'
      BY <2>1 DEF Receiving
    <3>1. call[q].order \in Orders /\ orderLock[call[q].order] = q
      BY CallKinds DEF IInv, CallsSound, Receiving, TypeOK, ReceiveCall
    <3> QED
      BY <2>1, <3>1 DEF IInv, CallsSound, Receiving
  <2> QED
    BY <2>3, <2>4, <2>5, <2>6
<1>2. Phase(p)' /\ Creating(p)' /\ Deciding(p)' /\ Receiving(p)'
  BY EndCall DEF IInv
<1> QED
  BY <1>1, <1>2 DEF IInv, CallsSound

LEMMA CommitDecisionStep ==
    ASSUME IInv, TypeOK', NEW p \in Procs, CommitDecision(p)
    PROVE  IInv'
<1> DEFINE o == call[p].order
<1> DEFINE row == [order |-> o, by |-> call[p].by, action |-> Recorded(call[p])]
<1>1. call[p] \in DecideCall /\ o \in Orders
  BY CallKinds DEF CommitDecision, At, IInv, TypeOK, DecideCall
<1>2. /\ orders[o].status # NULL
      /\ Asked(call[p]) \in OrderStatus
      /\ Asked(call[p]) = "APROBADA" => CanApprove(call[p].by, orders[o].total)
      /\ Asked(call[p]) = "APROBADA_EXCEPCION" => call[p].by \in SuperUsers
      /\ Asked(call[p]) \in Cleared \ {"APROBADA", "APROBADA_EXCEPCION"} => Authorised(o)
      /\ orderLock[o] = p
  BY DEF CommitDecision, At, IInv, CallsSound, Deciding
<1>3. /\ orders'[o].status = Asked(call[p]) /\ orders'[o].total = orders[o].total
      /\ \A x \in Orders \ {o} : orders'[x] = orders[x]
      /\ auths' = auths \cup {row} /\ moved' = moved /\ End(p)
  BY <1>1 DEF CommitDecision, Order, IInv, TypeOK, OrderRow
<1>4. row.order = o /\ row.by = call[p].by /\ row.action = Recorded(call[p])
  OBVIOUS
<1>5. Asked(call[p]) \in {"APROBADA", "APROBADA_EXCEPCION"} => Clears(row, orders[o].total)
  BY <1>1, <1>2, <1>4, AskedRecorded DEF Clears
<1> HIDE DEF o, row
<1>6. Inserted'
  BY <1>2, <1>3, PurchaseAssumption DEF IInv, Inserted, PurchaseAssumption
<1>7. GoodsOnlyWhenAuthorised'
  <2> SUFFICES ASSUME NEW x \in Orders,
                      orders'[x].status \in Cleared \/ \E d \in Destinations : moved[x][d] > 0
               PROVE  \E a \in auths' : a.order = x /\ Clears(a, orders[x].total)
    BY <1>1, <1>3 DEF GoodsOnlyWhenAuthorised, Clears, CanApprove
  <2>1. CASE x # o \/ \E d \in Destinations : moved[x][d] > 0
    BY <1>3, <2>1 DEF IInv, GoodsOnlyWhenAuthorised
  <2>2. CASE x = o /\ Asked(call[p]) \in {"APROBADA", "APROBADA_EXCEPCION"}
    BY <1>3, <1>4, <1>5, <2>2
  <2>3. CASE x = o /\ Asked(call[p]) \in Cleared \ {"APROBADA", "APROBADA_EXCEPCION"}
    BY <1>2, <1>3, <2>3 DEF Authorised
  <2> QED
    BY <1>1, <1>3, <2>1, <2>2, <2>3
<1> QED
  BY <1>1, <1>2, <1>3, <1>6, <1>7, LockedCommit

LEMMA CommitReceptionStep ==
    ASSUME IInv, TypeOK', NEW p \in Procs, CommitReception(p)
    PROVE  IInv'
<1> DEFINE o == call[p].order
<1>1. call[p] \in ReceiveCall /\ o \in Orders
  BY CallKinds DEF CommitReception, At, IInv, TypeOK, ReceiveCall
<1>2. orderLock[o] = p /\ orders[o].status \in Receivable
  BY DEF CommitReception, At, IInv, CallsSound, Receiving
<1>3. /\ orders'[o].status \in {"RECEPCION_PARCIAL", "RECEPCION_TOTAL"}
      /\ orders'[o].total = orders[o].total
      /\ \A x \in Orders \ {o} : orders'[x] = orders[x] /\ moved'[x] = moved[x]
      /\ auths' = auths /\ End(p)
  BY <1>1 DEF CommitReception, Order, IInv, TypeOK
<1> HIDE DEF o
<1>4. orders[o].status # NULL
  BY <1>2, PurchaseAssumption DEF PurchaseAssumption, Receivable, OrderStatus
<1>5. orders'[o].status \in OrderStatus
  BY <1>3 DEF OrderStatus
<1>6. Inserted'
  BY <1>3, <1>5, PurchaseAssumption DEF IInv, Inserted, PurchaseAssumption
<1>7. GoodsOnlyWhenAuthorised'
  <2>1. Authorised(o)
    BY <1>1, <1>2 DEF IInv, GoodsOnlyWhenAuthorised, Authorised, Cleared
  <2> QED
    BY <1>3, <2>1 DEF IInv, GoodsOnlyWhenAuthorised, Authorised, Clears, CanApprove
<1> QED
  BY <1>1, <1>2, <1>3, <1>4, <1>5, <1>6, <1>7, LockedCommit

LEMMA NextIInv == IInv /\ [Next]_vars => IInv'
<1> SUFFICES ASSUME IInv, [Next]_vars PROVE IInv'
  OBVIOUS
<1>1. TypeOK'
  BY TypeStep DEF IInv
<1>2. CASE UNCHANGED vars
  BY <1>1, <1>2 DEF IInv, vars, GoodsOnlyWhenAuthorised, Inserted, CallsSound, Phase, Creating,
                    Deciding, Receiving, Authorised, Clears, CanApprove, Asked
<1>3. ASSUME NEW p \in Procs, NEW c \in Calls, Begin(p, c) PROVE IInv'
  BY <1>1, <1>3, BeginStep
<1>4. ASSUME NEW p \in Procs, Step(p) PROVE IInv'
  <2>1. CASE \/ LockFolio(p) \/ ReadRequest(p) \/ ReadForOrder(p) \/ ConvertRequest(p)
             \/ ReadOrder(p) \/ WriteOrder(p) \/ LockOrder(p) \/ PostMovement(p)
    BY <1>1, <2>1, LocalSteps
  <2>2. CASE CommitNewRequest(p) \/ WriteRequest(p) \/ Reject(p)
    <3>1. End(p) /\ UNCHANGED <<orders, auths, moved>>
      BY <2>2 DEF CommitNewRequest, WriteRequest, Reject, tables
    <3> QED
      BY <1>1, <3>1, QuietEnd
  <2>3. CASE CommitCreate(p)
    BY <1>1, <2>3, CommitCreateStep
  <2>4. CASE CommitDecision(p)
    BY <1>1, <2>4, CommitDecisionStep
  <2>5. CASE CommitReception(p)
    BY <1>1, <2>5, CommitReceptionStep
  <2> QED
    BY <1>4, <2>1, <2>2, <2>3, <2>4, <2>5 DEF Step
<1>5. ASSUME NEW p \in Procs, Rollback(p) PROVE IInv'
  BY <1>1, <1>5, QuietEnd DEF Rollback, tables
<1> QED
  BY <1>2, <1>3, <1>4, <1>5 DEF Next

LEMMA SpecIInv == Spec => []IInv
  BY InitIInv, NextIInv, PTL DEF Spec

\* No goods of an order move, and no order is cleared, without an authorization
\* by somebody entitled to it: for any limits, calls and interleaving.
THEOREM GoodsSafety == Spec => []GoodsOnlyWhenAuthorised
<1>1. IInv => GoodsOnlyWhenAuthorised
  BY DEF IInv
<1> QED
  BY <1>1, SpecIInv, PTL

\* A reception always commits onto an order that is receivable at that moment:
\* the row lock taken by its first statement keeps every other writer out.
THEOREM ReceptionSafety == Spec => ReceptionOfOpenOrder
<1> DEFINE A == \A o \in Orders : moved'[o] # moved[o] => orders[o].status \in Receivable
<1>1. IInv /\ [Next]_vars => [A]_vars
  <2> SUFFICES ASSUME IInv, Next, NEW o \in Orders, moved'[o] # moved[o]
               PROVE  orders[o].status \in Receivable
    OBVIOUS
  <2>1. PICK p \in Procs : CommitReception(p)
    BY DEF Next, Begin, Step, Rollback, tables, LockFolio, CommitNewRequest, ReadRequest,
           WriteRequest, ReadForOrder, ConvertRequest, CommitCreate, ReadOrder, WriteOrder,
           CommitDecision, LockOrder, PostMovement, Reject
  <2>2. call[p] \in ReceiveCall
    BY <2>1, CallKinds DEF CommitReception, At, IInv, TypeOK
  <2>3. o = call[p].order
    BY <2>1, <2>2 DEF CommitReception, Order, IInv, TypeOK, ReceiveCall
  <2> QED
    BY <2>1, <2>3 DEF CommitReception, At, IInv, CallsSound, Receiving
<1>2. Spec => [][A]_vars
  BY <1>1, SpecIInv, PTL DEF Spec
<1> QED
  BY <1>2 DEF ReceptionOfOpenOrder

\* A closed order changes its status only by the commit of a decision that passed
\* its checks before: a reception or a creation never touches it.
THEOREM ClosedSafety == Spec => ReopenedOnlyByDecision
<1> DEFINE A == \A o \in Orders :
                   orders[o].status \in Closed /\ orders'[o].status # orders[o].status
                       => \E p \in Procs : At(p, "decide", "commit") /\ Order(p) = o
<1>1. IInv /\ [Next]_vars => [A]_vars
  <2> SUFFICES ASSUME IInv, Next, NEW o \in Orders, orders[o].status \in Closed,
                      orders'[o].status # orders[o].status
               PROVE  \E p \in Procs : At(p, "decide", "commit") /\ Order(p) = o
    OBVIOUS
  <2>1. PICK p \in Procs : CommitCreate(p) \/ CommitDecision(p) \/ CommitReception(p)
    BY DEF Next, Begin, Step, Rollback, tables, LockFolio, CommitNewRequest, ReadRequest,
           WriteRequest, ReadForOrder, ConvertRequest, ReadOrder, WriteOrder, LockOrder,
           PostMovement, Reject
  <2>2. Order(p) = o
    BY <2>1 DEF CommitCreate, CommitDecision, CommitReception, IInv, TypeOK
  <2>3. CASE CommitCreate(p)
    <3>1. orders[o].status = NULL
      BY <2>2, <2>3 DEF CommitCreate, At, Order, IInv, CallsSound, Creating
    <3> QED
      BY <3>1, PurchaseAssumption DEF PurchaseAssumption, Closed, OrderStatus
  <2>4. CASE CommitReception(p)
    <3>1. orders[o].status \in Receivable
      BY <2>2, <2>4 DEF CommitReception, At, Order, IInv, CallsSound, Receiving
    <3> QED
      BY <3>1 DEF Receivable, Closed
  <2> QED
    BY <2>1, <2>2, <2>3, <2>4 DEF CommitDecision
<1>2. Spec => [][A]_vars
  BY <1>1, SpecIInv, PTL DEF Spec
<1> QED
  BY <1>2 DEF ReopenedOnlyByDecision
=============================================================================
