-------------------------- MODULE MCPurchaseOrders --------------------------
(* A small instance of PurchaseOrders: a field request, an order, a         *)
(* supervisor with a limit and a manager with none and a super key.         *)
EXTENDS PurchaseOrders, TLC

MCUsers == {"supervisor", "manager"}
MCRoleLimits == [u \in MCUsers |-> IF u = "manager" THEN {5, NULL} ELSE {2, 5}]
MCSuperUsers == {"manager"}

NoOrders == [o \in Orders |-> NoOrder]
NoRequests == [r \in FieldRequests |-> NULL]

Open(r, status) == [op |-> "newRequest", request |-> r, status |-> status]
MoveTo(r, status) == [op |-> "moveRequest", request |-> r, status |-> status]
Buy(o, r, total) == [op |-> "create", order |-> o, request |-> r, total |-> total,
                     dest |-> NULL, asset |-> FALSE]
Decide(o, by, action, status) ==
    [op |-> "decide", order |-> o, by |-> by, superKey |-> TRUE,
     action |-> action, status |-> status]
Fetch(o, dest, asset) ==
    [op |-> "receive", order |-> o, dest |-> dest, asset |-> asset, warehouse |-> TRUE]

\* From the field request to the goods, one order too dear for the supervisor:
\* every kind of decision and reception once.
TradeCalls ==
    {Open(r, NULL) : r \in FieldRequests} \cup {MoveTo(r, "APROBADA") : r \in FieldRequests}
    \cup {Buy(o, r, 6) : o \in Orders, r \in FieldRequests}
    \cup UNION {{Decide(o, "supervisor", "APROBADA", NULL), Decide(o, "manager", NULL, "APROBADA"),
                 Decide(o, "manager", "EXCEPCION", NULL),
                 Decide(o, "supervisor", NULL, "EMITIDA"), Decide(o, "manager", NULL, "CANCELADA"),
                 Fetch(o, NULL, FALSE), Fetch(o, "GARITA_TRANSITO", FALSE),
                 Fetch(o, "ACTIVO_DIRECTO", TRUE)} : o \in Orders}
=============================================================================
