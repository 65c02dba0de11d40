----------------------------- MODULE Quotations -----------------------------
(* QuotationsService: create, update, selectQuotation and remove, and the    *)
(* quotation an order selects in OrdersService.create.  A quotation's lines  *)
(* are rows of their own: an update deletes the lines its first statement    *)
(* sees and inserts new ones, so two of them can leave the lines of both.    *)
(* Prices of lines are for one item; numbering is in Folio.                  *)
EXTENDS Naturals, FiniteSets, FiniteSetsExt

CONSTANTS
    Quotes,       \* identities of quotations
    Requests,     \* field requests, and NULL when quotations may be for none
    Suppliers,
    FirstStatus,  \* statuses a creation gives: SOLICITADA unless the client says otherwise
    Prices,       \* what a line costs
    Calls,        \* requests served at once
    MaxCalls,     \* bound: requests served
    NULL

\* SOLICITADA and RECIBIDA are treated alike, and so are DESCARTADA and VENCIDA.
QuotationStatus == {"SOLICITADA", "SELECCIONADA", "DESCARTADA"}
Live == {"SOLICITADA", "SELECCIONADA"}

ASSUME PricesAssumption == Prices \subseteq Nat
ASSUME StatusAssumption == FirstStatus \subseteq QuotationStatus /\ NULL \notin QuotationStatus

CreateCall == [op: {"create"}, request: Requests, supplier: Suppliers,
               price: Prices, status: FirstStatus]
UpdateCall == [op: {"update"}, quote: Quotes, status: QuotationStatus \cup {NULL},
               price: Prices \cup {NULL}]
OtherCall == [op: {"select", "order", "remove"}, quote: Quotes]

VARIABLES
    quote,        \* the quotations; status NULL is none
    lines,        \* the lines of each: the call that wrote it, and its price
    ordered,      \* quotations some purchase order refers to
    catalog,      \* SupplierCatalog: the last price of each supplier
    call,         \* requests being served, with what they read
    begun,
    marked,       \* history: quotations made SELECCIONADA other than by selectQuotation
    doubled,      \* history: quotations created beside a twin not seen, or brought back to life
    raced         \* history: quotations written over an update not seen, or half removed

history == <<marked, doubled, raced>>
vars == <<quote, lines, ordered, catalog, call, begun, history>>

NoQuote == [status |-> NULL, request |-> NULL, supplier |-> NULL, total |-> 0]
NoCall == [pc |-> "idle", id |-> 0, req |-> NULL, status |-> NULL, total |-> 0, lines |-> {}, twins |-> {}]

Existing == {q \in Quotes : quote[q].status # NULL}
Siblings(q) == {p \in Existing \ {q} : /\ quote[p].request = quote[q].request
                                       /\ quote[q].request # NULL}
LiveTwins(q, request, supplier) ==
    {p \in Existing \ {q} : /\ quote[p].request = request /\ request # NULL
                            /\ quote[p].supplier = supplier /\ quote[p].status \in Live}

Init ==
    /\ quote = [q \in Quotes |-> NoQuote]
    /\ lines = [q \in Quotes |-> {}]
    /\ ordered = {}
    /\ catalog = [s \in Suppliers |-> NULL]
    /\ call = [c \in Calls |-> NoCall]
    /\ begun = 0
    /\ marked = {} /\ doubled = {} /\ raced = {}

-----------------------------------------------------------------------------
(* What a handler reads before it writes *)

Begin(c, new) ==
    /\ call[c].pc = "idle" /\ begun < MaxCalls
    /\ begun' = begun + 1
    /\ call' = [call EXCEPT ![c] = [new EXCEPT !.id = begun + 1]]
    /\ UNCHANGED <<quote, lines, ordered, catalog, history>>

\* ReadForCreate without the search for an existing quotation.
ReadForCreateUnchecked(c) == \E r \in CreateCall :
    Begin(c, [NoCall EXCEPT !.pc = "seen", !.req = r,
                            !.twins = LiveTwins(NULL, r.request, r.supplier)])

\* create refuses a second live quotation of one supplier for one request.
ReadForCreate(c) == \E r \in CreateCall :
    /\ LiveTwins(NULL, r.request, r.supplier) = {}
    /\ Begin(c, [NoCall EXCEPT !.pc = "seen", !.req = r, !.twins = {}])

\* remove refuses a quotation with a purchase order.
ReadQuote(c) == \E r \in UpdateCall \cup OtherCall :
    /\ r.quote \in Existing
    /\ r.op = "remove" => r.quote \notin ordered
    /\ LET new == [NoCall EXCEPT !.pc = "seen", !.req = r] IN
       Begin(c, CASE r.op = "update" -> [new EXCEPT !.status = quote[r.quote].status,
                                                    !.total = quote[r.quote].total]
                  [] r.op = "select" -> [new EXCEPT !.lines = lines[r.quote]]
                  [] OTHER -> new)

-----------------------------------------------------------------------------
(* What it writes *)

At(c, pc, op) == call[c].pc = pc /\ call[c].req.op = op
Goto(c, pc) == call' = [call EXCEPT ![c].pc = pc]
End(c) == call' = [call EXCEPT ![c] = NoCall]
\* The row is there, and no selection under way holds it.
Free(q) == /\ q \in Existing
           /\ \A c \in Calls : call[c].pc = "locked" => call[c].req.quote # q

TotalOf(ls) == MapThenSumSet(LAMBDA l : l.price, ls)

\* What becomes of the histories when q takes `status' other than by selectQuotation.
Becomes(q, status) ==
    /\ marked' = IF status = "SELECCIONADA" THEN marked \cup {q} ELSE marked
    /\ doubled' = IF status \in Live /\ quote[q].status \notin Live
                  THEN doubled \cup {q} ELSE doubled

CommitCreate(c) ==
    /\ At(c, "seen", "create")
    /\ LET r == call[c].req IN \E q \in Quotes \ Existing :
         /\ quote' = [quote EXCEPT ![q] = [status |-> r.status, request |-> r.request,
                                           supplier |-> r.supplier, total |-> r.price]]
         /\ lines' = [lines EXCEPT ![q] = {[by |-> call[c].id, price |-> r.price]}]
         /\ marked' = IF r.status = "SELECCIONADA" THEN marked \cup {q} ELSE marked
         /\ doubled' = IF LiveTwins(q, r.request, r.supplier) \ call[c].twins # {}
                       THEN doubled \cup {q} ELSE doubled
    /\ End(c)
    /\ UNCHANGED <<ordered, catalog, begun, raced>>

\* deleteMany: its snapshot is the committed lines, which other updates may have deleted
\* by the time it has their locks.
TakeLines(c) ==
    /\ At(c, "seen", "update") /\ call[c].req.price # NULL
    /\ call' = [call EXCEPT ![c].pc = "taken", ![c].lines = lines[call[c].req.quote]]
    /\ UNCHANGED <<quote, lines, ordered, catalog, begun, history>>

\* Written without deleteMany.
WrittenBeside(c) ==
    lines[call[c].req.quote] \cup {[by |-> call[c].id, price |-> call[c].req.price]}

Written(c) == (lines[call[c].req.quote] \ call[c].lines)
                \cup {[by |-> call[c].id, price |-> call[c].req.price]}

\* The lines, if any are given; the total of those lines, or the one that was read;
\* the status given, or the one that was read.
CommitUpdate(c) ==
    /\ \/ At(c, "taken", "update")
       \/ At(c, "seen", "update") /\ call[c].req.price = NULL
    /\ LET r == call[c].req
           q == r.quote
           status == IF r.status = NULL THEN call[c].status ELSE r.status
       IN  /\ Free(q)
           /\ lines' = IF r.price = NULL THEN lines ELSE [lines EXCEPT ![q] = Written(c)]
           /\ quote' = [quote EXCEPT ![q].status = status,
                                     ![q].total = IF r.price = NULL THEN call[c].total
                                                  ELSE r.price]
           /\ Becomes(q, status)
           /\ raced' = IF IF r.price = NULL THEN quote[q].total # call[c].total
                                            ELSE lines[q] # call[c].lines
                       THEN raced \cup {q} ELSE raced
    /\ End(c)
    /\ UNCHANGED <<ordered, catalog, begun>>

\* selectQuotation: its own row is updated, and locked, first.
LockOwn(c) ==
    /\ At(c, "seen", "select") /\ Free(call[c].req.quote)
    /\ Goto(c, "locked")
    /\ UNCHANGED <<quote, lines, ordered, catalog, begun, history>>

LiveSiblings(q) == {p \in Siblings(q) : quote[p].status \in Live}
\* Discarded when the filter also spares a sibling already SELECCIONADA.
DiscardedPending(q) == {p \in LiveSiblings(q) : quote[p].status # "SELECCIONADA"}

Discarded(q) == LiveSiblings(q)

\* updateMany waits for the siblings another selection holds.
CommitSelection(c) ==
    /\ At(c, "locked", "select")
    /\ LET q == call[c].req.quote IN
         /\ \A p \in LiveSiblings(q) : Free(p)
         /\ quote' = [p \in Quotes |->
                        IF p = q THEN [quote[p] EXCEPT !.status = "SELECCIONADA"]
                        ELSE IF p \in Discarded(q) THEN [quote[p] EXCEPT !.status = "DESCARTADA"]
                        ELSE quote[p]]
         /\ \/ \E l \in call[c].lines : catalog' = [catalog EXCEPT ![quote[q].supplier] = l.price]
            \/ call[c].lines = {} /\ UNCHANGED catalog
         /\ marked' = marked \ {q}
    /\ End(c)
    /\ UNCHANGED <<lines, ordered, begun, doubled, raced>>

\* Two selections that hold a sibling of each other: PostgreSQL aborts one.
DeadlockAbort(c) ==
    /\ At(c, "locked", "select")
    /\ \E p \in LiveSiblings(call[c].req.quote) : ~Free(p)
    /\ End(c)
    /\ UNCHANGED <<quote, lines, ordered, catalog, begun, history>>

\* OrdersService.create with a quotationId: the siblings stay as they are.
CommitOrder(c) ==
    /\ At(c, "seen", "order") /\ Free(call[c].req.quote)
    /\ LET q == call[c].req.quote IN
         /\ quote' = [quote EXCEPT ![q].status = "SELECCIONADA"]
         /\ ordered' = ordered \cup {q}
         /\ Becomes(q, "SELECCIONADA")
    /\ End(c)
    /\ UNCHANGED <<lines, catalog, begun, raced>>

\* remove deletes the lines in one statement,
RemoveLines(c) ==
    /\ At(c, "seen", "remove")
    /\ lines' = [lines EXCEPT ![call[c].req.quote] = {}]
    /\ raced' = raced \cup {call[c].req.quote}
    /\ Goto(c, "emptied")
    /\ UNCHANGED <<quote, ordered, catalog, begun, marked, doubled>>

\* and the quotation in another; an order that came in between loses its reference.
RemoveQuote(c) ==
    /\ At(c, "emptied", "remove") /\ Free(call[c].req.quote)
    /\ quote' = [quote EXCEPT ![call[c].req.quote] = NoQuote]
    /\ lines' = [lines EXCEPT ![call[c].req.quote] = {}]
    /\ ordered' = ordered \ {call[c].req.quote}
    /\ marked' = marked \ {call[c].req.quote}
    /\ doubled' = doubled \ {call[c].req.quote}
    /\ raced' = raced \ {call[c].req.quote}
    /\ End(c)
    /\ UNCHANGED <<catalog, begun>>

\* An error (the row is gone), a timeout or a crash: a transaction leaves nothing,
\* remove leaves what it has done.
Fail(c) ==
    /\ call[c].pc # "idle"
    /\ End(c)
    /\ UNCHANGED <<quote, lines, ordered, catalog, begun, history>>

Next == \E c \in Calls :
    \/ ReadForCreate(c) \/ ReadQuote(c)
    \/ CommitCreate(c) \/ TakeLines(c) \/ CommitUpdate(c)
    \/ LockOwn(c) \/ CommitSelection(c) \/ DeadlockAbort(c)
    \/ CommitOrder(c) \/ RemoveLines(c) \/ RemoveQuote(c) \/ Fail(c)

Spec == Init /\ [][Next]_vars

-----------------------------------------------------------------------------
(* Properties *)

\* selectQuotation keeps the winner of a request alone, also when selections,
\* creations and updates race: two SELECCIONADA quotations of one request
\* include one marked by an order, an update or its creation.
WinnerIsAlone ==
    \A p, q \in Existing :
       /\ p # q /\ quote[p].request = quote[q].request /\ quote[p].request # NULL
       /\ quote[p].status = "SELECCIONADA" /\ quote[q].status = "SELECCIONADA"
       => p \in marked \/ q \in marked

\* A supplier has two live quotations of one request only when one was created
\* while the other was, or was brought back to life.
OneLiveQuotePerSupplier ==
    \A p, q \in Existing :
       p \in LiveTwins(q, quote[q].request, quote[q].supplier) /\ quote[q].status \in Live
       => p \in doubled \/ q \in doubled

\* The total of a quotation, which BudgetService counts, is what its lines add
\* up to, unless an update wrote over one it had not seen or a removal stopped
\* half way.
TotalMatchesLines == \A q \in Existing \ raced : quote[q].total = TotalOf(lines[q])
=============================================================================
