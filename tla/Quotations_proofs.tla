------------------------- MODULE Quotations_proofs -------------------------
(***************************************************************************)
(* What Quotations guarantees for any quotations, requests and suppliers,  *)
(* and any number of calls that overlap.                                   *)
(***************************************************************************)
EXTENDS Quotations, TLAPS

Call == CreateCall \cup UpdateCall \cup OtherCall
Line == [by: Nat, price: Prices]
QuoteRow == [status: QuotationStatus \cup {NULL}, request: Requests \cup {NULL},
             supplier: Suppliers \cup {NULL}, total: Nat]
CallRecord == [pc: {"idle", "seen", "taken", "locked", "emptied"}, id: Nat, req: Call \cup {NULL},
               status: QuotationStatus \cup {NULL}, total: Nat, lines: SUBSET Line, twins: {{}}]

Typed ==
    /\ quote \in [Quotes -> QuoteRow]
    /\ lines \in [Quotes -> SUBSET Line]
    /\ call \in [Calls -> CallRecord]
    /\ begun \in Nat
    /\ marked \subseteq Quotes /\ doubled \subseteq Quotes /\ raced \subseteq Quotes

\* What a call under way asks for, and what it knows: an update read a quotation
\* that was there, and nothing removes the one a selection holds.
Asked(c) ==
    /\ call[c].pc # "idle" => call[c].req \in Call
    /\ call[c].pc \in {"seen", "taken"} /\ call[c].req.op = "update" =>
          call[c].status \in QuotationStatus
    /\ call[c].pc = "taken" => call[c].req.op = "update" /\ call[c].req.price # NULL
    /\ call[c].pc = "locked" => call[c].req.op = "select" /\ call[c].req.quote \in Existing

\* Orders refer to quotations there are.
OrdersOfQuotes == ordered \subseteq Existing

\* TotalMatchesLines without the sum: the lines of a quotation are one, of its price.
OneLine == \A q \in Existing \ raced :
    \E l \in Line : lines[q] = {l} /\ l.price = quote[q].total

\* The inductive invariant.
IInv ==
    /\ Typed
    /\ \A c \in Calls : Asked(c)
    /\ OrdersOfQuotes
    /\ OneLine
    /\ WinnerIsAlone
    /\ OneLiveQuotePerSupplier

-----------------------------------------------------------------------------
(* The calls *)

LEMMA CallFields ==
    /\ \A r \in CreateCall : /\ r.op = "create" /\ r.request \in Requests /\ r.supplier \in Suppliers
                             /\ r.price \in Prices /\ r.status \in FirstStatus
    /\ \A r \in UpdateCall : /\ r.op = "update" /\ r.quote \in Quotes
                             /\ r.status \in QuotationStatus \cup {NULL}
                             /\ r.price \in Prices \cup {NULL}
    /\ \A r \in OtherCall : r.op \in {"select", "order", "remove"} /\ r.quote \in Quotes
    /\ \A r \in Call : r.op = "create" => r \in CreateCall
    /\ \A r \in Call : r.op = "update" => r \in UpdateCall
    /\ \A r \in Call : r.op \in {"select", "order", "remove"} => r \in OtherCall
    /\ \A r \in Call : r.op \in {"create", "update", "select", "order", "remove"}
<1>1. \A r \in CreateCall : /\ r.op = "create" /\ r.request \in Requests /\ r.supplier \in Suppliers
                            /\ r.price \in Prices /\ r.status \in FirstStatus
  BY DEF CreateCall
<1>2. \A r \in UpdateCall : /\ r.op = "update" /\ r.quote \in Quotes
                            /\ r.status \in QuotationStatus \cup {NULL}
                            /\ r.price \in Prices \cup {NULL}
  BY DEF UpdateCall
<1>3. \A r \in OtherCall : r.op \in {"select", "order", "remove"} /\ r.quote \in Quotes
  BY DEF OtherCall
<1> QED
  BY <1>1, <1>2, <1>3 DEF Call

\* Quotations that are alike for the properties stay alike.
LEMMA SameRows ==
    ASSUME IInv, UNCHANGED <<quote, marked, doubled, ordered>>
    PROVE  OrdersOfQuotes' /\ WinnerIsAlone' /\ OneLiveQuotePerSupplier' /\ Existing' = Existing
  BY DEF IInv, OrdersOfQuotes, WinnerIsAlone, OneLiveQuotePerSupplier, LiveTwins, Existing

LEMMA SameLines ==
    ASSUME IInv, UNCHANGED <<quote, lines, raced>>
    PROVE  OneLine'
  BY DEF IInv, OneLine, Existing

\* One call changes, and those that hold a quotation still hold one there is.
LEMMA CallStep ==
    ASSUME IInv, NEW c \in Calls, NEW rec \in CallRecord,
           call' = [call EXCEPT ![c] = rec],
           \A d \in Calls \ {c} : call[d].pc = "locked" => call[d].req.quote \in Existing',
           Asked(c)'
    PROVE  call' \in [Calls -> CallRecord] /\ \A d \in Calls : Asked(d)'
<1>1. call' \in [Calls -> CallRecord] /\ \A d \in Calls \ {c} : call'[d] = call[d]
  BY DEF IInv, Typed
<1>2. ASSUME NEW d \in Calls \ {c} PROVE Asked(d)'
  <2>1. Asked(d) /\ call'[d] = call[d]
    BY <1>1 DEF IInv
  <2> QED
    BY <2>1 DEF Asked
<1> QED
  BY <1>1, <1>2

LEMMA EndStep ==
    ASSUME IInv, NEW c \in Calls, End(c),
           \A d \in Calls \ {c} : call[d].pc = "locked" => call[d].req.quote \in Existing'
    PROVE  call' \in [Calls -> CallRecord] /\ \A d \in Calls : Asked(d)'
<1>1. NoCall \in CallRecord /\ NoCall.pc = "idle"
  BY DEF NoCall, CallRecord
<1>2. call' = [call EXCEPT ![c] = NoCall] /\ call'[c] = NoCall
  BY DEF End, IInv, Typed
<1>3. Asked(c)'
  BY <1>1, <1>2 DEF Asked
<1> QED
  BY <1>1, <1>2, <1>3, CallStep

-----------------------------------------------------------------------------
(* The rows *)

\* A quotation takes a status other than by selectQuotation.
LEMMA StatusStep ==
    ASSUME IInv, NEW q \in Existing, NEW status \in QuotationStatus, NEW total \in Nat,
           quote' = [quote EXCEPT ![q] = [@ EXCEPT !.status = status, !.total = total]],
           Becomes(q, status)
    PROVE  /\ quote' \in [Quotes -> QuoteRow]
           /\ Existing' = Existing
           /\ WinnerIsAlone' /\ OneLiveQuotePerSupplier'
           /\ marked' \subseteq Quotes /\ doubled' \subseteq Quotes
<1>1. q \in Quotes /\ quote[q] \in QuoteRow
  BY DEF Existing, IInv, Typed
<1>2. \A p \in Quotes : /\ p # q => quote'[p] = quote[p]
                        /\ quote'[p].request = quote[p].request
                        /\ quote'[p].supplier = quote[p].supplier
  BY <1>1 DEF IInv, Typed, QuoteRow
<1>3. quote'[q].status = status /\ quote' \in [Quotes -> QuoteRow]
  BY <1>1 DEF IInv, Typed, QuoteRow
<1>4. Existing' = Existing
  BY <1>1, <1>2, <1>3, StatusAssumption DEF Existing
<1>5. /\ marked \subseteq marked' /\ (status = "SELECCIONADA" => q \in marked')
      /\ doubled \subseteq doubled'
      /\ status \in Live /\ quote[q].status \notin Live => q \in doubled'
      /\ marked' \subseteq Quotes /\ doubled' \subseteq Quotes
  BY <1>1 DEF Becomes, IInv, Typed
<1>6. WinnerIsAlone'
  BY <1>2, <1>3, <1>4, <1>5 DEF WinnerIsAlone, IInv, Existing
<1>7. OneLiveQuotePerSupplier'
  BY <1>2, <1>3, <1>4, <1>5 DEF OneLiveQuotePerSupplier, LiveTwins, IInv, Existing
<1> QED
  BY <1>3, <1>4, <1>5, <1>6, <1>7

-----------------------------------------------------------------------------
LEMMA InitIInv == Init => IInv
<1> SUFFICES ASSUME Init PROVE IInv
  OBVIOUS
<1>1. Typed
  BY DEF Init, Typed, NoQuote, QuoteRow, NoCall, CallRecord
<1>2. Existing = {}
  BY DEF Init, Existing, NoQuote
<1>3. \A c \in Calls : Asked(c)
  BY DEF Init, Asked, NoCall
<1> QED
  BY <1>1, <1>2, <1>3 DEF Init, IInv, OrdersOfQuotes, OneLine, WinnerIsAlone, OneLiveQuotePerSupplier

LEMMA BeginStep ==
    ASSUME IInv, NEW c \in Calls, NEW new \in CallRecord, Begin(c, new),
           new.pc = "seen", new.req \in Call,
           new.req.op = "update" => new.status \in QuotationStatus
    PROVE  IInv'
<1> DEFINE rec == [new EXCEPT !.id = begun + 1]
<1>1. /\ call' = [call EXCEPT ![c] = rec] /\ begun' = begun + 1
      /\ UNCHANGED <<quote, lines, ordered, catalog, marked, doubled, raced>>
  BY DEF Begin, history
<1>2. rec \in CallRecord /\ rec.pc = "seen" /\ rec.req = new.req /\ rec.status = new.status
  BY DEF CallRecord, IInv, Typed
<1> HIDE DEF rec
<1>3. OrdersOfQuotes' /\ WinnerIsAlone' /\ OneLiveQuotePerSupplier' /\ Existing' = Existing
  BY <1>1, SameRows
<1>4. call'[c] = rec
  BY <1>1 DEF IInv, Typed
<1>5. Asked(c)'
  BY <1>2, <1>4 DEF Asked
<1>6. call' \in [Calls -> CallRecord] /\ \A d \in Calls : Asked(d)'
  <2>1. \A d \in Calls \ {c} : call[d].pc = "locked" => call[d].req.quote \in Existing'
    BY <1>3 DEF IInv, Asked
  <2> QED
    BY <1>1, <1>2, <1>5, <2>1, CallStep
<1>7. Typed' /\ OneLine'
  BY <1>1, <1>6, SameLines DEF IInv, Typed
<1> QED
  BY <1>3, <1>6, <1>7 DEF IInv


LEMMA ReadForCreateStep ==
    ASSUME IInv, NEW c \in Calls, ReadForCreate(c)
    PROVE  IInv'
<1>1. PICK r \in CreateCall : Begin(c, [NoCall EXCEPT !.pc = "seen", !.req = r, !.twins = {}])
  BY DEF ReadForCreate
<1> DEFINE new == [NoCall EXCEPT !.pc = "seen", !.req = r, !.twins = {}]
<1>2. new \in CallRecord /\ new.pc = "seen" /\ new.req = r
  BY DEF NoCall, CallRecord, Call
<1>3. r \in Call /\ r.op = "create"
  BY CallFields DEF Call
<1> HIDE DEF new
<1> QED
  BY <1>1, <1>2, <1>3, BeginStep DEF new

LEMMA ReadQuoteStep ==
    ASSUME IInv, NEW c \in Calls, ReadQuote(c)
    PROVE  IInv'
<1>1. PICK r \in UpdateCall \cup OtherCall :
        /\ r.quote \in Existing
        /\ LET new == [NoCall EXCEPT !.pc = "seen", !.req = r] IN
           Begin(c, CASE r.op = "update" -> [new EXCEPT !.status = quote[r.quote].status,
                                                        !.total = quote[r.quote].total]
                      [] r.op = "select" -> [new EXCEPT !.lines = lines[r.quote]]
                      [] OTHER -> new)
  BY DEF ReadQuote
<1> DEFINE new == [NoCall EXCEPT !.pc = "seen", !.req = r]
           read == CASE r.op = "update" -> [new EXCEPT !.status = quote[r.quote].status,
                                                       !.total = quote[r.quote].total]
                     [] r.op = "select" -> [new EXCEPT !.lines = lines[r.quote]]
                     [] OTHER -> new
<1>2. r \in Call /\ r.quote \in Quotes
  BY CallFields DEF Call
<1>3. /\ quote[r.quote].status \in QuotationStatus /\ quote[r.quote].total \in Nat
      /\ lines[r.quote] \subseteq Line
  BY <1>1, <1>2 DEF Existing, IInv, Typed, QuoteRow
<1>4. new \in CallRecord /\ new.pc = "seen" /\ new.req = r
  BY <1>2 DEF NoCall, CallRecord
<1> HIDE DEF new
<1>5. /\ read \in CallRecord /\ read.pc = "seen" /\ read.req = r
      /\ r.op = "update" => read.status = quote[r.quote].status
  <2>1. CASE r.op = "update"
    BY <2>1, <1>3, <1>4 DEF CallRecord
  <2>2. CASE r.op = "select"
    BY <2>2, <1>3, <1>4 DEF CallRecord
  <2>3. CASE r.op \notin {"update", "select"}
    BY <2>3, <1>4
  <2> QED
    BY <2>1, <2>2, <2>3
<1>6. Begin(c, read)
  BY <1>1 DEF new
<1> HIDE DEF read
<1> QED
  BY <1>2, <1>3, <1>5, <1>6, BeginStep

\* A quotation that was not there: it is doubled if it has a live twin.
LEMMA CommitCreateStep ==
    ASSUME IInv, NEW c \in Calls, CommitCreate(c)
    PROVE  IInv'
<1> DEFINE r == call[c].req
<1>1. r \in CreateCall /\ call[c].twins = {} /\ call[c].id \in Nat
  BY CallFields DEF CommitCreate, At, IInv, Typed, Asked, CallRecord
<1>2. PICK q \in Quotes \ Existing :
        /\ quote' = [quote EXCEPT ![q] = [status |-> r.status, request |-> r.request,
                                          supplier |-> r.supplier, total |-> r.price]]
        /\ lines' = [lines EXCEPT ![q] = {[by |-> call[c].id, price |-> r.price]}]
        /\ marked' = IF r.status = "SELECCIONADA" THEN marked \cup {q} ELSE marked
        /\ doubled' = IF LiveTwins(q, r.request, r.supplier) \ call[c].twins # {}
                      THEN doubled \cup {q} ELSE doubled
  BY DEF CommitCreate
<1>3. End(c) /\ UNCHANGED <<ordered, catalog, begun, raced>>
  BY DEF CommitCreate
<1>4. /\ r.status \in QuotationStatus /\ r.request \in Requests /\ r.supplier \in Suppliers
      /\ r.price \in Prices /\ r.price \in Nat
  BY <1>1, CallFields, StatusAssumption, PricesAssumption
<1> HIDE DEF r
<1>5. /\ quote'[q].status = r.status /\ quote'[q].request = r.request
      /\ quote'[q].supplier = r.supplier /\ quote' \in [Quotes -> QuoteRow]
      /\ \A p \in Quotes \ {q} : quote'[p] = quote[p]
  BY <1>2, <1>4 DEF IInv, Typed, QuoteRow
<1>6. Existing' = Existing \cup {q}
  BY <1>2, <1>4, <1>5, StatusAssumption DEF Existing
<1>7. Typed'
  <2>1. lines' \in [Quotes -> SUBSET Line]
    BY <1>1, <1>2, <1>4 DEF IInv, Typed, Line
  <2>2. call' \in [Calls -> CallRecord]
    BY <1>3, <1>6, EndStep DEF IInv, Asked
  <2> QED
    BY <1>2, <1>3, <1>5, <2>1, <2>2 DEF IInv, Typed
<1>8. \A d \in Calls : Asked(d)'
  BY <1>3, <1>6, EndStep DEF IInv, Asked
<1>9. OrdersOfQuotes'
  BY <1>3, <1>6 DEF IInv, OrdersOfQuotes
<1>10. WinnerIsAlone'
  BY <1>2, <1>5, <1>6 DEF IInv, WinnerIsAlone, Existing
<1>11. OneLiveQuotePerSupplier'
  <2>1. LiveTwins(q, r.request, r.supplier) # {} => q \in doubled'
    BY <1>1, <1>2
  <2>2. doubled \subseteq doubled'
    BY <1>2
  <2>3. SUFFICES ASSUME NEW p1 \in Existing', NEW p2 \in Existing',
                        p1 \in LiveTwins(p2, quote[p2].request, quote[p2].supplier)',
                        quote'[p2].status \in Live
                 PROVE  p1 \in doubled' \/ p2 \in doubled'
    BY DEF OneLiveQuotePerSupplier
  <2>4. CASE p2 = q
    BY <2>1, <2>3, <2>4, <1>2, <1>5, <1>6 DEF LiveTwins, Existing
  <2>5. CASE p1 = q
    BY <2>1, <2>3, <2>5, <1>2, <1>5, <1>6 DEF LiveTwins, Existing
  <2>6. CASE p1 # q /\ p2 # q
    BY <2>2, <2>3, <2>6, <1>5, <1>6 DEF LiveTwins, Existing, IInv, OneLiveQuotePerSupplier
  <2> QED
    BY <2>4, <2>5, <2>6
<1>12. OneLine'
  <2>1. ASSUME NEW p \in Existing' \ raced', p # q
        PROVE  \E l \in Line : lines'[p] = {l} /\ l.price = quote'[p].total
    <3>1. p \in Existing \ raced /\ p \in Quotes
      BY <2>1, <1>3, <1>6 DEF Existing
    <3>2. lines'[p] = lines[p] /\ quote'[p] = quote[p]
      BY <2>1, <3>1, <1>2, <1>5 DEF IInv, Typed
    <3> QED
      BY <3>1, <3>2 DEF IInv, OneLine
  <2>2. \E l \in Line : lines'[q] = {l} /\ l.price = quote'[q].total
    <3>1. [by |-> call[c].id, price |-> r.price] \in Line
      BY <1>1, <1>4 DEF Line
    <3>2. lines'[q] = {[by |-> call[c].id, price |-> r.price]} /\ quote'[q].total = r.price
      BY <1>2 DEF IInv, Typed
    <3> QED
      BY <3>1, <3>2
  <2> QED
    BY <2>1, <2>2 DEF OneLine
<1> QED
  BY <1>7, <1>8, <1>9, <1>10, <1>11, <1>12 DEF IInv

LEMMA TakeLinesStep ==
    ASSUME IInv, NEW c \in Calls, TakeLines(c)
    PROVE  IInv'
<1> DEFINE rec == [call[c] EXCEPT !.pc = "taken", !.lines = lines[call[c].req.quote]]
<1>1. /\ call[c].pc = "seen" /\ call[c].req.op = "update" /\ call[c].req.price # NULL
      /\ call' = [call EXCEPT ![c] = rec]
      /\ UNCHANGED <<quote, lines, ordered, catalog, begun, marked, doubled, raced>>
  BY DEF TakeLines, At, IInv, Typed, history
<1>2. call[c].req \in UpdateCall /\ call[c].status \in QuotationStatus
  BY <1>1, CallFields DEF IInv, Asked
<1>3. /\ rec \in CallRecord /\ rec.pc = "taken" /\ rec.req = call[c].req
      /\ rec.status = call[c].status
  <2>1. lines[call[c].req.quote] \in SUBSET Line
    BY <1>2, CallFields DEF IInv, Typed
  <2>2. call[c] \in CallRecord
    BY DEF IInv, Typed
  <2> QED
    BY <2>1, <2>2 DEF CallRecord
<1> HIDE DEF rec
<1>4. OrdersOfQuotes' /\ WinnerIsAlone' /\ OneLiveQuotePerSupplier' /\ Existing' = Existing
  BY <1>1, SameRows
<1>5. Asked(c)'
  BY <1>1, <1>2, <1>3 DEF IInv, Typed, Asked, Call
<1>6. call' \in [Calls -> CallRecord] /\ \A d \in Calls : Asked(d)'
  <2>1. \A d \in Calls \ {c} : call[d].pc = "locked" => call[d].req.quote \in Existing'
    BY <1>4 DEF IInv, Asked
  <2> QED
    BY <1>1, <1>3, <1>5, <2>1, CallStep
<1>7. Typed' /\ OneLine'
  BY <1>1, <1>6, SameLines DEF IInv, Typed
<1> QED
  BY <1>4, <1>6, <1>7 DEF IInv

LEMMA CommitUpdateStep ==
    ASSUME IInv, NEW c \in Calls, CommitUpdate(c)
    PROVE  IInv'
<1> DEFINE r == call[c].req
           status == IF r.status = NULL THEN call[c].status ELSE r.status
           total == IF r.price = NULL THEN call[c].total ELSE r.price
<1>1. /\ call[c].pc \in {"seen", "taken"} /\ r.op = "update" /\ Free(r.quote)
      /\ lines' = IF r.price = NULL THEN lines ELSE [lines EXCEPT ![r.quote] = Written(c)]
      /\ quote' = [quote EXCEPT ![r.quote].status = status, ![r.quote].total = total]
      /\ Becomes(r.quote, status)
      /\ raced' = IF IF r.price = NULL THEN quote[r.quote].total # call[c].total
                                       ELSE lines[r.quote] # call[c].lines
                  THEN raced \cup {r.quote} ELSE raced
      /\ End(c) /\ UNCHANGED <<ordered, catalog, begun>>
  BY DEF CommitUpdate, At
<1>2. r \in UpdateCall /\ call[c].status \in QuotationStatus /\ call[c].total \in Nat
      /\ call[c].id \in Nat
  BY <1>1, CallFields DEF IInv, Typed, Asked, CallRecord
<1>3. status \in QuotationStatus /\ total \in Nat /\ r.quote \in Existing /\ r.quote \in Quotes
  BY <1>1, <1>2, CallFields, PricesAssumption DEF Free, Existing
<1>4. quote' = [quote EXCEPT ![r.quote] = [@ EXCEPT !.status = status, !.total = total]]
  BY <1>1, <1>3 DEF IInv, Typed, QuoteRow
<1> HIDE DEF status, total
<1>5. /\ quote' \in [Quotes -> QuoteRow]
      /\ Existing' = Existing
      /\ WinnerIsAlone' /\ OneLiveQuotePerSupplier'
      /\ marked' \subseteq Quotes /\ doubled' \subseteq Quotes
  BY <1>1, <1>3, <1>4, StatusStep
<1>6. call' \in [Calls -> CallRecord] /\ \A d \in Calls : Asked(d)'
  BY <1>1, <1>5, EndStep DEF IInv, Asked
<1>7. Typed'
  <2>1. lines' \in [Quotes -> SUBSET Line]
    <3>1. CASE r.price = NULL
      BY <3>1, <1>1 DEF IInv, Typed
    <3>2. CASE r.price # NULL
      <4>1. [by |-> call[c].id, price |-> r.price] \in Line
        BY <3>2, <1>2, CallFields DEF Line
      <4>2. Written(c) \subseteq Line
        BY <1>3, <4>1 DEF Written, IInv, Typed
      <4> QED
        BY <3>2, <1>1, <1>3, <4>2 DEF IInv, Typed
    <3> QED
      BY <3>1, <3>2
  <2>2. raced' \subseteq Quotes /\ begun' \in Nat
    BY <1>1, <1>3 DEF IInv, Typed
  <2> QED
    BY <1>5, <1>6, <2>1, <2>2 DEF Typed
<1>8. OrdersOfQuotes'
  BY <1>1, <1>5 DEF IInv, OrdersOfQuotes
<1>9. OneLine'
  <2>1. \A p \in Existing \ {r.quote} : lines'[p] = lines[p] /\ quote'[p] = quote[p]
    BY <1>1, <1>3, <1>4 DEF IInv, Typed, Existing
  <2>2. quote'[r.quote].total = total
    BY <1>3, <1>4 DEF IInv, Typed, QuoteRow
  <2>3. raced \subseteq raced'
    BY <1>1
  <2>4. ASSUME r.quote \notin raced'
        PROVE  \E l \in Line : lines'[r.quote] = {l} /\ l.price = total
    <3>1. CASE r.price = NULL
      <4>1. total = quote[r.quote].total /\ lines'[r.quote] = lines[r.quote]
        BY <2>4, <3>1, <1>1 DEF total
      <4> QED
        BY <2>3, <2>4, <4>1, <1>3 DEF IInv, OneLine
    <3>2. CASE r.price # NULL
      <4>1. total = r.price /\ lines[r.quote] = call[c].lines
        BY <2>4, <3>2, <1>1 DEF total
      <4>2. lines'[r.quote] = {[by |-> call[c].id, price |-> r.price]}
        BY <3>2, <4>1, <1>1, <1>3 DEF Written, IInv, Typed
      <4>3. [by |-> call[c].id, price |-> r.price] \in Line
        BY <3>2, <1>2, CallFields DEF Line
      <4> QED
        BY <4>1, <4>2, <4>3
    <3> QED
      BY <3>1, <3>2
  <2> QED
    BY <2>1, <2>2, <2>3, <2>4, <1>5 DEF IInv, OneLine
<1> QED
  BY <1>5, <1>6, <1>7, <1>8, <1>9 DEF IInv

LEMMA LockOwnStep ==
    ASSUME IInv, NEW c \in Calls, LockOwn(c)
    PROVE  IInv'
<1> DEFINE rec == [call[c] EXCEPT !.pc = "locked"]
<1>1. /\ call[c].pc = "seen" /\ call[c].req.op = "select" /\ call[c].req.quote \in Existing
      /\ call' = [call EXCEPT ![c] = rec]
      /\ UNCHANGED <<quote, lines, ordered, catalog, begun, marked, doubled, raced>>
  BY DEF LockOwn, At, Goto, Free, IInv, Typed, history
<1>2. rec \in CallRecord /\ rec.pc = "locked" /\ rec.req = call[c].req
  BY DEF IInv, Typed, CallRecord
<1> HIDE DEF rec
<1>3. OrdersOfQuotes' /\ WinnerIsAlone' /\ OneLiveQuotePerSupplier' /\ Existing' = Existing
  BY <1>1, SameRows
<1>4. Asked(c)'
  <2>1. call'[c] = rec /\ call[c].req \in Call
    BY <1>1 DEF IInv, Typed, Asked
  <2> QED
    BY <1>1, <1>2, <1>3, <2>1 DEF Asked
<1>5. call' \in [Calls -> CallRecord] /\ \A d \in Calls : Asked(d)'
  <2>1. \A d \in Calls \ {c} : call[d].pc = "locked" => call[d].req.quote \in Existing'
    BY <1>3 DEF IInv, Asked
  <2> QED
    BY <1>1, <1>2, <1>4, <2>1, CallStep
<1>6. Typed' /\ OneLine'
  BY <1>1, <1>5, SameLines DEF IInv, Typed
<1> QED
  BY <1>3, <1>5, <1>6 DEF IInv

\* After a selection, the quotation is the only live one of its request.
LEMMA CommitSelectionStep ==
    ASSUME IInv, NEW c \in Calls, CommitSelection(c)
    PROVE  IInv'
<1> DEFINE q == call[c].req.quote
<1>1. /\ call[c].pc = "locked" /\ q \in Existing /\ q \in Quotes
      /\ quote' = [p \in Quotes |->
                     IF p = q THEN [quote[p] EXCEPT !.status = "SELECCIONADA"]
                     ELSE IF p \in Discarded(q) THEN [quote[p] EXCEPT !.status = "DESCARTADA"]
                     ELSE quote[p]]
      /\ marked' = marked \ {q}
      /\ End(c) /\ UNCHANGED <<lines, ordered, begun, doubled, raced>>
  BY DEF CommitSelection, At, IInv, Asked, Existing
<1> HIDE DEF q
<1>2. \A p \in Quotes : quote[p] \in QuoteRow
  BY DEF IInv, Typed
<1>3. quote'[q].status = "SELECCIONADA"
  BY <1>1, <1>2 DEF QuoteRow
<1>4. \A p \in Quotes \ {q} :
         quote'[p].status = IF p \in Discarded(q) THEN "DESCARTADA" ELSE quote[p].status
  BY <1>1, <1>2 DEF QuoteRow
<1>5. \A p \in Quotes : /\ quote'[p].request = quote[p].request
                        /\ quote'[p].supplier = quote[p].supplier
  BY <1>1, <1>2 DEF QuoteRow
<1>6. quote' \in [Quotes -> QuoteRow]
  <2>1. ASSUME NEW p \in Quotes PROVE quote'[p] \in QuoteRow
    BY <1>1, <1>2 DEF QuoteRow, QuotationStatus
  <2> QED
    BY <1>1, <2>1
<1>7. Existing' = Existing
  <2>1. \A p \in Discarded(q) : p \in Existing
    BY DEF Discarded, LiveSiblings, Siblings
  <2>2. "SELECCIONADA" # NULL /\ "DESCARTADA" # NULL
    BY StatusAssumption DEF QuotationStatus
  <2> QED
    BY <1>1, <1>3, <1>4, <2>1, <2>2 DEF Existing
<1>8. \A p \in Siblings(q) : quote'[p].status \notin Live
  <2>1. \A p \in Siblings(q) : p \in Quotes \ {q}
    BY DEF Siblings, Existing
  <2> QED
    BY <1>4, <2>1 DEF Discarded, LiveSiblings, Live
<1>9. \A p \in Quotes \ {q} : quote'[p].status \in Live => quote'[p].status = quote[p].status
  BY <1>4 DEF Live
<1>10. WinnerIsAlone'
  <2>1. SUFFICES ASSUME NEW p1 \in Existing, NEW p2 \in Existing, p1 # p2,
                        quote'[p1].request = quote'[p2].request, quote'[p1].request # NULL,
                        quote'[p1].status = "SELECCIONADA", quote'[p2].status = "SELECCIONADA"
                 PROVE  p1 \in marked' \/ p2 \in marked'
    BY <1>7 DEF WinnerIsAlone
  <2>2. p1 \in Quotes /\ p2 \in Quotes
    BY DEF Existing
  <2>3. "SELECCIONADA" \in Live
    BY DEF Live
  <2>4. p1 # q /\ p2 # q
    <3>1. ASSUME p2 = q PROVE FALSE
      <4>1. p1 \in Siblings(q)
        BY <2>1, <2>2, <3>1, <1>1, <1>5 DEF Siblings
      <4> QED
        BY <2>1, <2>3, <4>1, <1>8
    <3>2. ASSUME p1 = q PROVE FALSE
      <4>1. p2 \in Siblings(q)
        BY <2>1, <2>2, <3>2, <1>1, <1>5 DEF Siblings
      <4> QED
        BY <2>1, <2>3, <4>1, <1>8
    <3> QED
      BY <3>1, <3>2
  <2>5. quote[p1].status = "SELECCIONADA" /\ quote[p2].status = "SELECCIONADA"
    BY <2>1, <2>2, <2>3, <2>4, <1>9
  <2> QED
    BY <2>1, <2>2, <2>4, <2>5, <1>1, <1>5 DEF IInv, WinnerIsAlone
<1>11. OneLiveQuotePerSupplier'
  <2>1. SUFFICES ASSUME NEW p1 \in Existing, NEW p2 \in Existing, p1 # p2,
                        quote'[p1].request = quote'[p2].request, quote'[p2].request # NULL,
                        quote'[p1].supplier = quote'[p2].supplier,
                        quote'[p1].status \in Live, quote'[p2].status \in Live
                 PROVE  p1 \in doubled' \/ p2 \in doubled'
    BY <1>7 DEF OneLiveQuotePerSupplier, LiveTwins
  <2>2. p1 \in Quotes /\ p2 \in Quotes
    BY DEF Existing
  <2>3. p1 # q /\ p2 # q
    BY <2>1, <2>2, <1>1, <1>5, <1>8 DEF Siblings
  <2>4. quote[p1].status \in Live /\ quote[p2].status \in Live
    BY <2>1, <2>2, <2>3, <1>9
  <2>5. p1 \in LiveTwins(p2, quote[p2].request, quote[p2].supplier)
    BY <2>1, <2>2, <2>4, <1>5 DEF LiveTwins
  <2> QED
    BY <2>4, <2>5, <1>1 DEF IInv, OneLiveQuotePerSupplier
<1>12. call' \in [Calls -> CallRecord] /\ \A d \in Calls : Asked(d)'
  BY <1>1, <1>7, EndStep DEF IInv, Asked
<1>13. Typed' /\ OrdersOfQuotes'
  BY <1>1, <1>6, <1>7, <1>12 DEF IInv, Typed, OrdersOfQuotes
<1>14. OneLine'
  <2>1. \A p \in Existing : quote'[p].total = quote[p].total
    BY <1>1, <1>2 DEF QuoteRow, Existing
  <2> QED
    BY <2>1, <1>1, <1>7 DEF IInv, OneLine
<1> QED
  BY <1>10, <1>11, <1>12, <1>13, <1>14 DEF IInv

LEMMA CommitOrderStep ==
    ASSUME IInv, NEW c \in Calls, CommitOrder(c)
    PROVE  IInv'
<1> DEFINE q == call[c].req.quote
<1>1. /\ q \in Existing /\ q \in Quotes
      /\ quote' = [quote EXCEPT ![q].status = "SELECCIONADA"]
      /\ ordered' = ordered \cup {q}
      /\ Becomes(q, "SELECCIONADA")
      /\ End(c) /\ UNCHANGED <<lines, catalog, begun, raced>>
  BY DEF CommitOrder, Free, Existing
<1>2. quote[q].total \in Nat /\ "SELECCIONADA" \in QuotationStatus
  BY <1>1 DEF IInv, Typed, QuoteRow, QuotationStatus
<1>3. quote' = [quote EXCEPT ![q] = [@ EXCEPT !.status = "SELECCIONADA", !.total = quote[q].total]]
  BY <1>1 DEF IInv, Typed, QuoteRow
<1> HIDE DEF q
<1>4. /\ quote' \in [Quotes -> QuoteRow]
      /\ Existing' = Existing
      /\ WinnerIsAlone' /\ OneLiveQuotePerSupplier'
      /\ marked' \subseteq Quotes /\ doubled' \subseteq Quotes
  BY <1>1, <1>2, <1>3, StatusStep
<1>5. call' \in [Calls -> CallRecord] /\ \A d \in Calls : Asked(d)'
  BY <1>1, <1>4, EndStep DEF IInv, Asked
<1>6. Typed' /\ OrdersOfQuotes'
  BY <1>1, <1>4, <1>5 DEF IInv, Typed, OrdersOfQuotes
<1>7. OneLine'
  <2>1. \A p \in Existing : quote'[p].total = quote[p].total
    BY <1>3, <1>1 DEF IInv, Typed, QuoteRow, Existing
  <2> QED
    BY <2>1, <1>1, <1>4 DEF IInv, OneLine
<1> QED
  BY <1>4, <1>5, <1>6, <1>7 DEF IInv

LEMMA RemoveLinesStep ==
    ASSUME IInv, NEW c \in Calls, RemoveLines(c)
    PROVE  IInv'
<1> DEFINE rec == [call[c] EXCEPT !.pc = "emptied"]
<1>1. /\ call[c].pc = "seen" /\ call[c].req.op = "remove"
      /\ call' = [call EXCEPT ![c] = rec]
      /\ lines' = [lines EXCEPT ![call[c].req.quote] = {}]
      /\ raced' = raced \cup {call[c].req.quote}
      /\ UNCHANGED <<quote, ordered, catalog, begun, marked, doubled>>
  BY DEF RemoveLines, At, Goto, IInv, Typed
<1>2. rec \in CallRecord /\ rec.pc = "emptied" /\ rec.req = call[c].req
  BY DEF IInv, Typed, CallRecord
<1> HIDE DEF rec
<1>3. call[c].req \in Call /\ call[c].req.quote \in Quotes
  BY <1>1, CallFields DEF IInv, Asked
<1>4. OrdersOfQuotes' /\ WinnerIsAlone' /\ OneLiveQuotePerSupplier' /\ Existing' = Existing
  BY <1>1, SameRows
<1>5. Asked(c)'
  BY <1>1, <1>2, <1>3 DEF IInv, Typed, Asked
<1>6. call' \in [Calls -> CallRecord] /\ \A d \in Calls : Asked(d)'
  <2>1. \A d \in Calls \ {c} : call[d].pc = "locked" => call[d].req.quote \in Existing'
    BY <1>4 DEF IInv, Asked
  <2> QED
    BY <1>1, <1>2, <1>5, <2>1, CallStep
<1>7. Typed'
  BY <1>1, <1>3, <1>6 DEF IInv, Typed
<1>8. OneLine'
  <2>1. \A p \in Existing \ raced' : p \in Existing \ raced /\ lines'[p] = lines[p]
    BY <1>1, <1>3 DEF IInv, Typed, Existing
  <2> QED
    BY <2>1, <1>1, <1>4 DEF IInv, OneLine
<1> QED
  BY <1>4, <1>6, <1>7, <1>8 DEF IInv

LEMMA RemoveQuoteStep ==
    ASSUME IInv, NEW c \in Calls, RemoveQuote(c)
    PROVE  IInv'
<1> DEFINE q == call[c].req.quote
<1>1. /\ call[c].pc = "emptied" /\ q \in Existing /\ q \in Quotes
      /\ \A d \in Calls : call[d].pc = "locked" => call[d].req.quote # q
      /\ quote' = [quote EXCEPT ![q] = NoQuote]
      /\ lines' = [lines EXCEPT ![q] = {}]
      /\ ordered' = ordered \ {q} /\ marked' = marked \ {q}
      /\ doubled' = doubled \ {q} /\ raced' = raced \ {q}
      /\ End(c) /\ UNCHANGED <<catalog, begun>>
  BY DEF RemoveQuote, At, Free, Existing
<1> HIDE DEF q
<1>2. NoQuote \in QuoteRow /\ NoQuote.status = NULL
  BY DEF NoQuote, QuoteRow
<1>3. quote' \in [Quotes -> QuoteRow] /\ \A p \in Quotes \ {q} : quote'[p] = quote[p]
  BY <1>1, <1>2 DEF IInv, Typed
<1>4. Existing' = Existing \ {q}
  BY <1>1, <1>2, <1>3 DEF IInv, Typed, Existing
<1>5. WinnerIsAlone' /\ OneLiveQuotePerSupplier'
  BY <1>1, <1>3, <1>4 DEF IInv, WinnerIsAlone, OneLiveQuotePerSupplier, LiveTwins, Existing
<1>6. call' \in [Calls -> CallRecord] /\ \A d \in Calls : Asked(d)'
  <2>1. \A d \in Calls \ {c} : call[d].pc = "locked" => call[d].req.quote \in Existing'
    BY <1>1, <1>4 DEF IInv, Asked
  <2> QED
    BY <1>1, <2>1, EndStep
<1>7. Typed' /\ OrdersOfQuotes'
  BY <1>1, <1>3, <1>4, <1>6 DEF IInv, Typed, OrdersOfQuotes
<1>8. OneLine'
  <2>1. \A p \in Existing' \ raced' :
           p \in Existing \ raced /\ lines'[p] = lines[p] /\ quote'[p] = quote[p]
    BY <1>1, <1>3, <1>4 DEF IInv, Typed, Existing
  <2> QED
    BY <2>1 DEF IInv, OneLine
<1> QED
  BY <1>5, <1>6, <1>7, <1>8 DEF IInv

\* A call that ends and leaves the rows.
LEMMA NothingWritten ==
    ASSUME IInv, NEW c \in Calls, End(c),
           UNCHANGED <<quote, lines, ordered, catalog, begun, history>>
    PROVE  IInv'
<1>1. OrdersOfQuotes' /\ WinnerIsAlone' /\ OneLiveQuotePerSupplier' /\ Existing' = Existing
  BY SameRows DEF history
<1>2. call' \in [Calls -> CallRecord] /\ \A d \in Calls : Asked(d)'
  BY <1>1, EndStep DEF IInv, Asked
<1>3. OneLine'
  BY SameLines DEF history
<1> QED
  BY <1>1, <1>2, <1>3 DEF IInv, Typed, history

LEMMA Stutter == ASSUME IInv, UNCHANGED vars PROVE IInv'
<1>1. OrdersOfQuotes' /\ WinnerIsAlone' /\ OneLiveQuotePerSupplier' /\ Existing' = Existing
  BY SameRows DEF vars, history
<1>2. \A d \in Calls : Asked(d)'
  BY <1>1 DEF IInv, Asked, vars
<1>3. OneLine'
  BY SameLines DEF vars, history
<1> QED
  BY <1>1, <1>2, <1>3 DEF IInv, Typed, vars, history

LEMMA StepIInv == IInv /\ [Next]_vars => IInv'
<1> SUFFICES ASSUME IInv, [Next]_vars PROVE IInv'
  OBVIOUS
<1>1. ASSUME NEW c \in Calls, DeadlockAbort(c) \/ Fail(c) PROVE IInv'
  BY <1>1, NothingWritten DEF DeadlockAbort, Fail
<1> QED
  BY <1>1, Stutter, ReadForCreateStep, ReadQuoteStep, CommitCreateStep, TakeLinesStep,
     CommitUpdateStep, LockOwnStep, CommitSelectionStep, CommitOrderStep, RemoveLinesStep,
     RemoveQuoteStep DEF Next

LEMMA Invariant == Spec => []IInv
  BY InitIInv, StepIInv, PTL DEF Spec

-----------------------------------------------------------------------------
\* Every variable keeps its type, and no purchase order refers to a quotation that
\* was removed, although remove looks for orders in another statement than it deletes.
THEOREM OrdersSafety == Spec => [](Typed /\ OrdersOfQuotes)
<1>1. IInv => Typed /\ OrdersOfQuotes
  BY DEF IInv
<1> QED
  BY <1>1, Invariant, PTL

\* The total of one line is its price: the sum unfolds once.
LEMMA TotalOfOne ==
    ASSUME NEW l, l.price \in Nat
    PROVE  TotalOf({l}) = l.price
<1> DEFINE any(s) == CHOOSE x \in s : TRUE
           Sums(f) == f = [s \in SUBSET {l} |-> IF s = {} THEN 0 ELSE any(s).price + f[s \ {any(s)}]]
           once == [s \in SUBSET {l} |-> IF s = {} THEN 0 ELSE l.price]
           sum == CHOOSE f : Sums(f)
<1>1. TotalOf({l}) = sum[{l}]
  BY DEF TotalOf, MapThenSumSet, MapThenFoldSet
<1>2. \A s \in SUBSET {l} : s # {} => s = {l} /\ any(s) = l /\ s \ {any(s)} = {}
  OBVIOUS
<1>3. Sums(once)
  <2>1. \A s \in SUBSET {l} :
           once[s] = IF s = {} THEN 0 ELSE any(s).price + once[s \ {any(s)}]
    BY <1>2
  <2> QED
    BY <2>1
<1>4. Sums(sum)
  <2> HIDE DEF Sums, once
  <2> QED
    BY <1>3
<1> HIDE DEF sum
<1>5. sum[{}] = 0 /\ sum[{l}] = l.price + sum[{}]
  BY <1>2, <1>4
<1> QED
  BY <1>1, <1>5

\* The total of a quotation is what its lines add up to, unless an update wrote over
\* one it had not seen or a removal stopped half way: there is one line, of that price.
THEOREM TotalSafety == Spec => []TotalMatchesLines
<1>1. IInv => TotalMatchesLines
  <2> SUFFICES ASSUME IInv, NEW q \in Existing \ raced PROVE quote[q].total = TotalOf(lines[q])
    BY DEF TotalMatchesLines
  <2>1. PICK l \in Line : lines[q] = {l} /\ l.price = quote[q].total
    BY DEF IInv, OneLine
  <2>2. quote[q].total \in Nat
    BY DEF IInv, Typed, QuoteRow, Existing
  <2> QED
    BY <2>1, <2>2, TotalOfOne
<1> QED
  BY <1>1, Invariant, PTL

\* selectQuotation leaves one winner, however many selections, updates, orders and
\* creations race with it: a second one was marked by something else.
THEOREM WinnerSafety == Spec => []WinnerIsAlone
<1>1. IInv => WinnerIsAlone
  BY DEF IInv
<1> QED
  BY <1>1, Invariant, PTL

\* A supplier has one live quotation of a request, but for those created without
\* seeing each other or brought back to life.
THEOREM TwinSafety == Spec => []OneLiveQuotePerSupplier
<1>1. IInv => OneLiveQuotePerSupplier
  BY DEF IInv
<1> QED
  BY <1>1, Invariant, PTL
=============================================================================
