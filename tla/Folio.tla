-------------------------------- MODULE Folio --------------------------------
(***************************************************************************)
(* How the services number their documents.  A number must be unique in    *)
(* the whole table, while the query that looks for the last one sees only  *)
(* the caller's tenant.  Four ways are in use:                             *)
(*   locked   advisory lock, then last number + 1   (MOV, OC, ST, COT)     *)
(*   scanned  last number + 1, no lock              (SOL)                  *)
(*   counted  rows of the series + 1, no lock       (DSP, OT)              *)
(*   tallied  all movements of the tenant + 1       (MOV of the year)      *)
(* One action per statement; one month, so one prefix for each series.     *)
(***************************************************************************)
EXTENDS Integers, FiniteSets

CONSTANTS
    Procs,      \* document creations in flight
    Tenants,
    Series,     \* the document series of this run
    Base,       \* digits have Base values
    Padded,     \* numbers below it are padded to one width, others are one digit longer
    MaxNumber,  \* bound: the last number a creation may get
    NULL

LockedSeries == {"MOV", "OC", "ST", "COT"}
CountedSeries == {"DSP", "OT"}
Removable == {"COT"}                   \* the only rows a service deletes
AllSeries == LockedSeries \cup CountedSeries \cup {"SOL", "MOV_YEAR"}

ASSUME FolioAssumption ==
    /\ NULL \notin Procs
    /\ Series \subseteq AllSeries
    /\ Base \in Nat \ {0, 1} /\ Padded \in Nat \ {0}
    /\ MaxNumber \in Nat

Document == [series : Series, tenant : Tenants, n : Nat]
NoDocument == [series |-> NULL, tenant |-> NULL, n |-> 0]

VARIABLES
    rows,       \* committed documents
    lock,       \* advisory lock of each locked series
    pc,
    doc         \* the document a creation is about to insert

vars == <<rows, lock, pc, doc>>

Init ==
    /\ rows = {}
    /\ lock = [s \in LockedSeries |-> NULL]
    /\ pc = [p \in Procs |-> "idle"]
    /\ doc = [p \in Procs |-> NoDocument]

-----------------------------------------------------------------------------
(* Numbers *)

Numbers(s, t) == {d.n : d \in {e \in rows : e.series = s /\ e.tenant = t}}

\* orderBy desc compares strings: a number one digit longer sorts by its
\* leading digits, and after its own prefix.
Spread(n) == IF n < Padded THEN n * Base ELSE n
SortsAfter(a, b) == Spread(a) > Spread(b) \/ (Spread(a) = Spread(b) /\ a > b)
Latest(N) == CHOOSE n \in N : \A m \in N \ {n} : SortsAfter(n, m)

Successor(N) == IF N = {} THEN 1 ELSE Latest(N) + 1

\* Wrong on purpose: looks for the last number among all tenants.
NextNumberOfAll(s, t) == Successor(UNION {Numbers(s, u) : u \in Tenants})

NextNumber(s, t) ==
    CASE s \in CountedSeries -> Cardinality(Numbers(s, t)) + 1
      [] s = "MOV_YEAR" ->
            Cardinality({d \in rows : d.tenant = t /\ d.series \in {"MOV", "MOV_YEAR"}}) + 1
      [] OTHER -> Successor(Numbers(s, t))

-----------------------------------------------------------------------------
(* A creation *)

\* Another document has this number: a committed row of any tenant, or one
\* whose transaction has not ended.
Taken(d) == \E e \in rows : e.series = d.series /\ e.n = d.n
Inserting(p, d) ==
    \E q \in Procs \ {p} : pc[q] = "commit" /\ doc[q].series = d.series /\ doc[q].n = d.n

Begin(p, s, t) ==
    /\ pc[p] = "idle"
    /\ doc' = [doc EXCEPT ![p] = [series |-> s, tenant |-> t, n |-> 0]]
    /\ pc' = [pc EXCEPT ![p] = IF s \in LockedSeries THEN "lock" ELSE "read"]
    /\ UNCHANGED <<rows, lock>>

\* Wrong on purpose: the lock does not wait.
LockShared(p) ==
    /\ pc[p] = "lock"
    /\ lock' = [lock EXCEPT ![doc[p].series] = p]
    /\ pc' = [pc EXCEPT ![p] = "read"]
    /\ UNCHANGED <<rows, doc>>

\* SELECT pg_advisory_xact_lock(folio_<series>_<month>): one lock for all tenants.
Lock(p) ==
    /\ pc[p] = "lock"
    /\ lock[doc[p].series] = NULL
    /\ lock' = [lock EXCEPT ![doc[p].series] = p]
    /\ pc' = [pc EXCEPT ![p] = "read"]
    /\ UNCHANGED <<rows, doc>>

ReadNumber(p) ==
    /\ pc[p] = "read"
    /\ NextNumber(doc[p].series, doc[p].tenant) <= MaxNumber
    /\ doc' = [doc EXCEPT ![p].n = NextNumber(doc[p].series, doc[p].tenant)]
    /\ pc' = [pc EXCEPT ![p] = "insert"]
    /\ UNCHANGED <<rows, lock>>

\* The unique index makes an insert wait for another one of the same number.
Insert(p) ==
    /\ pc[p] = "insert"
    /\ ~Taken(doc[p]) /\ ~Inserting(p, doc[p])
    /\ pc' = [pc EXCEPT ![p] = "commit"]
    /\ UNCHANGED <<rows, lock, doc>>

End(p) ==
    /\ pc' = [pc EXCEPT ![p] = "idle"]
    /\ doc' = [doc EXCEPT ![p] = NoDocument]
    /\ lock' = [s \in LockedSeries |-> IF lock[s] = p THEN NULL ELSE lock[s]]

Commit(p) ==
    /\ pc[p] = "commit"
    /\ rows' = rows \cup {doc[p]}
    /\ End(p)

\* P2002: the number is taken; the whole transaction is lost with it.
Conflict(p) ==
    /\ pc[p] = "insert" /\ Taken(doc[p])
    /\ End(p)
    /\ UNCHANGED rows

\* Any other statement of the transaction fails.
Rollback(p) ==
    /\ pc[p] # "idle"
    /\ End(p)
    /\ UNCHANGED rows

\* QuotationsService.remove
Remove(d) ==
    /\ d.series \in Removable
    /\ rows' = rows \ {d}
    /\ UNCHANGED <<lock, pc, doc>>

Step(p) == Lock(p) \/ ReadNumber(p) \/ Insert(p) \/ Commit(p) \/ Conflict(p)

Next ==
    \/ \E p \in Procs : \/ \E s \in Series, t \in Tenants : Begin(p, s, t)
                        \/ Step(p)
                        \/ Rollback(p)
    \/ \E d \in rows : Remove(d)

Spec == Init /\ [][Next]_vars

-----------------------------------------------------------------------------
(* Properties *)

\* The number a creation under the advisory lock is about to insert is free as
\* far as the tenant's own documents go, and no other creation of the tenant is
\* about to insert it, whatever commits, fails or is removed around it.
LockedFolioIsOwn ==
    \A p \in Procs : pc[p] = "insert" /\ doc[p].series \in LockedSeries =>
        /\ doc[p].n \notin Numbers(doc[p].series, doc[p].tenant)
        /\ \A q \in Procs \ {p} : pc[q] \in {"insert", "commit"} => doc[q] # doc[p]

\* A locked series whose documents are never deleted has no gap in any tenant:
\* a rolled back creation gives its number back, and no two creations skip
\* over each other.
LockedFoliosHaveNoGap ==
    \A s \in LockedSeries \ Removable, t \in Tenants :
        Numbers(s, t) = 1..Cardinality(Numbers(s, t))
==============================================================================
