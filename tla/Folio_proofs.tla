---------------------------- MODULE Folio_proofs ----------------------------
(***************************************************************************)
(* Numbers under the advisory lock are the creation's own and leave no     *)
(* gap, for any tenants, series and creations in flight, as long as the    *)
(* numbers of the month stay below the width they are padded to.           *)
(***************************************************************************)
EXTENDS Folio, FiniteSetTheorems, WellFoundedInduction, TLAPS

Record == [series: AllSeries \cup {NULL}, tenant: Tenants \cup {NULL}, n: Nat]

Typed ==
    /\ rows \subseteq [series: AllSeries, tenant: Tenants, n: 1..MaxNumber]
    /\ IsFiniteSet(rows)
    /\ lock \in [LockedSeries -> Procs \cup {NULL}]
    /\ pc \in [Procs -> {"idle", "lock", "read", "insert", "commit"}]
    /\ doc \in [Procs -> Record]
    /\ \A p \in Procs : pc[p] # "idle" => doc[p].series \in AllSeries /\ doc[p].tenant \in Tenants
    /\ \A p \in Procs : pc[p] \in {"insert", "commit"} => doc[p].n \in 1..MaxNumber

InHand(p) == pc[p] \in {"read", "insert", "commit"} /\ doc[p].series \in LockedSeries

\* Who reads, inserts or commits a number of a locked series holds its lock.
Holds == \A p \in Procs : InHand(p) => lock[doc[p].series] = p

Own(p) == Numbers(doc[p].series, doc[p].tenant)

\* The number in hand comes after those of the tenant, the next one if none is ever deleted.
Fits(p) ==
    pc[p] \in {"insert", "commit"} /\ doc[p].series \in LockedSeries =>
        /\ doc[p].n \notin Own(p)
        /\ doc[p].series \notin Removable => Own(p) = 1..(doc[p].n - 1)

\* A locked series whose rows nobody deletes has the first numbers, up to some.
Gapless == \A s \in LockedSeries \ Removable, t \in Tenants : \E k \in 0..MaxNumber : Numbers(s, t) = 1..k

\* The inductive invariant.
IInv == Typed /\ Holds /\ (\A p \in Procs : Fits(p)) /\ Gapless

-----------------------------------------------------------------------------
(* The last number *)

\* Below the padding the order of strings is that of numbers.
LEMMA StringOrder ==
    ASSUME NEW a \in Nat, NEW b \in Nat, a < Padded, b < Padded
    PROVE  SortsAfter(a, b) <=> a > b
<1>1. Base \in Nat /\ Base > 0
  BY FolioAssumption
<1>2. a > b => a * Base > b * Base
  <2> SUFFICES ASSUME a > b PROVE a * Base > b * Base
    OBVIOUS
  <2>1. PICK c \in Nat : a = b + 1 + c
    <3>1. a - b - 1 \in Nat /\ a = b + 1 + (a - b - 1)
      OBVIOUS
    <3> QED  BY <3>1
  <2>2. PICK B \in Nat : B = Base /\ B > 0
    BY <1>1
  <2>3. a * B = b * B + B + c * B
    BY <2>1, SMT
  <2>4. c * B \in Nat /\ b * B \in Nat
    OBVIOUS
  <2> QED  BY <2>2, <2>3, <2>4
<1>3. b > a => b * Base > a * Base
  <2> SUFFICES ASSUME b > a PROVE b * Base > a * Base
    OBVIOUS
  <2>1. PICK c \in Nat : b = a + 1 + c
    <3>1. b - a - 1 \in Nat /\ b = a + 1 + (b - a - 1)
      OBVIOUS
    <3> QED  BY <3>1
  <2>2. PICK B \in Nat : B = Base /\ B > 0
    BY <1>1
  <2>3. b * B = a * B + B + c * B
    BY <2>1, SMT
  <2>4. c * B \in Nat /\ a * B \in Nat
    OBVIOUS
  <2> QED  BY <2>2, <2>3, <2>4
<1>4. Spread(a) = a * Base /\ Spread(b) = b * Base
  BY DEF Spread
<1>5. a * Base \in Nat /\ b * Base \in Nat
  BY <1>1
<1>6. a = b => a * Base = b * Base
  OBVIOUS
<1> QED
  BY <1>2, <1>3, <1>4, <1>5, <1>6 DEF SortsAfter

\* A set of numbers up to MaxNumber that is not empty has a largest one: the one
\* that leaves least above it.
LEMMA Largest ==
    ASSUME NEW N \in SUBSET (1..MaxNumber), N # {}
    PROVE  \E n \in N : \A m \in N : m <= n
<1> DEFINE Above(n) == {m \in 1..MaxNumber : m > n}
           T == {Above(n) : n \in N}
<1>1. MaxNumber \in Nat
  BY FolioAssumption
<1>2. IsFiniteSet(1..MaxNumber)
  BY <1>1, FS_Interval
<1>3. \A n \in N : Above(n) \in FiniteSubsetsOf(1..MaxNumber)
  <2>1. \A n \in N : Above(n) \in SUBSET (1..MaxNumber)
    OBVIOUS
  <2>2. \A n \in N : IsFiniteSet(Above(n))
    <3> HIDE DEF Above
    <3> QED  BY <1>2, <2>1, FS_Subset
  <2> HIDE DEF Above
  <2> QED  BY <2>1, <2>2 DEF FiniteSubsetsOf
<1>4. T # {} /\ T \subseteq FiniteSubsetsOf(1..MaxNumber)
  <2> HIDE DEF Above
  <2> QED  BY <1>3
<1>5. PICK x \in T : \A y \in T : ~(<<y, x>> \in StrictSubsetOrdering(1..MaxNumber))
  <2> HIDE DEF T
  <2> QED  BY <1>4, FS_StrictSubsetOrderingWellFounded, WFMin
<1>6. PICK n \in N : x = Above(n)
  OBVIOUS
<1>7. ASSUME NEW m \in N PROVE m <= n
  <2> SUFFICES ASSUME m > n PROVE FALSE
    OBVIOUS
  <2>1. Above(m) \subseteq Above(n) /\ m \in Above(n) /\ m \notin Above(m)
    BY <1>1
  <2>2. Above(m) \in SUBSET (1..MaxNumber) /\ Above(n) \in SUBSET (1..MaxNumber)
    OBVIOUS
  <2>3. <<Above(m), Above(n)>> \in StrictSubsetOrdering(1..MaxNumber)
    <3> HIDE DEF Above
    <3> QED  BY <2>1, <2>2 DEF StrictSubsetOrdering
  <2> QED
    BY <1>5, <1>6, <2>3
<1> QED
  BY <1>7

\* What a creation computes is after every number it sees.
LEMMA SuccessorIsNext ==
    ASSUME MaxNumber < Padded, NEW N \in SUBSET (1..MaxNumber)
    PROVE  /\ Successor(N) \in Nat \ {0}
           /\ \A m \in N : m < Successor(N)
           /\ N # {} => Successor(N) - 1 \in N
<1>1. CASE N = {}
  BY <1>1 DEF Successor
<1>2. CASE N # {}
  <2>1. PICK n \in N : \A m \in N : m <= n
    BY <1>2, Largest
  <2>2. \A m \in N : m \in Nat /\ m < Padded /\ m > 0
    BY FolioAssumption
  <2>3. \A m \in N \ {n} : SortsAfter(n, m)
    BY <2>1, <2>2, StringOrder
  <2>4. \A x \in N : (\A m \in N \ {x} : SortsAfter(x, m)) => x = n
    <3> SUFFICES ASSUME NEW x \in N, \A m \in N \ {x} : SortsAfter(x, m), x # n PROVE FALSE
      OBVIOUS
    <3>1. SortsAfter(x, n)
      OBVIOUS
    <3> QED  BY <3>1, <2>1, <2>2, StringOrder
  <2>5. Latest(N) = n
    BY <2>3, <2>4 DEF Latest
  <2> QED
    BY <1>2, <2>1, <2>2, <2>5 DEF Successor
<1> QED
  BY <1>1, <1>2

-----------------------------------------------------------------------------
(* Steps *)

LEMMA InitIInv == Init => IInv
<1> SUFFICES ASSUME Init PROVE IInv
  OBVIOUS
<1>1. Typed
  BY FolioAssumption, FS_EmptySet DEF Init, Typed, Record, NoDocument
<1>2. Holds /\ \A p \in Procs : Fits(p)
  BY DEF Init, Holds, InHand, Fits
<1>3. Gapless
  <2>1. 0 \in 0..MaxNumber /\ 1..0 = {}
    BY FolioAssumption
  <2> QED  BY <2>1 DEF Init, Gapless, Numbers
<1> QED
  BY <1>1, <1>2, <1>3 DEF IInv

\* A step of p that writes no row and takes nobody's lock.
LEMMA Frame ==
    ASSUME IInv, Typed', NEW p \in Procs, rows' = rows,
           \A q \in Procs \ {p} : pc'[q] = pc[q] /\ doc'[q] = doc[q],
           \A s \in LockedSeries : lock[s] \in Procs \ {p} => lock'[s] = lock[s],
           InHand(p)' => lock'[doc'[p].series] = p,
           Fits(p)'
    PROVE  IInv'
<1>1. Holds'
  BY DEF IInv, Holds, InHand
<1>2. \A q \in Procs : Fits(q)'
  BY DEF IInv, Fits, Own, Numbers
<1>3. Gapless'
  BY DEF IInv, Gapless, Numbers
<1> QED
  BY <1>1, <1>2, <1>3 DEF IInv

LEMMA BeginStep ==
    ASSUME IInv, NEW p \in Procs, NEW s \in Series, NEW t \in Tenants, Begin(p, s, t)
    PROVE  IInv'
<1>1. s \in AllSeries
  BY FolioAssumption
<1>2. /\ doc' = [doc EXCEPT ![p] = [series |-> s, tenant |-> t, n |-> 0]]
      /\ pc' = [pc EXCEPT ![p] = IF s \in LockedSeries THEN "lock" ELSE "read"]
      /\ rows' = rows /\ lock' = lock
  BY DEF Begin
<1>3. Typed'
  BY <1>1, <1>2 DEF IInv, Typed, Record
<1>4. ~InHand(p)' /\ Fits(p)'
  BY <1>2 DEF IInv, Typed, InHand, Fits
<1> QED
  BY <1>2, <1>3, <1>4, Frame DEF IInv, Typed

LEMMA LockStep == ASSUME IInv, NEW p \in Procs, Lock(p) PROVE IInv'
<1>1. /\ pc[p] = "lock" /\ lock[doc[p].series] = NULL
      /\ lock' = [lock EXCEPT ![doc[p].series] = p]
      /\ pc' = [pc EXCEPT ![p] = "read"]
      /\ rows' = rows /\ doc' = doc
  BY DEF Lock
<1>2. Typed'
  BY <1>1 DEF IInv, Typed
<1>3. InHand(p)' => lock'[doc'[p].series] = p
  BY <1>1 DEF IInv, Typed, InHand
<1>4. Fits(p)'
  BY <1>1 DEF IInv, Typed, Fits
<1>5. \A s \in LockedSeries : lock[s] \in Procs \ {p} => lock'[s] = lock[s]
  BY <1>1, FolioAssumption DEF IInv, Typed
<1> QED
  BY <1>1, <1>2, <1>3, <1>4, <1>5, Frame DEF IInv, Typed

\* The numbers a tenant has are some of those there may be.
LEMMA NumbersBound ==
    ASSUME Typed, NEW s, NEW t
    PROVE  Numbers(s, t) \subseteq 1..MaxNumber
  BY DEF Typed, Numbers

LEMMA ReadStep == ASSUME MaxNumber < Padded, IInv, NEW p \in Procs, ReadNumber(p) PROVE IInv'
<1> DEFINE s == doc[p].series
           n == NextNumber(s, doc[p].tenant)
<1>1. /\ pc[p] = "read" /\ n <= MaxNumber
      /\ doc' = [doc EXCEPT ![p].n = n]
      /\ pc' = [pc EXCEPT ![p] = "insert"]
      /\ rows' = rows /\ lock' = lock
  BY DEF ReadNumber
<1>2. s \in AllSeries /\ doc[p].tenant \in Tenants
  BY <1>1 DEF IInv, Typed
<1>3. Own(p) \in SUBSET (1..MaxNumber)
  BY NumbersBound DEF IInv, Own
<1>4. /\ Successor(Own(p)) \in Nat \ {0}
      /\ \A m \in Own(p) : m < Successor(Own(p))
      /\ Own(p) # {} => Successor(Own(p)) - 1 \in Own(p)
  BY <1>3, SuccessorIsNext
<1>5. n \in Nat \ {0}
  <2>1. IsFiniteSet(Own(p))
    <3>1. IsFiniteSet(1..MaxNumber)
      BY FS_Interval, FolioAssumption
    <3> HIDE DEF s, n
    <3> QED  BY <1>3, <3>1, FS_Subset
  <2>2. IsFiniteSet({e \in rows : e.tenant = doc[p].tenant /\ e.series \in {"MOV", "MOV_YEAR"}})
    BY FS_Subset DEF IInv, Typed
  <2> QED
    BY <1>4, <2>1, <2>2, FS_CardinalityType DEF NextNumber, Own
<1>6. s \in LockedSeries => n = Successor(Own(p))
  BY DEF NextNumber, LockedSeries, CountedSeries, Own
<1> HIDE DEF n
<1>7. /\ doc'[p].series = s /\ doc'[p].tenant = doc[p].tenant /\ doc'[p].n = n
      /\ \A q \in Procs \ {p} : doc'[q] = doc[q] /\ pc'[q] = pc[q]
      /\ doc' \in [Procs -> Record]
  BY <1>1, <1>5 DEF IInv, Typed, Record
<1>8. n \in 1..MaxNumber
  BY <1>1, <1>5, FolioAssumption
<1>9. Typed'
  BY <1>1, <1>2, <1>7, <1>8 DEF IInv, Typed
<1>10. InHand(p)' => lock'[doc'[p].series] = p
  BY <1>1, <1>7 DEF IInv, Holds, InHand
<1>11. Own(p)' = Own(p)
  BY <1>1, <1>7 DEF Own, Numbers
<1>12. ASSUME s \in LockedSeries \ Removable PROVE Own(p) = 1..(n - 1)
  <2>1. PICK k \in 0..MaxNumber : Own(p) = 1..k
    BY <1>2, <1>12 DEF IInv, Gapless, Own
  <2>2. k = 0 => Own(p) = {}
    BY <2>1
  <2>3. k > 0 => k \in Own(p) /\ Own(p) # {}
    <3>1. k \in Nat /\ (k > 0 => k \in 1..k)
      BY FolioAssumption
    <3> HIDE DEF s, n
    <3> QED  BY <2>1, <3>1
  <2>4. Own(p) # {} => n = k + 1
    BY <1>4, <1>5, <1>6, <1>12, <2>1, <2>3
  <2>5. Own(p) = {} => n = 1
    BY <1>6, <1>12 DEF Successor
  <2>6. k = 0 \/ k > 0
    BY <2>1
  <2>7. n = k + 1
    BY <2>2, <2>3, <2>4, <2>5, <2>6
  <2> QED  BY <2>1, <2>7
<1>13. Fits(p)'
  BY <1>4, <1>6, <1>7, <1>11, <1>12 DEF Fits
<1> QED
  BY <1>1, <1>7, <1>9, <1>10, <1>13, Frame

LEMMA InsertStep == ASSUME IInv, NEW p \in Procs, Insert(p) PROVE IInv'
<1>1. /\ pc[p] = "insert" /\ pc' = [pc EXCEPT ![p] = "commit"]
      /\ rows' = rows /\ lock' = lock /\ doc' = doc
  BY DEF Insert
<1>2. Typed'
  BY <1>1 DEF IInv, Typed
<1>3. InHand(p)' => lock'[doc'[p].series] = p
  BY <1>1 DEF IInv, Typed, Holds, InHand
<1>4. Fits(p)'
  BY <1>1 DEF IInv, Typed, Fits, Own, Numbers
<1> QED
  BY <1>1, <1>2, <1>3, <1>4, Frame DEF IInv, Typed

\* What an end leaves, but for the rows.
LEMMA EndFacts ==
    ASSUME Typed, NEW p \in Procs, End(p)
    PROVE  /\ lock' \in [LockedSeries -> Procs \cup {NULL}]
           /\ pc' \in [Procs -> {"idle", "lock", "read", "insert", "commit"}]
           /\ pc'[p] = "idle"
           /\ doc' \in [Procs -> Record]
           /\ \A q \in Procs \ {p} : pc'[q] = pc[q] /\ doc'[q] = doc[q]
           /\ \A s \in LockedSeries : lock[s] \in Procs \ {p} => lock'[s] = lock[s]
  BY DEF Typed, End, NoDocument, Record

\* A transaction that fails leaves what there was.
LEMMA FailStep == ASSUME IInv, NEW p \in Procs, Conflict(p) \/ Rollback(p) PROVE IInv'
<1>1. End(p) /\ rows' = rows
  BY DEF Conflict, Rollback
<1>2. Typed'
  BY <1>1, EndFacts DEF IInv, Typed
<1>3. ~InHand(p)' /\ Fits(p)'
  BY <1>1, EndFacts DEF IInv, InHand, Fits
<1> QED
  BY <1>1, <1>2, <1>3, EndFacts, Frame DEF IInv

LEMMA CommitStep == ASSUME IInv, NEW p \in Procs, Commit(p) PROVE IInv'
<1> DEFINE d == doc[p]
<1>1. pc[p] = "commit" /\ rows' = rows \cup {d} /\ End(p)
  BY DEF Commit
<1>2. /\ d \in Record /\ d.series \in AllSeries /\ d.tenant \in Tenants /\ d.n \in 1..MaxNumber
  BY <1>1 DEF IInv, Typed
<1>3. d \in [series: AllSeries, tenant: Tenants, n: 1..MaxNumber]
  BY <1>2 DEF Record
<1>4. Typed'
  BY <1>1, <1>3, EndFacts, FS_AddElement DEF IInv, Typed
<1>5. Holds'
  BY <1>1, EndFacts DEF IInv, Holds, InHand
<1>6. \A s, t : Numbers(s, t)' = IF s = d.series /\ t = d.tenant
                                THEN Numbers(s, t) \cup {d.n} ELSE Numbers(s, t)
  BY <1>1 DEF Numbers
<1>7. \A q \in Procs : Fits(q)'
  <2> SUFFICES ASSUME NEW q \in Procs, pc'[q] \in {"insert", "commit"}, doc'[q].series \in LockedSeries
               PROVE  Fits(q)'
    BY DEF Fits
  <2>1. q # p /\ pc[q] = pc'[q] /\ doc[q] = doc'[q]
    BY <1>1, EndFacts DEF IInv
  <2>2. doc[q].series # d.series
    BY <1>1, <2>1 DEF IInv, Holds, InHand
  <2>3. Own(q)' = Own(q)
    BY <1>6, <2>1, <2>2 DEF Own
  <2> QED
    BY <2>1, <2>3 DEF IInv, Fits
<1>8. Gapless'
  <2> SUFFICES ASSUME NEW s \in LockedSeries \ Removable, NEW t \in Tenants
               PROVE  \E k \in 0..MaxNumber : Numbers(s, t)' = 1..k
    BY DEF Gapless
  <2>1. CASE s = d.series /\ t = d.tenant
    <3>1. Numbers(s, t) = 1..(d.n - 1)
      BY <1>1, <2>1 DEF IInv, Fits, Own
    <3>2. PICK k \in Nat \ {0} : k = d.n
      BY <1>2, FolioAssumption
    <3>3. (1..(k - 1)) \cup {k} = 1..k
      OBVIOUS
    <3>4. Numbers(s, t)' = 1..k
      BY <1>6, <2>1, <3>1, <3>2, <3>3
    <3> QED
      BY <1>2, <3>2, <3>4
  <2>2. CASE ~(s = d.series /\ t = d.tenant)
    BY <1>6, <2>2 DEF IInv, Gapless
  <2> QED
    BY <2>1, <2>2
<1> QED
  BY <1>4, <1>5, <1>7, <1>8 DEF IInv

LEMMA RemoveStep == ASSUME IInv, NEW d \in rows, Remove(d) PROVE IInv'
<1>1. d.series \in Removable /\ rows' = rows \ {d} /\ lock' = lock /\ pc' = pc /\ doc' = doc
  BY DEF Remove
<1>2. Typed'
  BY <1>1, FS_RemoveElement DEF IInv, Typed
<1>3. Holds'
  BY <1>1 DEF IInv, Holds, InHand
<1>4. \A s, t : Numbers(s, t)' \subseteq Numbers(s, t)
  BY <1>1 DEF Numbers
<1>5. \A s, t : s \notin Removable => Numbers(s, t)' = Numbers(s, t)
  BY <1>1 DEF Numbers
<1>6. \A q \in Procs : Fits(q)'
  BY <1>1, <1>4, <1>5 DEF IInv, Fits, Own
<1>7. Gapless'
  BY <1>5 DEF IInv, Gapless
<1> QED
  BY <1>2, <1>3, <1>6, <1>7 DEF IInv

LEMMA NextIInv == ASSUME MaxNumber < Padded PROVE IInv /\ [Next]_vars => IInv'
<1> SUFFICES ASSUME IInv, [Next]_vars PROVE IInv'
  OBVIOUS
<1>1. CASE UNCHANGED vars
  BY <1>1 DEF vars, IInv, Typed, Holds, InHand, Fits, Own, Gapless, Numbers
<1>2. CASE Next
  BY <1>2, BeginStep, LockStep, ReadStep, InsertStep, CommitStep, FailStep, RemoveStep DEF Next, Step
<1> QED
  BY <1>1, <1>2

-----------------------------------------------------------------------------
\* Under the advisory lock no two creations of a tenant are about to insert one
\* number, and none the tenant has, however many creations, tenants and removals
\* there are: findFirst orders strings, and below the padding that is the order of
\* numbers.
THEOREM OwnNumberSafety ==
    ASSUME MaxNumber < Padded
    PROVE  Spec => []LockedFolioIsOwn
<1>1. IInv => LockedFolioIsOwn
  <2> SUFFICES ASSUME IInv, NEW p \in Procs, pc[p] = "insert", doc[p].series \in LockedSeries
               PROVE  /\ doc[p].n \notin Numbers(doc[p].series, doc[p].tenant)
                      /\ \A q \in Procs \ {p} : pc[q] \in {"insert", "commit"} => doc[q] # doc[p]
    BY DEF LockedFolioIsOwn
  <2>1. lock[doc[p].series] = p
    BY DEF IInv, Holds, InHand
  <2> QED
    BY <2>1 DEF IInv, Fits, Own, Holds, InHand
<1> QED
  BY <1>1, InitIInv, NextIInv, PTL DEF Spec

\* In a locked series whose documents are never deleted a tenant's numbers are the
\* first ones, through every failure and every other tenant's creations.
THEOREM NoGapSafety ==
    ASSUME MaxNumber < Padded
    PROVE  Spec => []LockedFoliosHaveNoGap
<1>1. IInv => LockedFoliosHaveNoGap
  <2> SUFFICES ASSUME IInv, NEW s \in LockedSeries \ Removable, NEW t \in Tenants
               PROVE  Numbers(s, t) = 1..Cardinality(Numbers(s, t))
    BY DEF LockedFoliosHaveNoGap
  <2>1. PICK k \in 0..MaxNumber : Numbers(s, t) = 1..k
    BY DEF IInv, Gapless
  <2>2. Cardinality(1..k) = k
    BY FS_Interval
  <2> QED
    BY <2>1, <2>2
<1> QED
  BY <1>1, InitIInv, NextIInv, PTL DEF Spec
=============================================================================
