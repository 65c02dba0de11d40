--------------------- MODULE ProvisioningAndDigest_proofs ---------------------
(***************************************************************************)
(* What the creations and removals of companies leave of their people, for *)
(* any companies, addresses and requests served at once, each statement of *)
(* which stands alone (module Provisioning); and that a company gets the   *)
(* digest of a day again only when something excused it, for any companies,*)
(* sweeps under way at once, days, crashes and changes of the rules        *)
(* (module Digest).                                                        *)
(***************************************************************************)
EXTENDS Provisioning, Digest, TLAPS

Steps == {"idle", "slug", "tenant", "user", "register", "reset", "metrics", "remove", "detach"}
CallRow == [pc : Steps, id : Nat, of : Slugs \cup Nat \cup {NULL}, email : Emails \cup {NULL},
            super : BOOLEAN, seen : SUBSET Nat, caller : Nat, target : Nat]
AccountRow == [id : Nat, email : Emails \cup {NULL}, tenant : Nat, of : Nat, active : BOOLEAN,
               super : BOOLEAN, acted : BOOLEAN]

Typed ==
    /\ tenant \in [Slugs -> Nat]
    /\ accounts \subseteq AccountRow
    /\ call \in [Calls -> CallRow]
    /\ begun \in Nat

Busy(c) == call[c].pc # "idle"

\* The id a request gives is its own, and nobody has seen it yet.
Fresh(c) ==
    /\ call[c].id \in 2..(begun + 1)
    /\ \A u \in accounts : u.id # call[c].id
    /\ \A q \in Calls : call[c].id \notin call[q].seen
    /\ \A q \in Calls \ {c} : Busy(q) => call[q].id # call[c].id

Numbered ==
    /\ \A u \in accounts : u.id \in 1..(begun + 1)
    /\ \A u, v \in accounts : u.id = v.id => u = v
    /\ \A c \in Calls : call[c].seen \subseteq 1..(begun + 1)
    /\ \A c \in Calls : Busy(c) => Fresh(c)

\* An account is in the company it last belonged to, which exists, or in none; the
\* active ones in none, and those in a company that were late, have their excuse.
Fine(u) ==
    /\ u.tenant \in {None, u.of}
    /\ u.tenant # None => Exists(u.tenant)
    /\ u.of # None /\ u.tenant = None /\ u.active /\ ~u.super => u.id \in late \/ u.of \in misled
    /\ u.id \in late /\ u.tenant # None => u.tenant \in shaken \cup condemned

\* What a removal knows of the accounts it found, and of those it did not.
Removal(c) ==
    /\ call[c].pc \in {"metrics", "remove", "detach"} =>
          /\ call[c].of \in condemned
          /\ call[c].caller # None => call[c].of \in misled
    /\ call[c].pc = "detach" => call[c].target \in call[c].seen
    /\ call[c].pc \in {"remove", "detach"} /\ call[c].caller = None =>
          \A u \in accounts :
             /\ u.id \in call[c].seen => u.of = call[c].of \/ u.id \in late
             /\ u.of = call[c].of /\ u.active /\ ~u.super
                   => u.id \in call[c].seen \/ u.id \in late \/ u.of \in misled

\* The inductive invariant.
IInv ==
    /\ Typed
    /\ Numbered
    /\ \A u \in accounts : Fine(u)
    /\ \A c \in Calls : Removal(c)
    /\ None \notin condemned \cup served
    /\ ServedCompanyHasPeople
    /\ RemovesOnlyItsUsers

-----------------------------------------------------------------------------
(* What steps leave alone *)

LEMMA InitIInv == Init => IInv
<1> SUFFICES ASSUME Init PROVE IInv
  OBVIOUS
<1>1. PICK e \in Emails : accounts = {Account(Root, e, Root, FALSE)}
  BY DEF Init
<1>2. Typed
  BY <1>1 DEF Init, Typed, NoCall, CallRow, Account, AccountRow, Steps, None, Root
<1>3. Numbered
  BY <1>1 DEF Init, Numbered, Busy, NoCall, Account, Root
<1>4. \A u \in accounts : Fine(u)
  BY <1>1 DEF Init, Fine, Account, Root, None, Exists
<1>5. (\A c \in Calls : Removal(c)) /\ None \notin condemned \cup served /\
        ServedCompanyHasPeople /\ RemovesOnlyItsUsers
  BY DEF Init, Removal, NoCall, ServedCompanyHasPeople, RemovesOnlyItsUsers
<1> QED
  BY <1>2, <1>3, <1>4, <1>5 DEF IInv

\* A request that goes on, or ends, while the accounts keep their ids or go.
LEMMA KeepNumbers ==
    ASSUME IInv, NEW c \in Calls, begun' = begun,
           \A q \in Calls \ {c} : call'[q] = call[q],
           call'[c].pc # "idle" => call[c].pc # "idle" /\ call'[c].id = call[c].id,
           \A i \in call'[c].seen : i \in call[c].seen \/ \E u \in accounts : u.id = i,
           \A u \in accounts' : \E v \in accounts : u.id = v.id,
           \A u, v \in accounts' : u.id = v.id => u = v
    PROVE  Numbered'
<1>1. \A u \in accounts' : u.id \in 1..(begun' + 1)
  BY DEF IInv, Numbered
<1>2. \A q \in Calls : \A i \in call'[q].seen : i \in call[q].seen \/ \E u \in accounts : u.id = i
  OBVIOUS
<1>3. \A q \in Calls : call'[q].seen \subseteq 1..(begun' + 1)
  BY <1>2 DEF IInv, Numbered
<1>4. ASSUME NEW q \in Calls, Busy(q)' PROVE Fresh(q)'
  <2>1. Busy(q) /\ call'[q].id = call[q].id
    BY <1>4 DEF Busy
  <2>2. Fresh(q)
    BY <2>1 DEF IInv, Numbered
  <2>3. \A r \in Calls : call'[q].id \notin call'[r].seen
    BY <1>2, <2>1, <2>2 DEF Fresh
  <2>4. \A r \in Calls \ {q} : Busy(r)' => call'[r].id # call'[q].id
    BY <2>1, <2>2 DEF Fresh, Busy
  <2> QED
    BY <2>1, <2>2, <2>3, <2>4 DEF Fresh
<1> QED
  BY <1>1, <1>3, <1>4 DEF Numbered

\* A request that begins takes an id of its own.
LEMMA BeginNumbers ==
    ASSUME IInv, NEW c \in Calls, accounts' = accounts, begun' = begun + 1,
           \A q \in Calls \ {c} : call'[q] = call[q],
           call'[c].id = begun + 2,
           \A i \in call'[c].seen : \E u \in accounts : u.id = i
    PROVE  Numbered'
<1>1. begun \in Nat
  BY DEF IInv, Typed
<1>2. \A q \in Calls : \A i \in call'[q].seen : i \in call[q].seen \/ \E u \in accounts : u.id = i
  OBVIOUS
<1>3. \A q \in Calls : call'[q].seen \subseteq 1..(begun + 1)
  BY <1>2 DEF IInv, Numbered
<1>4. \A u \in accounts : u.id \in 1..(begun + 1)
  BY DEF IInv, Numbered
<1>5. ASSUME NEW q \in Calls \ {c}, Busy(q)' PROVE Fresh(q)'
  <2>1. Busy(q) /\ call'[q].id = call[q].id
    BY <1>5 DEF Busy
  <2>2. Fresh(q)
    BY <2>1 DEF IInv, Numbered
  <2>3. \A r \in Calls : call'[q].id \notin call'[r].seen
    BY <1>2, <2>1, <2>2 DEF Fresh
  <2>4. call'[q].id \in 2..(begun + 1) /\ call'[q].id # call'[c].id
    BY <1>1, <2>1, <2>2 DEF Fresh
  <2> QED
    BY <1>1, <2>1, <2>2, <2>3, <2>4 DEF Fresh, Busy
<1>6. Fresh(c)'
  <2>1. \A q \in Calls \ {c} : Busy(q)' => call'[q].id \in 2..(begun + 1)
    BY DEF IInv, Numbered, Fresh, Busy
  <2> QED
    BY <1>1, <1>3, <1>4, <2>1 DEF Fresh
<1>7. \A u \in accounts' : u.id \in 1..(begun' + 1)
  BY <1>1, <1>4
<1>8. \A q \in Calls : call'[q].seen \subseteq 1..(begun' + 1)
  BY <1>1, <1>3
<1>9. \A u, v \in accounts' : u.id = v.id => u = v
  BY DEF IInv, Numbered
<1> QED
  BY <1>5, <1>6, <1>7, <1>8, <1>9 DEF Numbered

\* A request that ends with a new account, of its id.
LEMMA NewNumbers ==
    ASSUME IInv, NEW c \in Calls, Busy(c), NEW u, u.id = call[c].id,
           accounts' = accounts \cup {u}, begun' = begun,
           \A q \in Calls \ {c} : call'[q] = call[q],
           call'[c].pc = "idle", call'[c].seen = {}
    PROVE  Numbered'
<1>1. Fresh(c) /\ begun \in Nat
  BY DEF IInv, Typed, Numbered
<1>2. \A v \in accounts' : v.id \in 1..(begun' + 1)
  BY <1>1 DEF IInv, Numbered, Fresh
<1>3. \A v, w \in accounts' : v.id = w.id => v = w
  BY <1>1 DEF IInv, Numbered, Fresh
<1>4. \A q \in Calls : call'[q].seen \subseteq 1..(begun' + 1)
  BY DEF IInv, Numbered
<1>5. ASSUME NEW q \in Calls, Busy(q)' PROVE Fresh(q)'
  <2>1. q # c /\ Busy(q) /\ call'[q] = call[q]
    BY <1>5 DEF Busy
  <2>2. Fresh(q)
    BY <2>1 DEF IInv, Numbered
  <2>3. call[q].id # u.id
    BY <1>1, <2>1 DEF Fresh
  <2> QED
    BY <2>1, <2>2, <2>3 DEF Fresh, Busy
<1> QED
  BY <1>2, <1>3, <1>4, <1>5 DEF Numbered

\* A step of one request that touches no account.
LEMMA QuietStep ==
    ASSUME IInv, Typed', Numbered', NEW c \in Calls, accounts' = accounts,
           \A q \in Calls \ {c} : call'[q] = call[q], Removal(c)',
           \A t \in Nat : Exists(t) => Exists(t)',
           UNCHANGED <<served, shaken, late, lost>>,
           condemned \subseteq condemned', None \notin condemned', misled \subseteq misled'
    PROVE  IInv'
<1>1. ASSUME NEW u \in accounts' PROVE Fine(u)'
  <2>1. u \in accounts /\ u.tenant \in Nat
    BY DEF IInv, Typed, AccountRow
  <2> QED
    BY <2>1 DEF IInv, Fine
<1>2. \A q \in Calls \ {c} : Removal(q)'
  BY DEF IInv, Removal
<1>3. ServedCompanyHasPeople' /\ RemovesOnlyItsUsers'
  BY DEF IInv, ServedCompanyHasPeople, RemovesOnlyItsUsers, Members
<1> QED
  BY <1>1, <1>2, <1>3 DEF IInv

-----------------------------------------------------------------------------
(* Steps that touch no account *)

LEMMA EndFacts ==
    ASSUME Typed, NEW c \in Calls, End(c)
    PROVE  /\ call' \in [Calls -> CallRow] /\ call'[c] = NoCall
           /\ \A q \in Calls \ {c} : call'[q] = call[q]
           /\ call'[c].pc = "idle" /\ call'[c].seen = {} /\ Removal(c)'
<1>1. NoCall \in CallRow
  BY DEF NoCall, CallRow, Steps, None
<1>2. call' \in [Calls -> CallRow] /\ call'[c] = NoCall /\ \A q \in Calls \ {c} : call'[q] = call[q]
  BY <1>1 DEF End, Typed
<1> QED
  BY <1>2 DEF NoCall, Removal

LEMMA GoToFacts ==
    ASSUME Typed, NEW c \in Calls, NEW pc \in Steps, NEW seen \in SUBSET Nat, GoTo(c, pc, seen)
    PROVE  /\ call' \in [Calls -> CallRow]
           /\ call'[c].pc = pc /\ call'[c].seen = seen
           /\ call'[c].id = call[c].id /\ call'[c].of = call[c].of
           /\ call'[c].caller = call[c].caller /\ call'[c].target = call[c].target
           /\ \A q \in Calls \ {c} : call'[q] = call[q]
<1> DEFINE row == [call[c] EXCEPT !.pc = pc, !.seen = seen]
<1>1. row \in CallRow
  BY DEF Typed, CallRow
<1>2. call' = [call EXCEPT ![c] = row]
  BY DEF GoTo, Typed, CallRow
<1>3. /\ row.pc = pc /\ row.seen = seen /\ row.id = call[c].id /\ row.of = call[c].of
      /\ row.caller = call[c].caller /\ row.target = call[c].target
  BY DEF Typed, CallRow
<1> HIDE DEF row
<1>4. call' \in [Calls -> CallRow] /\ call'[c] = row /\ \A q \in Calls \ {c} : call'[q] = call[q]
  BY <1>1, <1>2 DEF Typed
<1> QED
  BY <1>3, <1>4

LEMMA BeginFacts ==
    ASSUME Typed, NEW c \in Calls, NEW r \in CallRow, Begin(c, r)
    PROVE  /\ call' \in [Calls -> CallRow]
           /\ call'[c].pc = r.pc /\ call'[c].seen = r.seen /\ call'[c].id = begun + 2
           /\ call'[c].of = r.of /\ call'[c].caller = r.caller
           /\ \A q \in Calls \ {c} : call'[q] = call[q]
           /\ begun' = begun + 1 /\ begun' \in Nat
<1> DEFINE row == [r EXCEPT !.id = begun + 2]
<1>1. row \in CallRow /\ begun \in Nat
  BY DEF Typed, CallRow
<1>2. /\ row.pc = r.pc /\ row.seen = r.seen /\ row.id = begun + 2 /\ row.of = r.of
      /\ row.caller = r.caller
  BY DEF CallRow
<1>3. call' = [call EXCEPT ![c] = row] /\ begun' = begun + 1
  BY DEF Begin
<1> HIDE DEF row
<1>4. call' \in [Calls -> CallRow] /\ call'[c] = row /\ \A q \in Calls \ {c} : call'[q] = call[q]
  BY <1>1, <1>3 DEF Typed
<1> QED
  BY <1>1, <1>2, <1>3, <1>4

\* A new request knows nothing but a company to remove, which it condemns.
LEMMA BeginStep ==
    ASSUME IInv, NEW c \in Calls,
           BeginCreate(c) \/ BeginRegister(c) \/ BeginReset(c) \/ BeginRemove(c)
    PROVE  IInv'
<1>1. PICK r \in CallRow :
         /\ Begin(c, r)
         /\ r.pc \in {"slug", "register", "reset", "metrics"}
         /\ \A i \in r.seen : \E u \in accounts : u.id = i
         /\ r.pc = "metrics" => r.of \in condemned' /\ (r.caller # None => r.of \in misled')
  <2>1. CASE BeginCreate(c)
    <3>1. PICK s \in Slugs, e \in Emails \cup {NULL} :
             Begin(c, [NoCall EXCEPT !.pc = "slug", !.of = s, !.email = e])
      BY <2>1 DEF BeginCreate
    <3> DEFINE r == [NoCall EXCEPT !.pc = "slug", !.of = s, !.email = e]
    <3>2. r \in CallRow /\ r.pc = "slug" /\ r.seen = {}
      BY DEF NoCall, CallRow, Steps, None
    <3> QED
      BY <3>1, <3>2
  <2>2. CASE BeginRegister(c)
    <3>1. PICK e \in Emails, super \in BOOLEAN :
             Begin(c, [NoCall EXCEPT !.pc = "register", !.email = e, !.super = super])
      BY <2>2 DEF BeginRegister
    <3> DEFINE r == [NoCall EXCEPT !.pc = "register", !.email = e, !.super = super]
    <3>2. r \in CallRow /\ r.pc = "register" /\ r.seen = {}
      BY DEF NoCall, CallRow, Steps, None
    <3> QED
      BY <3>1, <3>2
  <2>3. CASE BeginReset(c)
    <3>1. PICK u \in accounts : Begin(c, [NoCall EXCEPT !.pc = "reset", !.seen = {u.id}])
      BY <2>3 DEF BeginReset, Members
    <3> DEFINE r == [NoCall EXCEPT !.pc = "reset", !.seen = {u.id}]
    <3>2. u.id \in Nat
      BY DEF IInv, Typed, AccountRow
    <3>3. r \in CallRow /\ r.pc = "reset" /\ r.seen = {u.id}
      BY <3>2 DEF NoCall, CallRow, Steps, None
    <3> QED
      BY <3>1, <3>3
  <2>4. CASE BeginRemove(c)
    <3>1. PICK t \in Live, caller \in CallerTenants :
             /\ Begin(c, [NoCall EXCEPT !.pc = "metrics", !.of = t, !.caller = caller])
             /\ condemned' = condemned \cup {t}
             /\ misled' = IF caller = None THEN misled ELSE misled \cup {t}
      BY <2>4 DEF BeginRemove
    <3> DEFINE r == [NoCall EXCEPT !.pc = "metrics", !.of = t, !.caller = caller]
    <3>2. t \in Nat /\ caller \in Nat
      <4>1. t \in Nat
        BY DEF Live, IInv, Typed
      <4>2. caller \in Nat
        BY CallerTenantsAssumption DEF CallerTenantsAssumption, None, Root
      <4> QED  BY <4>1, <4>2
    <3>3. /\ r \in CallRow /\ r.pc = "metrics" /\ r.seen = {} /\ r.of = t /\ r.caller = caller
      BY <3>2 DEF NoCall, CallRow, Steps, None
    <3>4. t \in condemned' /\ (caller # None => t \in misled')
      BY <3>1
    <3>5. Begin(c, r)
      BY <3>1
    <3> HIDE DEF r
    <3> QED
      BY <3>3, <3>4, <3>5
  <2> QED
    BY <2>1, <2>2, <2>3, <2>4
<1>2. /\ tenant' = tenant /\ accounts' = accounts
      /\ served' = served /\ shaken' = shaken /\ late' = late /\ lost' = lost
      /\ condemned \subseteq condemned' /\ misled \subseteq misled'
  BY DEF BeginCreate, BeginRegister, BeginReset, BeginRemove, history
<1>8. None \notin condemned'
  BY DEF BeginCreate, BeginRegister, BeginReset, BeginRemove, history, Live, IInv
<1>3. /\ call' \in [Calls -> CallRow]
      /\ call'[c].pc = r.pc /\ call'[c].seen = r.seen /\ call'[c].id = begun + 2
      /\ call'[c].of = r.of /\ call'[c].caller = r.caller
      /\ \A q \in Calls \ {c} : call'[q] = call[q]
      /\ begun' = begun + 1 /\ begun' \in Nat
  BY <1>1, BeginFacts DEF IInv
<1>4. Typed'
  BY <1>2, <1>3 DEF IInv, Typed
<1>5. Numbered'
  BY <1>1, <1>2, <1>3, BeginNumbers
<1>6. Removal(c)'
  BY <1>1, <1>3 DEF Removal
<1>7. \A t \in Nat : Exists(t) => Exists(t)'
  BY <1>2 DEF Exists, Live
<1> QED
  BY <1>2, <1>3, <1>4, <1>5, <1>6, <1>7, <1>8, QuietStep

\* The statements that read, create a company, or stop half way.
LEMMA ReadStep ==
    ASSUME IInv, NEW c \in Calls, InsertTenant(c) \/ FindUser(c) \/ ListUsers(c) \/ Fail(c)
    PROVE  IInv'
<1>1. /\ accounts' = accounts /\ begun' = begun
      /\ served' = served /\ shaken' = shaken /\ late' = late /\ lost' = lost
      /\ condemned' = condemned /\ misled' = misled
  BY DEF InsertTenant, FindUser, ListUsers, Fail, history
<1>2. tenant' \in [Slugs -> Nat] /\ \A t \in Nat : Exists(t) => Exists(t)'
  <2>1. CASE InsertTenant(c)
    <3>1. tenant[call[c].of] = None /\ tenant' = [tenant EXCEPT ![call[c].of] = call[c].id]
      BY <2>1 DEF InsertTenant
    <3>2. call[c].id \in Nat
      BY DEF IInv, Typed, CallRow
    <3> QED
      BY <3>1, <3>2 DEF IInv, Typed, Exists, Live
  <2>2. CASE ~InsertTenant(c)
    <3>1. tenant' = tenant
      BY <2>2 DEF FindUser, ListUsers, Fail
    <3> QED
      BY <3>1 DEF IInv, Typed, Exists, Live
  <2> QED
    BY <2>1, <2>2
<1>3. /\ call' \in [Calls -> CallRow] /\ \A q \in Calls \ {c} : call'[q] = call[q]
      /\ call'[c].pc # "idle" => call[c].pc # "idle" /\ call'[c].id = call[c].id
      /\ \A i \in call'[c].seen : i \in call[c].seen \/ \E u \in accounts : u.id = i
      /\ Removal(c)'
  <2>1. CASE End(c)
    BY <2>1, EndFacts DEF IInv
  <2>2. CASE ~End(c) /\ InsertTenant(c)
    <3>1. GoTo(c, "tenant", {}) /\ call[c].pc = "slug"
      BY <2>2 DEF InsertTenant, At
    <3>2. call' \in [Calls -> CallRow] /\ call'[c].pc = "tenant" /\ call'[c].seen = {}
          /\ call'[c].id = call[c].id /\ \A q \in Calls \ {c} : call'[q] = call[q]
      BY <3>1, GoToFacts DEF IInv, Steps
    <3> QED
      BY <3>1, <3>2 DEF Removal
  <2>3. CASE FindUser(c)
    <3> DEFINE found == {u.id : u \in WithEmail(call[c].email)}
    <3>1. GoTo(c, "user", found) /\ call[c].pc = "tenant"
      BY <2>3 DEF FindUser, At
    <3>2. found \in SUBSET Nat /\ \A i \in found : \E u \in accounts : u.id = i
      BY DEF WithEmail, IInv, Typed, AccountRow
    <3> HIDE DEF found
    <3>3. call' \in [Calls -> CallRow] /\ call'[c].pc = "user" /\ call'[c].seen = found
          /\ call'[c].id = call[c].id /\ \A q \in Calls \ {c} : call'[q] = call[q]
      BY <3>1, <3>2, GoToFacts DEF IInv, Steps
    <3> QED
      BY <3>1, <3>2, <3>3 DEF Removal
  <2>4. CASE ListUsers(c)
    <3> DEFINE t == IF call[c].caller = None THEN call[c].of ELSE call[c].caller
               found == {u.id : u \in {v \in Members(t) : ~v.super}}
    <3>1. GoTo(c, "remove", found) /\ call[c].pc = "metrics"
      BY <2>4 DEF ListUsers, At
    <3>2. found \in SUBSET Nat /\ \A i \in found : \E u \in accounts : u.id = i
      BY DEF Members, IInv, Typed, AccountRow
    <3>3. call' \in [Calls -> CallRow] /\ call'[c].pc = "remove" /\ call'[c].seen = found
          /\ call'[c].id = call[c].id /\ call'[c].of = call[c].of
          /\ call'[c].caller = call[c].caller /\ \A q \in Calls \ {c} : call'[q] = call[q]
      <4> HIDE DEF found
      <4> QED  BY <3>1, <3>2, GoToFacts DEF IInv, Steps
    <3>4. ASSUME call[c].caller = None, NEW u \in accounts
          PROVE  /\ u.id \in found => u.of = call[c].of \/ u.id \in late
                 /\ u.of = call[c].of /\ u.active /\ ~u.super
                       => u.id \in found \/ u.id \in late \/ u.of \in misled
      <4>1. Fine(u)
        BY DEF IInv
      <4>2. u.id \in found => u.tenant = call[c].of
        BY <3>4 DEF Members, IInv, Numbered
      <4>3. u.tenant = call[c].of /\ ~u.super => u.id \in found
        BY <3>4 DEF Members
      <4>4. u.of \in Nat /\ u.tenant \in Nat
        BY DEF IInv, Typed, AccountRow
      <4>5. call[c].of \in condemned /\ call[c].of # None
        BY <3>1 DEF IInv, Removal
      <4> HIDE DEF found
      <4> QED
        BY <4>1, <4>2, <4>3, <4>4, <4>5 DEF Fine
    <3> HIDE DEF found
    <3> QED
      BY <1>1, <3>1, <3>2, <3>3, <3>4 DEF IInv, Removal
  <2> QED
    BY <2>1, <2>2, <2>3, <2>4 DEF InsertTenant, Fail
<1>4. Typed'
  BY <1>1, <1>2, <1>3 DEF IInv, Typed
<1>5. \A u, v \in accounts : u.id = v.id => u = v
  BY DEF IInv, Numbered
<1>6. Numbered'
  BY <1>1, <1>3, <1>5, KeepNumbers
<1> QED
  BY <1>1, <1>2, <1>3, <1>4, <1>6, QuietStep DEF IInv

-----------------------------------------------------------------------------
(* Steps that rewrite an account *)

\* An account that stays where it is, written again by SetActive, Reset or Act: it
\* is no less excused than before.
LEMMA RewriteStep ==
    ASSUME IInv, Typed', Numbered', NEW u \in accounts, NEW v,
           accounts' = (accounts \ {u}) \cup {v},
           v.id = u.id /\ v.tenant = u.tenant /\ v.of = u.of /\ v.super = u.super,
           late' \in {late, late \cup {u.id}},
           late' # late => {u.of} \cap condemned # {} \/ u.tenant # u.of,
           v.active => u.active \/ u.id \in late' \/ (u.tenant = u.of /\ u.of \notin condemned),
           UNCHANGED <<tenant, served, condemned, shaken, misled, lost>>,
           \A c \in Calls : call'[c] \in {call[c], NoCall}
    PROVE  IInv'
<1>1. \A w \in accounts : w.id = u.id => w = u
  BY DEF IInv, Numbered
<1>2. ASSUME NEW w \in accounts' PROVE Fine(w)'
  <2>1. CASE w \in accounts \ {u}
    <3>1. w.id \in late' => w.id \in late
      BY <1>1, <2>1
    <3>2. Fine(w) /\ late \subseteq late'
      BY <2>1 DEF IInv
    <3> QED
      BY <3>1, <3>2 DEF Fine, Exists, Live
  <2>2. CASE w = v
    <3>1. Fine(u) /\ late \subseteq late'
      BY DEF IInv
    <3>2. (Exists(v.tenant))' = Exists(u.tenant)
      BY DEF Exists, Live
    <3> QED
      BY <2>2, <3>1, <3>2 DEF Fine
  <2> QED
    BY <2>1, <2>2
<1>3. ASSUME NEW c \in Calls PROVE Removal(c)'
  <2>1. Removal(c) /\ call'[c] \in {call[c], NoCall}
    BY DEF IInv
  <2>2. CASE call'[c] = NoCall
    BY <2>2 DEF Removal, NoCall
  <2>3. CASE call'[c] = call[c]
    <3> SUFFICES ASSUME call[c].pc \in {"remove", "detach"}, call[c].caller = None,
                        NEW w \in accounts'
                 PROVE  /\ w.id \in call[c].seen => w.of = call[c].of \/ w.id \in late'
                        /\ w.of = call[c].of /\ w.active /\ ~w.super
                              => w.id \in call[c].seen \/ w.id \in late' \/ w.of \in misled
      BY <2>1, <2>3 DEF Removal
    <3>1. call[c].of \in condemned
      BY <2>1 DEF Removal
    <3>2. CASE w \in accounts
      BY <2>1, <3>2 DEF Removal
    <3>3. CASE w = v
      BY <2>1, <3>1, <3>3 DEF Removal
    <3> QED
      BY <3>2, <3>3
  <2> QED
    BY <2>1, <2>2, <2>3
<1>4. ServedCompanyHasPeople'
  <2> SUFFICES ASSUME NEW t \in served \ (condemned \cup shaken)
               PROVE  \E w \in accounts' : w.tenant = t
    BY DEF ServedCompanyHasPeople, Members
  <2>1. PICK w \in accounts : w.tenant = t
    BY DEF IInv, ServedCompanyHasPeople, Members
  <2> QED
    BY <2>1
<1>5. RemovesOnlyItsUsers' /\ None \notin (condemned \cup served)'
  BY DEF IInv, RemovesOnlyItsUsers
<1> QED
  BY <1>2, <1>3, <1>4, <1>5 DEF IInv

LEMMA SetStep ==
    ASSUME IInv, (\E c \in Calls : Reset(c)) \/ SetActive \/ Act
    PROVE  IInv'
<1>1. PICK u \in accounts, v \in AccountRow :
         /\ accounts' = (accounts \ {u}) \cup {v}
         /\ v.id = u.id /\ v.tenant = u.tenant /\ v.of = u.of /\ v.super = u.super
         /\ late' \in {late, late \cup {u.id}}
         /\ late' # late => {u.of} \cap condemned # {} \/ u.tenant # u.of
         /\ v.active => u.active \/ u.id \in late' \/ (u.tenant = u.of /\ u.of \notin condemned)
  <2>1. ASSUME NEW u \in accounts, NEW on \in BOOLEAN, Activated(u, on)
        PROVE  \E v \in AccountRow :
                  /\ accounts' = (accounts \ {u}) \cup {v}
                  /\ v.id = u.id /\ v.tenant = u.tenant /\ v.of = u.of /\ v.super = u.super
                  /\ late' \in {late, late \cup {u.id}}
                  /\ late' # late => {u.of} \cap condemned # {} \/ u.tenant # u.of
                  /\ v.active => u.active \/ u.id \in late'
                                 \/ (u.tenant = u.of /\ u.of \notin condemned)
    <3> DEFINE v == [u EXCEPT !.active = on]
    <3>1. /\ v \in AccountRow /\ v.active = on
          /\ v.id = u.id /\ v.tenant = u.tenant /\ v.of = u.of /\ v.super = u.super
      BY DEF IInv, Typed, AccountRow
    <3>2. /\ accounts' = (accounts \ {u}) \cup {v}
          /\ late' = IF on /\ (u.tenant # u.of \/ Unsettles(u, u.of))
                     THEN late \cup {u.id} ELSE late
      BY <2>1 DEF Activated, Rewrite
    <3> HIDE DEF v
    <3> QED
      BY <3>1, <3>2 DEF Unsettles
  <2>2. CASE Act
    <3>1. PICK u \in accounts : u.active /\ Rewrite(u, [u EXCEPT !.acted = TRUE])
      BY <2>2 DEF Act
    <3> DEFINE v == [u EXCEPT !.acted = TRUE]
    <3>2. /\ v \in AccountRow /\ v.active = u.active
          /\ v.id = u.id /\ v.tenant = u.tenant /\ v.of = u.of /\ v.super = u.super
      BY DEF IInv, Typed, AccountRow
    <3>3. accounts' = (accounts \ {u}) \cup {v} /\ late' = late
      BY <2>2, <3>1 DEF Act, Rewrite, history
    <3> HIDE DEF v
    <3> QED
      BY <3>1, <3>2, <3>3
  <2>3. CASE SetActive
    BY <2>1, <2>3 DEF SetActive
  <2>4. CASE \E c \in Calls : Reset(c)
    BY <2>1, <2>4 DEF Reset, Seen
  <2> QED
    BY <2>2, <2>3, <2>4
<1>2. /\ UNCHANGED <<tenant, served, condemned, shaken, misled, lost>> /\ begun' = begun
  BY DEF Reset, SetActive, Act, history
<1>3. PICK T \in SUBSET Calls :
         /\ \A c \in T : call'[c] = NoCall
         /\ \A c \in Calls \ T : call'[c] = call[c]
         /\ call' \in [Calls -> CallRow]
  <2>1. CASE \E c \in Calls : Reset(c)
    <3>1. PICK c \in Calls : End(c)
      BY <2>1 DEF Reset
    <3>2. call' \in [Calls -> CallRow] /\ call'[c] = NoCall
          /\ \A q \in Calls \ {c} : call'[q] = call[q]
      BY <3>1, EndFacts DEF IInv
    <3> WITNESS {c} \in SUBSET Calls
    <3> QED
      BY <3>2
  <2>2. CASE SetActive \/ Act
    <3> WITNESS {} \in SUBSET Calls
    <3> QED
      BY <2>2 DEF SetActive, Act, IInv, Typed
  <2> QED
    BY <2>1, <2>2
<1>4. Typed'
  BY <1>1, <1>2, <1>3 DEF IInv, Typed
<1>5. \A c \in Calls : call'[c] \in {call[c], NoCall}
  BY <1>3
<1>6. Numbered'
  <2>1. \A w \in accounts' : \E x \in accounts : w.id = x.id
    BY <1>1
  <2>2. \A w, x \in accounts' : w.id = x.id => w = x
    BY <1>1 DEF IInv, Numbered
  <2>3. \A q \in Calls : Busy(q)' => Busy(q) /\ call'[q] = call[q]
    BY <1>5 DEF Busy, NoCall
  <2>4. \A q \in Calls : call'[q].seen \subseteq call[q].seen
    BY <1>5 DEF NoCall
  <2> QED
    BY <1>2, <2>1, <2>2, <2>3, <2>4 DEF IInv, Numbered, Fresh
<1> QED
  BY <1>1, <1>2, <1>4, <1>5, <1>6, RewriteStep

-----------------------------------------------------------------------------
(* Accounts that come and go *)

\* An account that joins the company a request created, from another (u) or new.
LEMMA JoinStep ==
    ASSUME IInv, Typed', Numbered', NEW c \in Calls, NEW v, NEW t \in Nat, t # None, Exists(t),
           v.tenant = t /\ v.of = t,
           \A w \in accounts' : w \in accounts \/ w = v,
           v \in accounts',
           \A w \in accounts : w.id # v.id => w \in accounts',
           \A w \in accounts : w.id = v.id => w \notin accounts' \/ w = v,
           \A w \in accounts : w.id = v.id => w.tenant \in {t, None} \cup shaken',
           \A w \in accounts : w.id = v.id /\ w.of \in condemned => v.id \in late',
           t \in condemned => v.id \in late',
           late \subseteq late', late' \subseteq late \cup {v.id}, shaken \subseteq shaken',
           v.id \in late' => t \in shaken',
           served' = served \cup {t},
           UNCHANGED <<tenant, condemned, misled, lost>>,
           \A q \in Calls : v.id \notin call[q].seen \/ \E w \in accounts : w.id = v.id,
           \A q \in Calls \ {c} : call'[q] = call[q], Removal(c)'
    PROVE  IInv'
<1>1. \A x : Exists(x)' = Exists(x)
  BY DEF Exists, Live
<1>2. ASSUME NEW w \in accounts' PROVE Fine(w)'
  <2>1. CASE w = v
    BY <1>1, <2>1 DEF Fine
  <2>2. CASE w # v
    <3>1. w \in accounts /\ w.id # v.id
      BY <2>2
    <3>2. Fine(w) /\ (w.id \in late' => w.id \in late)
      BY <3>1 DEF IInv
    <3> QED
      BY <1>1, <3>2 DEF Fine
  <2> QED
    BY <2>1, <2>2
<1>3. ASSUME NEW q \in Calls \ {c} PROVE Removal(q)'
  <2>1. Removal(q) /\ call'[q] = call[q]
    BY DEF IInv
  <2> SUFFICES ASSUME call[q].pc \in {"remove", "detach"}, call[q].caller = None,
  NEW w \in accounts'
               PROVE  /\ w.id \in call[q].seen => w.of = call[q].of \/ w.id \in late'
                      /\ w.of = call[q].of /\ w.active /\ ~w.super
                            => w.id \in call[q].seen \/ w.id \in late' \/ w.of \in misled
    BY <2>1 DEF Removal
  <2>2. call[q].of \in condemned
    BY <2>1 DEF Removal
  <2>3. CASE w \in accounts
    BY <2>1, <2>3 DEF Removal
  <2>4. CASE w = v
    <3>1. ASSUME v.id \in call[q].seen PROVE v.id \in late'
      <4>1. PICK x \in accounts : x.id = v.id
        BY <3>1
      <4>2. x.of = call[q].of \/ x.id \in late
        BY <2>1, <3>1, <4>1 DEF Removal
      <4> QED
        BY <2>2, <4>1, <4>2
    <3>2. v.of = call[q].of => v.id \in late'
      BY <2>2
    <3> QED
      BY <2>4, <3>1, <3>2
  <2> QED
    BY <2>3, <2>4
<1>4. ServedCompanyHasPeople'
  <2> SUFFICES ASSUME NEW x \in (served \cup {t}) \ (condemned \cup shaken')
               PROVE  \E w \in accounts' : w.tenant = x
    BY DEF ServedCompanyHasPeople, Members
  <2>1. CASE x = t
    BY <2>1
  <2>2. CASE x # t
    <3>1. PICK w \in accounts : w.tenant = x
      BY <2>2 DEF IInv, ServedCompanyHasPeople, Members
    <3>2. CASE w.id # v.id
      BY <3>1, <3>2
    <3>3. CASE w.id = v.id
      <4>1. x = None
        BY <2>2, <3>1, <3>3
      <4> QED
        BY <2>2, <4>1 DEF IInv
    <3> QED
      BY <3>2, <3>3
  <2> QED
    BY <2>1, <2>2
<1>5. RemovesOnlyItsUsers' /\ None \notin (condemned \cup served)'
  BY DEF IInv, RemovesOnlyItsUsers
<1> QED
  BY <1>2, <1>3, <1>4, <1>5 DEF IInv

LEMMA ProvisionStep == ASSUME IInv, NEW c \in Calls, MoveUser(c) \/ NewUser(c) PROVE IInv'
<1> DEFINE t == call[c].id
<1>1. call[c].pc = "user"
  BY DEF MoveUser, NewUser, At
<1>2. Fresh(c) /\ t \in Nat /\ t # None
  BY <1>1 DEF IInv, Numbered, Busy, Fresh, Typed, CallRow, None
<1>3. PICK v \in AccountRow :
         /\ v.tenant = t /\ v.of = t
         /\ \/ /\ v.id = t /\ accounts' = accounts \cup {v} /\ Provisioned(c, v)
            \/ \E u \in accounts : /\ u.id = v.id /\ Provisioned(c, u)
                                   /\ accounts' = (accounts \ {u}) \cup {v}
  <2>1. CASE MoveUser(c)
    <3>1. PICK u \in accounts : /\ Rewrite(u, [u EXCEPT !.tenant = t, !.of = t])
                                /\ Provisioned(c, u)
      BY <2>1 DEF MoveUser, Seen
    <3> DEFINE v == [u EXCEPT !.tenant = t, !.of = t]
    <3>2. v \in AccountRow /\ v.id = u.id /\ v.tenant = t /\ v.of = t
      BY <1>2 DEF IInv, Typed, AccountRow
    <3>3. accounts' = (accounts \ {u}) \cup {v}
      BY <3>1 DEF Rewrite
    <3> HIDE DEF v, t
    <3> QED
      BY <3>1, <3>2, <3>3
  <2>2. CASE NewUser(c)
    <3> DEFINE v == Account(t, call[c].email, t, FALSE)
    <3>1. accounts' = accounts \cup {v} /\ Provisioned(c, v)
      BY <2>2 DEF NewUser
    <3>2. v \in AccountRow /\ v.id = t /\ v.tenant = t /\ v.of = t
      BY <1>2 DEF IInv, Typed, CallRow, AccountRow, Account
    <3> HIDE DEF v, t
    <3> QED
      BY <3>1, <3>2
  <2> QED
    BY <2>1, <2>2
<1>4. /\ Exists(t) /\ End(c) /\ served' = served \cup {t}
      /\ UNCHANGED <<tenant, begun, condemned, misled, lost>>
      /\ late \subseteq late' /\ late' \subseteq late \cup {v.id} /\ shaken \subseteq shaken'
      /\ v.id \in late' => t \in shaken'
      /\ t \in condemned => v.id \in late'
  BY <1>3 DEF Provisioned, Unsettles
<1>5. /\ call' \in [Calls -> CallRow] /\ call'[c].pc = "idle" /\ call'[c].seen = {}
      /\ \A q \in Calls \ {c} : call'[q] = call[q]
      /\ Removal(c)'
  BY <1>4, EndFacts DEF IInv
<1>6. Typed'
  BY <1>3, <1>4, <1>5 DEF IInv, Typed
<1>7. \A x, y \in accounts : x.id = y.id => x = y
  BY DEF IInv, Numbered
<1> HIDE DEF t
<1>8. CASE v.id = t /\ accounts' = accounts \cup {v} /\ Provisioned(c, v)
  <2>1. \A w \in accounts : w.id # v.id
    BY <1>2, <1>8 DEF Fresh, t
  <2>2. \A q \in Calls : v.id \notin call[q].seen
    BY <1>2, <1>8 DEF Fresh, t
  <2>3. Numbered'
    BY <1>1, <1>4, <1>5, <1>8, NewNumbers DEF Busy, t
  <2> QED
    BY <1>2, <1>3, <1>4, <1>5, <1>6, <1>8, <2>1, <2>2, <2>3, JoinStep
<1>9. ASSUME NEW u \in accounts, u.id = v.id, Provisioned(c, u), accounts' = (accounts \ {u}) \cup
               {v}
      PROVE  IInv'
  <2>1. \A w \in accounts : w.id = v.id => w = u
    BY <1>7, <1>9
  <2>2. u.tenant \in {t, None} \cup shaken' /\ (u.of \in condemned => v.id \in late')
    BY <1>9 DEF Provisioned, Unsettles, t
  <2>3. Numbered'
    <3>1. \A x \in accounts' : \E y \in accounts : x.id = y.id
      BY <1>9
    <3>2. \A x, y \in accounts' : x.id = y.id => x = y
      BY <1>7, <1>9, <2>1
    <3>3. begun' = begun /\ ~(call'[c].pc # "idle") /\ ~(\E i : i \in call'[c].seen)
      BY <1>4, <1>5
    <3> QED
      BY <1>5, <3>1, <3>2, <3>3, KeepNumbers
  <2>4. \A w \in accounts : w.id = v.id => w \notin accounts' \/ w = v
    BY <1>9, <2>1
  <2>5. \A w \in accounts : w.id # v.id => w \in accounts'
    BY <1>9
  <2>6. \A w \in accounts' : w \in accounts \/ w = v
    BY <1>9
  <2>7. v \in accounts' /\ \A q \in Calls : v.id \notin call[q].seen \/ \E w \in accounts :
          w.id = v.id
    BY <1>9
  <2>8. \A w \in accounts : w.id = v.id =>
           w.tenant \in {t, None} \cup shaken' /\ (w.of \in condemned => v.id \in late')
    BY <2>1, <2>2
  <2> QED
    BY <1>2, <1>3, <1>4, <1>5, <1>6, <2>3, <2>4, <2>5, <2>6, <2>7, <2>8, JoinStep
<1> QED
  BY <1>3, <1>8, <1>9

\* An account in no company leaves what the others are to their companies.
LEMMA RegisterStep == ASSUME IInv, NEW c \in Calls, Register(c) PROVE IInv'
<1> DEFINE v == Account(call[c].id, call[c].email, None, call[c].super)
<1>1. /\ call[c].pc = "register" /\ accounts' = accounts \cup {v} /\ End(c)
      /\ begun' = begun /\ tenant' = tenant /\ UNCHANGED history
  BY DEF Register, At
<1>2. /\ v \in AccountRow /\ v.id = call[c].id /\ v.tenant = None /\ v.of = None
  BY DEF IInv, Typed, CallRow, AccountRow, Account, None
<1> HIDE DEF v
<1>3. /\ call' \in [Calls -> CallRow] /\ call'[c].pc = "idle" /\ call'[c].seen = {}
      /\ \A q \in Calls \ {c} : call'[q] = call[q]
      /\ Removal(c)'
  BY <1>1, EndFacts DEF IInv
<1>4. Typed'
  BY <1>1, <1>2, <1>3 DEF IInv, Typed
<1>5. Numbered'
  BY <1>1, <1>2, <1>3, NewNumbers DEF Busy
<1>6. \A x : Exists(x)' = Exists(x)
  BY <1>1 DEF Exists, Live
<1>7. ASSUME NEW w \in accounts' PROVE Fine(w)'
  BY <1>1, <1>2, <1>6 DEF IInv, Fine, history
<1>8. ASSUME NEW q \in Calls \ {c} PROVE Removal(q)'
  <2>1. Fresh(c) /\ Removal(q) /\ call'[q] = call[q] /\ None \notin condemned
    BY <1>1, <1>3 DEF IInv, Numbered, Busy
  <2>2. v.id \notin call[q].seen
    BY <1>2, <2>1 DEF Fresh
  <2> QED
    BY <1>1, <1>2, <2>1, <2>2 DEF Removal, history
<1>9. ServedCompanyHasPeople' /\ RemovesOnlyItsUsers' /\ None \notin (condemned \cup served)'
  BY <1>1 DEF IInv, ServedCompanyHasPeople, RemovesOnlyItsUsers, Members, history
<1> QED
  BY <1>3, <1>4, <1>5, <1>7, <1>8, <1>9 DEF IInv

\* An account a removal found goes, or stays (v) outside every company and inactive.
LEMMA LeaveStep ==
    ASSUME IInv, Typed', NEW c \in Calls, NEW u \in accounts, NEW v,
           call[c].pc \in {"remove", "detach"}, u.id \in call[c].seen, Taken(c, u),
           v.id = u.id /\ v.of = u.of /\ v.tenant = None /\ ~v.active,
           accounts' \in {accounts \ {u}, (accounts \ {u}) \cup {v}},
           \A q \in Calls \ {c} : call'[q] = call[q],
           call'[c].pc = "remove", call'[c].seen = call[c].seen \ {u.id},
           call'[c].id = call[c].id, call'[c].of = call[c].of, call'[c].caller = call[c].caller,
           UNCHANGED <<tenant, begun, served, condemned, misled, late>>
    PROVE  IInv'
<1>1. \A x, y \in accounts : x.id = y.id => x = y
  BY DEF IInv, Numbered
<1>2. \A w \in accounts' : w = v \/ (w \in accounts /\ w.id # u.id)
  BY <1>1
<1>3. \A w \in accounts : w.id # u.id => w \in accounts'
  OBVIOUS
<1>4. shaken \subseteq shaken'
  BY DEF Taken
<1>5. Numbered'
  <2>1. \A x \in accounts' : \E y \in accounts : x.id = y.id
    BY <1>2
  <2>2. \A x, y \in accounts' : x.id = y.id => x = y
    BY <1>1, <1>2
  <2>3. call[c].pc # "idle" /\ \A i \in call'[c].seen : i \in call[c].seen
    OBVIOUS
  <2> QED
    BY <2>1, <2>2, <2>3, KeepNumbers
<1>6. ASSUME NEW w \in accounts' PROVE Fine(w)'
  <2>1. CASE w = v
    BY <2>1 DEF Fine
  <2>2. CASE w \in accounts
    <3>1. Fine(w)
      BY <2>2 DEF IInv
    <3> QED
      BY <1>4, <3>1 DEF Fine, Exists, Live
  <2> QED
    BY <1>2, <2>1, <2>2
<1>7. ASSUME NEW q \in Calls PROVE Removal(q)'
  <2>1. Removal(q) /\ Removal(c)
    BY DEF IInv
  <2>2. CASE q = c
    <3> SUFFICES ASSUME call[c].caller = None, NEW w \in accounts'
                 PROVE  /\ w.id \in call'[c].seen => w.of = call[c].of \/ w.id \in late
                        /\ w.of = call[c].of /\ w.active /\ ~w.super
                              => w.id \in call'[c].seen \/ w.id \in late \/ w.of \in misled
      BY <2>1, <2>2 DEF Removal
    <3> QED
      BY <1>2, <2>1 DEF Removal
  <2>3. CASE q # c
    <3>1. call'[q] = call[q]
      BY <2>3
    <3>2. call[q].pc \in {"remove", "detach"} /\ call[q].caller = None =>
             /\ v.id \in call[q].seen => v.of = call[q].of \/ v.id \in late
             /\ v.of = call[q].of /\ v.active /\ ~v.super
                   => v.id \in call[q].seen \/ v.id \in late \/ v.of \in misled
      BY <2>1 DEF Removal
    <3> QED
      BY <1>2, <2>1, <3>1, <3>2 DEF Removal
  <2> QED
    BY <2>2, <2>3
<1>8. u.tenant # None => u.tenant \in condemned \cup shaken'
  <2> SUFFICES ASSUME u.tenant # None PROVE u.tenant \in condemned \cup shaken'
    OBVIOUS
  <2>1. Fine(u) /\ Removal(c)
    BY DEF IInv
  <2>2. CASE call[c].caller = None
    <3>1. u.of = call[c].of \/ u.id \in late
      BY <2>1, <2>2 DEF Removal
    <3> QED
      BY <1>4, <2>1, <3>1 DEF Fine, Removal
  <2>3. CASE call[c].caller # None
    BY <2>3 DEF Taken
  <2> QED
    BY <2>2, <2>3
<1>9. ServedCompanyHasPeople'
  <2> SUFFICES ASSUME NEW t \in served \ (condemned \cup shaken')
               PROVE  \E w \in accounts' : w.tenant = t
    BY DEF ServedCompanyHasPeople, Members
  <2>1. PICK w \in accounts : w.tenant = t
    BY <1>4 DEF IInv, ServedCompanyHasPeople, Members
  <2>2. t # None
    BY DEF IInv
  <2>3. w # u
    BY <1>8, <2>1, <2>2
  <2> QED
    BY <1>1, <1>3, <2>1, <2>3
<1>10. RemovesOnlyItsUsers'
  <2>1. lost' \subseteq lost \cup {u.id}
    BY DEF Taken
  <2>2. u.id \notin late => lost' = lost
    <3> SUFFICES ASSUME u.id \notin late PROVE lost' = lost
      OBVIOUS
    <3>1. Fine(u) /\ Removal(c)
      BY DEF IInv
    <3>2. call[c].caller = None => u.tenant \in {call[c].of, None}
      BY <3>1 DEF Fine, Removal
    <3> QED
      BY <3>2 DEF Taken
  <2> QED
    BY <2>1, <2>2 DEF IInv, RemovesOnlyItsUsers
<1> QED
  BY <1>5, <1>6, <1>7, <1>9, <1>10 DEF IInv

LEMMA DeleteStep == ASSUME IInv, NEW c \in Calls, DeleteUser(c) PROVE IInv'
<1>1. call[c].pc = "remove" /\ Removal(c)
  BY DEF DeleteUser, At, IInv
<1>2. PICK i \in call[c].seen :
         \/ \E u \in accounts : /\ u.id = i /\ accounts' = accounts \ {u} /\ Taken(c, u)
                                /\ GoTo(c, "remove", call[c].seen \ {i})
                                /\ UNCHANGED <<tenant, begun, served, condemned, misled, late>>
         \/ /\ call' = [call EXCEPT ![c].pc = "detach", ![c].target = i]
            /\ UNCHANGED <<tenant, accounts, begun, history>>
  BY DEF DeleteUser
<1>3. i \in Nat /\ call[c].seen \ {i} \in SUBSET Nat
  BY DEF IInv, Typed, CallRow
<1>4. ASSUME NEW u \in accounts, u.id = i, accounts' = accounts \ {u}, Taken(c, u),
             GoTo(c, "remove", call[c].seen \ {i}),
             UNCHANGED <<tenant, begun, served, condemned, misled, late>>
      PROVE  IInv'
  <2>1. /\ call' \in [Calls -> CallRow]
        /\ call'[c].pc = "remove" /\ call'[c].seen = call[c].seen \ {i}
        /\ call'[c].id = call[c].id /\ call'[c].of = call[c].of /\ call'[c].caller = call[c].caller
        /\ \A q \in Calls \ {c} : call'[q] = call[q]
    BY <1>3, <1>4, GoToFacts DEF IInv, Steps
  <2>2. Typed'
    BY <1>4, <2>1 DEF IInv, Typed
  <2> DEFINE v == [id |-> u.id, of |-> u.of, tenant |-> None, active |-> FALSE]
  <2>3. v.id = u.id /\ v.of = u.of /\ v.tenant = None /\ ~v.active
    OBVIOUS
  <2> HIDE DEF v
  <2> QED
    BY <1>1, <1>4, <2>1, <2>2, <2>3, LeaveStep
<1>5. ASSUME call' = [call EXCEPT ![c].pc = "detach", ![c].target = i],
             UNCHANGED <<tenant, accounts, begun, history>>
      PROVE  IInv'
  <2>1. /\ call' \in [Calls -> CallRow]
        /\ call'[c].pc = "detach" /\ call'[c].seen = call[c].seen /\ call'[c].target = i
        /\ call'[c].id = call[c].id /\ call'[c].of = call[c].of /\ call'[c].caller = call[c].caller
        /\ \A q \in Calls \ {c} : call'[q] = call[q]
    BY <1>3, <1>5 DEF IInv, Typed, CallRow, Steps
  <2>2. Typed' /\ \A t \in Nat : Exists(t) => Exists(t)'
    BY <1>5, <2>1 DEF IInv, Typed, Exists, Live
  <2>3. Removal(c)'
    BY <1>1, <1>2, <1>5, <2>1 DEF Removal, history
  <2>4. Numbered'
    <3>1. call[c].pc # "idle"
      BY <1>1
    <3>2. \A x, y \in accounts' : x.id = y.id => x = y
      BY <1>5 DEF IInv, Numbered
    <3> QED
      BY <1>5, <2>1, <3>1, <3>2, KeepNumbers
  <2>5. None \notin condemned'
    BY <1>5 DEF IInv, history
  <2> QED
    BY <1>5, <2>1, <2>2, <2>3, <2>4, <2>5, QuietStep DEF history
<1> QED
  BY <1>2, <1>4, <1>5

LEMMA DetachStep == ASSUME IInv, NEW c \in Calls, DetachUser(c) PROVE IInv'
<1>1. call[c].pc = "detach" /\ Removal(c)
  BY DEF DetachUser, At, IInv
<1>2. PICK u \in accounts :
         /\ u.id = call[c].target
         /\ Rewrite(u, [u EXCEPT !.tenant = None, !.active = FALSE])
         /\ Taken(c, u)
         /\ call' = [call EXCEPT ![c].pc = "remove", ![c].target = None, ![c].seen = @ \ {u.id}]
         /\ UNCHANGED <<tenant, begun, served, condemned, misled, late>>
  BY DEF DetachUser
<1> DEFINE v == [u EXCEPT !.tenant = None, !.active = FALSE]
<1>3. /\ v \in AccountRow
      /\ v.id = u.id /\ v.of = u.of /\ v.tenant = None /\ ~v.active
  BY DEF IInv, Typed, AccountRow, None
<1>4. accounts' = (accounts \ {u}) \cup {v}
  BY <1>2 DEF Rewrite
<1>5. /\ call' \in [Calls -> CallRow]
      /\ call'[c].pc = "remove" /\ call'[c].seen = call[c].seen \ {u.id}
      /\ call'[c].id = call[c].id /\ call'[c].of = call[c].of /\ call'[c].caller = call[c].caller
      /\ \A q \in Calls \ {c} : call'[q] = call[q]
  <2> DEFINE row == [call[c] EXCEPT !.pc = "remove", !.target = None, !.seen = @ \ {u.id}]
  <2>1. call' = [call EXCEPT ![c] = row]
    BY <1>2 DEF IInv, Typed, CallRow
  <2>2. /\ row \in CallRow /\ row.pc = "remove" /\ row.seen = call[c].seen \ {u.id}
        /\ row.id = call[c].id /\ row.of = call[c].of /\ row.caller = call[c].caller
    BY DEF IInv, Typed, CallRow, Steps, None
  <2> HIDE DEF row
  <2>3. /\ call' \in [Calls -> CallRow] /\ call'[c] = row
        /\ \A q \in Calls \ {c} : call'[q] = call[q]
    BY <2>1, <2>2 DEF IInv, Typed
  <2> QED
    BY <2>2, <2>3
<1> HIDE DEF v
<1>6. Typed'
  BY <1>2, <1>3, <1>4, <1>5 DEF IInv, Typed
<1>7. u.id \in call[c].seen
  BY <1>1, <1>2 DEF Removal
<1> QED
  BY <1>1, <1>2, <1>3, <1>4, <1>5, <1>6, <1>7, LeaveStep

\* The company goes when every account found has gone: whoever is left in it is
\* inactive, or has an excuse.
LEMMA DropStep == ASSUME IInv, NEW c \in Calls, DropTenant(c) PROVE IInv'
<1> DEFINE t == call[c].of
           Out(u) == IF u.tenant = t THEN [u EXCEPT !.tenant = None] ELSE u
<1>1. /\ call[c].pc = "remove" /\ call[c].seen = {} /\ t \in Live
      /\ tenant' = [s \in Slugs |-> IF tenant[s] = t THEN None ELSE tenant[s]]
      /\ accounts' = {Out(u) : u \in accounts}
      /\ End(c) /\ begun' = begun /\ UNCHANGED history
  BY DEF DropTenant, At
<1>2. \A u \in accounts :
         /\ Out(u) \in AccountRow /\ Out(u).id = u.id /\ Out(u).of = u.of
         /\ Out(u).active = u.active /\ Out(u).super = u.super
         /\ Out(u).tenant = IF u.tenant = t THEN None ELSE u.tenant
  BY DEF IInv, Typed, AccountRow, None
<1> HIDE DEF Out
<1>3. \A w \in accounts' : \E u \in accounts : w = Out(u)
  BY <1>1
<1>4. /\ call' \in [Calls -> CallRow] /\ call'[c].pc = "idle" /\ call'[c].seen = {}
      /\ \A q \in Calls \ {c} : call'[q] = call[q]
      /\ Removal(c)'
  BY <1>1, EndFacts DEF IInv
<1>5. Typed'
  <2>1. tenant' \in [Slugs -> Nat]
    BY <1>1 DEF IInv, Typed, None
  <2>2. accounts' \subseteq AccountRow
    BY <1>2, <1>3
  <2> QED
    BY <1>1, <1>4, <2>1, <2>2 DEF IInv, Typed
<1>6. Numbered'
  <2>1. \A x \in accounts' : \E y \in accounts : x.id = y.id
    BY <1>2, <1>3
  <2>2. \A x, y \in accounts' : x.id = y.id => x = y
    BY <1>2, <1>3 DEF IInv, Numbered
  <2>3. begun' = begun /\ ~(call'[c].pc # "idle") /\ ~(\E i : i \in call'[c].seen)
    BY <1>1, <1>4
  <2> QED
    BY <1>4, <2>1, <2>2, <2>3, KeepNumbers
<1>7. \A x \in Nat : Exists(x) /\ x # t => Exists(x)'
  BY <1>1 DEF Exists, Live, IInv, Typed
<1>8. Removal(c) /\ t \in condemned /\ t # None
  BY <1>1 DEF IInv, Removal
<1>9. ASSUME NEW u \in accounts, u.tenant = t, u.active, ~u.super
      PROVE  u.id \in late \/ u.of \in misled
  <2>1. u.of = t
    BY <1>8, <1>9 DEF IInv, Fine
  <2> QED
    BY <1>1, <1>8, <1>9, <2>1 DEF Removal
<1>10. ASSUME NEW w \in accounts' PROVE Fine(w)'
  <2>1. PICK u \in accounts : w = Out(u)
    BY <1>3
  <2>2. Fine(u) /\ u.tenant \in Nat
    BY DEF IInv, Typed, AccountRow
  <2>3. CASE u.tenant = t
    BY <1>1, <1>2, <1>9, <2>1, <2>2, <2>3 DEF Fine, history
  <2>4. CASE u.tenant # t
    BY <1>1, <1>2, <1>7, <2>1, <2>2, <2>4 DEF Fine, history
  <2> QED
    BY <2>3, <2>4
<1>11. ASSUME NEW q \in Calls \ {c} PROVE Removal(q)'
  <2>1. Removal(q) /\ call'[q] = call[q]
    BY <1>4 DEF IInv
  <2>2. ASSUME call[q].pc \in {"remove", "detach"}, call[q].caller = None, NEW w \in accounts'
        PROVE  /\ w.id \in call[q].seen => w.of = call[q].of \/ w.id \in late
               /\ w.of = call[q].of /\ w.active /\ ~w.super
                     => w.id \in call[q].seen \/ w.id \in late \/ w.of \in misled
    <3>1. PICK u \in accounts : w = Out(u)
      BY <1>3
    <3> QED
      BY <1>2, <2>1, <2>2, <3>1 DEF Removal
  <2> QED
    BY <1>1, <2>1, <2>2 DEF Removal, history
<1>12. ServedCompanyHasPeople'
  <2> SUFFICES ASSUME NEW x \in served \ (condemned \cup shaken)
               PROVE  \E w \in accounts' : w.tenant = x
    BY <1>1 DEF ServedCompanyHasPeople, Members, history
  <2>1. PICK u \in accounts : u.tenant = x
    BY DEF IInv, ServedCompanyHasPeople, Members
  <2>2. Out(u) \in accounts' /\ Out(u).tenant = x
    BY <1>1, <1>2, <1>8, <2>1
  <2> QED
    BY <2>2
<1>13. RemovesOnlyItsUsers' /\ None \notin (condemned \cup served)'
  BY <1>1 DEF IInv, RemovesOnlyItsUsers, history
<1> QED
  BY <1>4, <1>5, <1>6, <1>10, <1>11, <1>12, <1>13 DEF IInv

-----------------------------------------------------------------------------

LEMMA NextIInv == IInv /\ [Next]_vars => IInv'
<1> SUFFICES ASSUME IInv, [Next]_vars PROVE IInv'
  OBVIOUS
<1>1. CASE UNCHANGED vars
  BY <1>1 DEF vars, history, IInv, Typed, Numbered, Busy, Fresh, Fine, Exists, Live, Removal,
              ServedCompanyHasPeople, Members, RemovesOnlyItsUsers
<1>2. ASSUME NEW c \in Calls, BeginCreate(c) \/ BeginRegister(c) \/ BeginReset(c) \/ BeginRemove(c)
      PROVE  IInv'
  BY <1>2, BeginStep
<1>3. ASSUME NEW c \in Calls, InsertTenant(c) \/ FindUser(c) \/ ListUsers(c) \/ Fail(c) PROVE IInv'
  BY <1>3, ReadStep
<1>4. ASSUME NEW c \in Calls, MoveUser(c) \/ NewUser(c) \/ Register(c) PROVE IInv'
  BY <1>4, ProvisionStep, RegisterStep
<1>5. ASSUME NEW c \in Calls, DeleteUser(c) \/ DetachUser(c) \/ DropTenant(c) PROVE IInv'
  BY <1>5, DeleteStep, DetachStep, DropStep
<1> QED
  BY <1>1, <1>2, <1>3, <1>4, <1>5, SetStep DEF Next

LEMMA SpecIInv == Spec => []IInv
  BY InitIInv, NextIInv, PTL DEF Spec

\* A removal takes no other company's account but one that moved meanwhile, for any
\* companies, accounts and removals at once that break off anywhere.
THEOREM OwnUsersSafety == Spec => []RemovesOnlyItsUsers
<1>1. IInv => RemovesOnlyItsUsers
  BY DEF IInv
<1> QED
  BY <1>1, SpecIInv, PTL

\* No active account is left of a company that is gone, but for the excuses the
\* property lists.
THEOREM ClosedAccountSafety == Spec => []NoAccountOutlivesItsCompany
<1>1. IInv => NoAccountOutlivesItsCompany
  <2> SUFFICES ASSUME IInv, NEW u \in accounts, u.of # None, ~Exists(u.of), u.active, ~u.super
               PROVE  u.id \in late \/ u.of \in misled
    BY DEF NoAccountOutlivesItsCompany
  <2>1. Fine(u)
    BY DEF IInv
  <2> QED
    BY <2>1 DEF Fine
<1> QED
  BY <1>1, SpecIInv, PTL

\* A company that was created with an administrator keeps somebody, but for the
\* excuses the property lists.
THEOREM PeopleSafety == Spec => []ServedCompanyHasPeople
<1>1. IInv => ServedCompanyHasPeople
  BY DEF IInv
<1> QED
  BY <1>1, SpecIInv, PTL

-----------------------------------------------------------------------------
(* The daily digest *)

SweepRow == [pc : {"idle", "tenants", "radar", "store"}, date : Int, time : Int,
             left : SUBSET Tenants, tenant : Tenants \cup {Nobody}]

DigestTypes ==
    /\ now \in Nat
    /\ lastSent \in [Tenants -> Int]
    /\ sweep \in [Sweeps -> SweepRow]
    /\ sent \in [Tenants -> [Dates -> Nat]]
    /\ active \subseteq Tenants
    /\ \A s \in Sweeps : sweep[s].pc \in {"radar", "store"} => sweep[s].tenant \in Tenants

\* A sweep that has checked tenant t for date d and has not stored it.
InHand(s, t, d) == sweep[s].pc \in {"radar", "store"} /\ sweep[s].tenant = t /\ sweep[s].date = d
Storing(s, t, d) == sweep[s].pc = "store" /\ InHand(s, t, d)

\* A digest that went out is remembered, by the tenant's date or by the sweep
\* that is about to store it.
Remembered(t, d) == lastSent[t] >= d \/ \E s \in Sweeps : Storing(s, t, d)

\* What holds of a tenant and a date nothing excuses: two sweeps are not at it at
\* once, the one in the radar has sent nothing yet, and what was sent is remembered.
Once(t, d) ==
    /\ \A s, r \in Sweeps : InHand(s, t, d) /\ InHand(r, t, d) => s = r
    /\ \A s \in Sweeps : InHand(s, t, d) /\ sweep[s].pc = "radar" => sent[t][d] = 0
    /\ sent[t][d] > 0 => sent[t][d] = 1 /\ Remembered(t, d)

\* The inductive invariant.
DigestInv == DigestTypes /\ \A t \in Tenants, d \in Dates : <<t, d>> \notin repeatable => Once(t, d)

LEMMA InitDigest == DigestInit => DigestInv
  BY DEF DigestInit, DigestInv, DigestTypes, SweepRow, NoSweep, Once, InHand, Remembered

\* A sweep that goes on keeps its type.
LEMMA GotoType ==
    ASSUME DigestTypes, NEW s \in Sweeps, NEW pc \in {"tenants", "radar", "store"},
           NEW t \in Tenants \cup {Nobody}, Goto(s, pc, t)
    PROVE  /\ sweep' \in [Sweeps -> SweepRow]
           /\ sweep'[s].pc = pc /\ sweep'[s].tenant = t
           /\ \A r \in Sweeps \ {s} : sweep'[r] = sweep[r]
<1> DEFINE row == [sweep[s] EXCEPT !.pc = pc, !.tenant = t, !.left = @ \ {t}]
<1>1. row \in SweepRow
  BY DEF DigestTypes, SweepRow
<1>2. sweep' = [sweep EXCEPT ![s] = row]
  BY DEF Goto, DigestTypes, SweepRow
<1> HIDE DEF row
<1>3. sweep' \in [Sweeps -> SweepRow] /\ sweep'[s] = row
  BY <1>1, <1>2 DEF DigestTypes
<1>4. \A r \in Sweeps \ {s} : sweep'[r] = sweep[r]
  BY <1>2 DEF DigestTypes
<1>5. row.pc = pc /\ row.tenant = t
  BY DEF DigestTypes, SweepRow, row
<1> QED
  BY <1>3, <1>4, <1>5

\* Steps that leave the scheduler alone.
LEMMA WorldStep ==
    ASSUME DigestInv, UNCHANGED scheduler, now' \in Nat, active' \subseteq Tenants
    PROVE  DigestInv'
<1>1. DigestTypes'
  BY DEF DigestInv, DigestTypes, SweepRow, scheduler
<1>2. \A t \in Tenants, d \in Dates : Once(t, d)' = Once(t, d)
  BY DEF scheduler, Once, InHand, Remembered, Storing
<1> QED
  BY <1>1, <1>2 DEF DigestInv, scheduler

\* Steps of sweep s after which it has nobody in hand, none of which sends or stores.
LEMMA PutDown ==
    ASSUME DigestInv, DigestTypes', NEW s \in Sweeps, lastSent' = lastSent, sent' = sent,
           sweep'[s].pc \in {"idle", "tenants"},
           \A r \in Sweeps \ {s} : sweep'[r] = sweep[r],
           repeatable \subseteq repeatable',
           sweep[s].pc = "store" => <<sweep[s].tenant, sweep[s].date>> \in repeatable'
    PROVE  DigestInv'
<1> SUFFICES ASSUME NEW t \in Tenants, NEW d \in Dates, <<t, d>> \notin repeatable'
             PROVE  Once(t, d)'
  BY DEF DigestInv
<1>1. Once(t, d)
  BY DEF DigestInv
<1>2. \A r \in Sweeps : InHand(r, t, d)' => r # s /\ InHand(r, t, d) /\ sweep'[r] = sweep[r]
  BY DEF InHand
<1>3. ~Storing(s, t, d)
  BY DEF Storing, InHand
<1>4. \A r \in Sweeps : Storing(r, t, d) => Storing(r, t, d)'
  BY <1>3 DEF Storing, InHand
<1>5. Remembered(t, d) => Remembered(t, d)'
  BY <1>4 DEF Remembered
<1> QED
  BY <1>1, <1>2, <1>5 DEF Once

LEMMA BeginSweepStep == ASSUME DigestInv, NEW s \in Sweeps, BeginSweep(s) PROVE DigestInv'
<1>1. UtcDate(now) \in Int /\ LocalTime(now) \in Int
  BY ClockAssumption DEF ClockAssumption, DigestInv, DigestTypes, SweepRow, UtcDate, LocalTime
<1>2. DigestTypes'
  BY <1>1 DEF DigestInv, DigestTypes, SweepRow, BeginSweep, world
<1> QED
  BY <1>2, PutDown DEF DigestInv, DigestTypes, SweepRow, BeginSweep

LEMMA SkipStep == ASSUME DigestInv, NEW s \in Sweeps, NEW t \in Tenants, Skip(s, t) PROVE DigestInv'
<1>1. DigestTypes'
  BY DEF DigestInv, DigestTypes, SweepRow, Skip, world
<1> QED
  BY <1>1, PutDown DEF DigestInv, DigestTypes, SweepRow, Skip

LEMMA CheckStep ==
    ASSUME DigestInv, NEW s \in Sweeps, NEW t \in Tenants, Check(s, t)
    PROVE  DigestInv'
<1> DEFINE d == sweep[s].date
<1>1. /\ sweep[s].pc = "tenants" /\ t \in sweep[s].left
      /\ sweep' = [sweep EXCEPT ![s].pc = "radar", ![s].tenant = t, ![s].left = @ \ {t}]
      /\ lastSent' = lastSent /\ sent' = sent /\ now' = now /\ active' = active
  BY DEF Check, Goto, world
<1>2. DigestTypes'
  BY <1>1 DEF DigestInv, DigestTypes, SweepRow
<1>3. /\ sweep'[s].pc = "radar" /\ sweep'[s].tenant = t /\ sweep'[s].date = d
      /\ \A r \in Sweeps \ {s} : sweep'[r] = sweep[r]
  BY <1>1 DEF DigestInv, DigestTypes, SweepRow
<1>4. repeatable \subseteq repeatable'
  BY DEF Check
<1>5. lastSent[t] >= d \/ BusyWith(t, s) => <<t, d>> \in repeatable'
  BY DEF Check
<1> HIDE DEF d
<1> SUFFICES ASSUME NEW u \in Tenants, NEW e \in Dates, <<u, e>> \notin repeatable'
             PROVE  Once(u, e)'
  BY <1>2 DEF DigestInv
<1>6. Once(u, e)
  BY <1>4 DEF DigestInv
<1>7. \A r \in Sweeps \ {s} : InHand(r, u, e)' = InHand(r, u, e)
  BY <1>3 DEF InHand
<1>8. ~InHand(s, u, e)
  BY <1>1 DEF InHand
<1>9. Remembered(u, e) => Remembered(u, e)'
  BY <1>1, <1>3, <1>8 DEF Remembered, Storing, InHand
<1>10. CASE u = t /\ e = d
  <2>1. ~(lastSent[t] >= d) /\ ~BusyWith(t, s)
    BY <1>5, <1>10
  <2>2. \A r \in Sweeps \ {s} : ~InHand(r, t, d)
    BY <2>1 DEF BusyWith, InHand
  <2>3. ~Remembered(t, d)
    BY <1>8, <1>10, <2>1, <2>2 DEF Remembered, Storing
  <2>4. ~(sent[t][d] > 0)
    BY <1>6, <1>10, <2>3 DEF Once
  <2>5. sent[t][d] = 0
    BY <1>10, <2>4 DEF DigestInv, DigestTypes, SweepRow
  <2> QED
    BY <1>1, <1>7, <1>10, <2>2, <2>5 DEF Once
<1>11. CASE ~(u = t /\ e = d)
  <2>1. ~InHand(s, u, e)'
    BY <1>3, <1>11 DEF InHand
  <2> QED
    BY <1>1, <1>3, <1>6, <1>7, <1>9, <2>1 DEF Once
<1> QED
  BY <1>10, <1>11

LEMMA QuietSweepStep == ASSUME DigestInv, NEW s \in Sweeps, Quiet(s) PROVE DigestInv'
<1>1. /\ sweep' \in [Sweeps -> SweepRow] /\ sweep'[s].pc = "tenants"
      /\ \A r \in Sweeps \ {s} : sweep'[r] = sweep[r]
  BY GotoType DEF DigestInv, Quiet
<1>2. DigestTypes'
  BY <1>1 DEF DigestInv, DigestTypes, Quiet, world
<1> QED
  BY <1>1, <1>2, PutDown DEF Quiet

LEMMA DispatchStep == ASSUME DigestInv, NEW s \in Sweeps, Dispatch(s) PROVE DigestInv'
<1> DEFINE t == sweep[s].tenant
           d == sweep[s].date
<1>1. /\ sweep[s].pc = "radar" /\ sweep' = [sweep EXCEPT ![s].pc = "store"]
      /\ sent' = [sent EXCEPT ![t][d] = IF @ < MaxSent THEN @ + 1 ELSE @]
      /\ lastSent' = lastSent /\ repeatable' = repeatable /\ now' = now /\ active' = active
  BY DEF Dispatch, world
<1>2. t \in Tenants /\ d \in Int
  BY <1>1 DEF DigestInv, DigestTypes, SweepRow
<1>3. /\ sweep' \in [Sweeps -> SweepRow]
      /\ sweep'[s].pc = "store" /\ sweep'[s].tenant = t /\ sweep'[s].date = d
      /\ \A r \in Sweeps \ {s} : sweep'[r] = sweep[r]
  BY <1>1 DEF DigestInv, DigestTypes, SweepRow
<1>4. DigestTypes'
  <2> HIDE DEF t, d
  <2>1. [sent[t] EXCEPT ![d] = IF @ < MaxSent THEN @ + 1 ELSE @] \in [Dates -> Nat]
    <3>1. sent[t] \in [Dates -> Nat]
      BY <1>2 DEF DigestInv, DigestTypes
    <3>2. CASE d \in Dates
      BY <3>1, <3>2
    <3>3. CASE d \notin Dates
      BY <3>1, <3>3
    <3> QED  BY <3>2, <3>3
  <2>2. sent' \in [Tenants -> [Dates -> Nat]]
    BY <1>1, <1>2, <2>1 DEF DigestInv, DigestTypes
  <2>3. \A r \in Sweeps : sweep'[r].pc \in {"radar", "store"} => sweep'[r].tenant \in Tenants
    BY <1>2, <1>3 DEF DigestInv, DigestTypes
  <2> QED
    BY <1>1, <1>3, <2>2, <2>3 DEF DigestInv, DigestTypes
<1> SUFFICES ASSUME NEW u \in Tenants, NEW e \in Dates, <<u, e>> \notin repeatable
             PROVE  Once(u, e)'
  BY <1>1, <1>4 DEF DigestInv
<1>5. Once(u, e)
  BY DEF DigestInv
<1>6. \A r \in Sweeps : InHand(r, u, e)' = InHand(r, u, e)
  BY <1>1, <1>3 DEF InHand
<1>7. CASE u = t /\ e = d
  <2>1. sent[u][e] = 0
    BY <1>1, <1>5, <1>7 DEF Once, InHand
  <2>2. sent'[u][e] \in {0, 1}
    BY <1>1, <1>7, <2>1 DEF DigestInv, DigestTypes, SweepRow
  <2>3. Remembered(u, e)'
    BY <1>3, <1>7 DEF Remembered, Storing, InHand
  <2>4. \A r \in Sweeps : ~(InHand(r, u, e)' /\ sweep'[r].pc = "radar")
    <3>1. InHand(s, u, e)
      BY <1>1, <1>7 DEF InHand
    <3> QED
      BY <1>3, <1>5, <1>6, <3>1 DEF Once
  <2> QED
    BY <1>5, <1>6, <2>2, <2>3, <2>4 DEF Once
<1>8. CASE ~(u = t /\ e = d)
  <2>1. sent'[u][e] = sent[u][e]
    BY <1>1, <1>2, <1>8 DEF DigestInv, DigestTypes, SweepRow
  <2>2. \A r \in Sweeps : InHand(r, u, e) => r # s
    BY <1>8 DEF InHand
  <2>3. Remembered(u, e) => Remembered(u, e)'
    BY <1>1, <1>3, <1>6, <2>2 DEF Remembered, Storing
  <2> QED
    BY <1>3, <1>5, <1>6, <2>1, <2>2, <2>3 DEF Once
<1> QED
  BY <1>7, <1>8

LEMMA StoreStep == ASSUME DigestInv, NEW s \in Sweeps, Store(s) PROVE DigestInv'
<1> DEFINE t == sweep[s].tenant
           d == sweep[s].date
<1>1. /\ sweep[s].pc = "store"
      /\ sweep' = [sweep EXCEPT ![s].pc = "tenants", ![s].tenant = Nobody, ![s].left = @ \ {Nobody}]
      /\ lastSent' = [lastSent EXCEPT ![t] = d]
      /\ sent' = sent /\ now' = now /\ active' = active
      /\ repeatable' = repeatable \cup {<<t, e>> : e \in (d + 1)..lastSent[t]}
  BY DEF Store, Goto, world
<1>2. t \in Tenants /\ d \in Int /\ lastSent[t] \in Int
  BY <1>1 DEF DigestInv, DigestTypes, SweepRow
<1>3. /\ sweep' \in [Sweeps -> SweepRow] /\ sweep'[s].pc = "tenants"
      /\ \A r \in Sweeps \ {s} : sweep'[r] = sweep[r]
  BY GotoType DEF DigestInv, Store
<1>4. DigestTypes'
  BY <1>1, <1>2, <1>3 DEF DigestInv, DigestTypes
<1> SUFFICES ASSUME NEW u \in Tenants, NEW e \in Dates, <<u, e>> \notin repeatable'
             PROVE  Once(u, e)'
  BY <1>4 DEF DigestInv
<1>5. Once(u, e)
  BY <1>1 DEF DigestInv
<1>6. \A r \in Sweeps : InHand(r, u, e)' => r # s /\ InHand(r, u, e) /\ sweep'[r] = sweep[r]
  BY <1>3 DEF InHand
<1>7. Remembered(u, e) => Remembered(u, e)'
  <2>1. e \in Int
    BY ClockAssumption DEF ClockAssumption, Dates
  <2>2. ASSUME lastSent[u] >= e PROVE lastSent'[u] >= e
    BY <1>1, <1>2, <2>1, <2>2 DEF DigestInv, DigestTypes, SweepRow
  <2>3. Storing(s, u, e) => lastSent'[u] >= e
    BY <1>1, <1>2 DEF Storing, InHand, DigestInv, DigestTypes, SweepRow
  <2>4. \A r \in Sweeps \ {s} : Storing(r, u, e) => Storing(r, u, e)'
    BY <1>3 DEF Storing, InHand
  <2> QED
    BY <2>2, <2>3, <2>4 DEF Remembered
<1> QED
  BY <1>1, <1>5, <1>6, <1>7 DEF Once

LEMMA EndStep == ASSUME DigestInv, NEW s \in Sweeps, EndSweep(s) PROVE DigestInv'
<1>1. DigestTypes'
  BY DEF DigestInv, DigestTypes, SweepRow, EndSweep, NoSweep, world
<1> QED
  BY <1>1, PutDown DEF DigestInv, DigestTypes, SweepRow, EndSweep, NoSweep

LEMMA FailStep == ASSUME DigestInv, NEW s \in Sweeps, QueryFails(s) PROVE DigestInv'
<1>1. /\ sweep' \in [Sweeps -> SweepRow] /\ sweep'[s].pc = "tenants"
      /\ \A r \in Sweeps \ {s} : sweep'[r] = sweep[r]
  BY GotoType DEF DigestInv, QueryFails
<1>2. DigestTypes'
  BY <1>1 DEF DigestInv, DigestTypes, QueryFails, world
<1> QED
  BY <1>1, <1>2, PutDown DEF QueryFails, Unstored

LEMMA CrashStep == ASSUME DigestInv, Crash PROVE DigestInv'
<1>1. DigestTypes'
  BY DEF DigestInv, DigestTypes, SweepRow, Crash, NoSweep
<1> SUFFICES ASSUME NEW t \in Tenants, NEW d \in Dates, <<t, d>> \notin repeatable'
             PROVE  Once(t, d)'
  BY <1>1 DEF DigestInv
<1>2. Once(t, d) /\ \A s \in Sweeps : ~Storing(s, t, d)
  BY DEF Crash, Unstored, DigestInv, Storing, InHand
<1>3. \A s \in Sweeps : ~InHand(s, t, d)'
  BY DEF Crash, NoSweep, InHand
<1>4. sent' = sent /\ lastSent' = lastSent
  BY DEF Crash
<1> QED
  BY <1>2, <1>3, <1>4 DEF Once, Remembered

LEMMA NextDigest == DigestInv /\ [DigestNext]_digestVars => DigestInv'
<1> SUFFICES ASSUME DigestInv, [DigestNext]_digestVars PROVE DigestInv'
  OBVIOUS
<1>1. CASE UNCHANGED digestVars
  BY <1>1, WorldStep DEF digestVars, scheduler, DigestInv, DigestTypes, SweepRow
<1>2. CASE Tick \/ Restart
  BY <1>2, WorldStep DEF Tick, Restart, DigestInv, DigestTypes, SweepRow
<1>3. ASSUME NEW t \in Tenants, RadarChanges(t) \/ UpdateConfig(t) \/ ChangeStatus(t)
      PROVE  DigestInv'
  BY <1>3, WorldStep DEF RadarChanges, UpdateConfig, ChangeStatus, DigestInv, DigestTypes, SweepRow
<1>4. ASSUME NEW s \in Sweeps, BeginSweep(s) \/ SweepStep(s) \/ QueryFails(s) PROVE DigestInv'
  BY <1>4, BeginSweepStep, SkipStep, CheckStep, QuietSweepStep, DispatchStep, StoreStep, EndStep,
     FailStep
     DEF SweepStep
<1> QED
  BY <1>1, <1>2, <1>3, <1>4, CrashStep DEF DigestNext

\* The digest of a date is sent at most once to a tenant unless something excused
\* it, however many sweeps overlap, whatever fails and however late a sweep runs.
THEOREM DigestSafety == DigestSpec => []RepeatedOnlyWhenExcused
<1>1. DigestInv => RepeatedOnlyWhenExcused
  BY DEF DigestInv, DigestTypes, Once, RepeatedOnlyWhenExcused
<1> QED
  BY <1>1, InitDigest, NextDigest, PTL DEF DigestSpec
===============================================================================
