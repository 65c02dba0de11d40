-------------------------- MODULE Registers_proofs --------------------------
(***************************************************************************)
(* What Registers guarantees for any assets, users, roles and budgets, and *)
(* any number of requests that overlap.                                    *)
(***************************************************************************)
EXTENDS Registers, FiniteSetTheorems, TLAPS

Request == AssignCall \cup UpdateCall \cup DeleteCall \cup BudgetCall
Id == 1..MaxCalls
Assignment == [id: Id, faena: Faenas]
BudgetRow == [id: Id, amount: Amounts]
CallRecord == [pc: {"idle", "closed", "taken", "counted", "found"}, id: 0..MaxCalls,
               req: Request \cup {NULL}, version: Nat, seen: SUBSET (Roles \cup Id)]

Typed ==
    /\ assigned \in [Assets -> SUBSET Assignment]
    /\ SystemRoles \subseteq role /\ role \subseteq Roles
    /\ roles \in [Users -> SUBSET role]
    /\ budget \in [Scopes -> SUBSET BudgetRow]
    /\ call \in [Calls -> CallRecord]
    /\ begun \in Nat
    /\ version \in [Records -> Nat]
    /\ given \in [Records -> SUBSET (Roles \cup Faenas \cup Amounts)]
    /\ overlapped \subseteq Records

UnwrittenSince(c) == call[c].version = version[call[c].req.of]
Single(S) == \A x, y \in S : x = y

\* What a request under way asked for, and where it started from.
Asked(c) ==
    /\ call[c].pc # "idle" => call[c].id \in Id
    /\ call[c].pc = "closed" => call[c].req \in AssignCall
    /\ call[c].pc = "taken" => call[c].req \in UpdateCall
    /\ call[c].pc = "counted" =>
          call[c].req \in DeleteCall /\ call[c].req.of \notin SystemRoles /\ call[c].seen = {}
    /\ call[c].pc = "found" => /\ call[c].req \in BudgetCall
                               /\ call[c].seen # {} => budget[call[c].req.of] # {}
    /\ call[c].pc \in {"closed", "taken", "found"} => call[c].version <= version[call[c].req.of]

\* A record that nobody has written since a request started holds no more than what
\* the request left or saw: no assignment, no role it has not taken, no other budget.
Current(c) ==
    UnwrittenSince(c) =>
        /\ call[c].pc = "closed" => assigned[call[c].req.of] = {}
        /\ call[c].pc = "taken" => roles[call[c].req.of] \subseteq call[c].seen
        /\ call[c].pc = "found" /\ call[c].req.of \notin overlapped =>
              \A b \in budget[call[c].req.of] : b.id \in call[c].seen

OneAssignment == \A a \in Assets \ overlapped : Single(assigned[a])

\* The budget of a scope is one row with the last amount given.
OneBudget(s) ==
    /\ s \notin overlapped => /\ Single(budget[s])
                              /\ given[s] # {} => budget[s] # {}
                              /\ \A b \in budget[s], m \in given[s] : b.amount = m
    /\ s \in FullScopes => Single(budget[s])

\* The inductive invariant.
IInv ==
    /\ Typed
    /\ \A c \in Calls : Asked(c) /\ Current(c)
    /\ OneAssignment
    /\ RolesAsGiven
    /\ \A s \in Scopes : OneBudget(s)

-----------------------------------------------------------------------------
LEMMA InitIInv == Init => IInv
<1> SUFFICES ASSUME Init PROVE IInv
  OBVIOUS
<1>1. Typed
  BY ScopesAssumption, BoundAssumption DEF Init, Typed, NoCall, CallRecord, Records
<1>2. \A c \in Calls : Asked(c) /\ Current(c)
  BY DEF Init, Asked, Current, NoCall
<1>3. OneAssignment /\ RolesAsGiven
  BY DEF Init, OneAssignment, Single, RolesAsGiven, Records
<1>4. \A s \in Scopes : OneBudget(s)
  BY RecordsAssumption DEF Init, OneBudget, Single, Records
<1> QED
  BY <1>1, <1>2, <1>3, <1>4 DEF IInv

LEMMA RequestFields ==
    /\ \A r \in AssignCall : r.of \in Assets /\ r.faena \in Faenas
    /\ \A r \in UpdateCall : r.of \in Users /\ r.roleIds \subseteq Roles
    /\ \A r \in DeleteCall : r.of \in Roles
    /\ \A r \in BudgetCall : r.of \in Scopes /\ r.amount \in Amounts
    /\ Request = AssignCall \cup UpdateCall \cup DeleteCall \cup BudgetCall
    /\ Assets \subseteq Records /\ Users \subseteq Records /\ Scopes \subseteq Records
  BY DEF AssignCall, UpdateCall, DeleteCall, BudgetCall, Request, Records

\* A request begins: the other requests know what they knew.
LEMMA BeginStep ==
    ASSUME IInv, NEW c \in Calls, NEW r \in Request,
           NEW pc \in {"closed", "taken", "counted", "found"}, NEW seen \in SUBSET (Roles \cup Id),
           Begin(c, r, pc, seen), UNCHANGED <<role, roles, budget, history>>,
           \/ assigned' = assigned
           \/ \E a \in Assets : assigned' = [assigned EXCEPT ![a] = {}],
           pc = "closed" => r \in AssignCall /\ assigned'[r.of] = {},
           pc = "taken" => r \in UpdateCall /\ seen = roles[r.of],
           pc = "counted" => r \in DeleteCall /\ r.of \notin SystemRoles /\ seen = {},
           pc = "found" => /\ r \in BudgetCall
                           /\ seen # {} => budget[r.of] # {}
                           /\ r.of \notin overlapped => \A b \in budget[r.of] : b.id \in seen
    PROVE  IInv'
<1> DEFINE rec == [pc |-> pc, id |-> begun + 1, req |-> r, seen |-> seen,
                   version |-> IF r.of \in Records THEN version[r.of] ELSE 0]
<1>1. call' = [call EXCEPT ![c] = rec] /\ begun' = begun + 1 /\ begun < MaxCalls
  BY DEF Begin
<1>2. UNCHANGED <<role, roles, budget, version, given, overlapped>>
  BY DEF history
<1>3. begun' \in Id
  BY <1>1, BoundAssumption DEF IInv, Typed, Id
<1>4. (IF r.of \in Records THEN version[r.of] ELSE 0) \in Nat
  BY DEF IInv, Typed
<1>5. rec \in CallRecord /\ rec.pc = pc /\ rec.req = r /\ rec.seen = seen /\ rec.id \in Id
      /\ rec.version = IF r.of \in Records THEN version[r.of] ELSE 0
  BY <1>1, <1>3, <1>4 DEF CallRecord, Id
<1> HIDE DEF rec
<1>6. call' \in [Calls -> CallRecord] /\ call'[c] = rec /\ \A d \in Calls \ {c} : call'[d] = call[d]
  BY <1>1, <1>5 DEF IInv, Typed
<1>7. /\ assigned' \in [Assets -> SUBSET Assignment]
      /\ \A a \in Assets : assigned'[a] \subseteq assigned[a]
  BY DEF IInv, Typed
<1>8. Typed'
  BY <1>1, <1>2, <1>6, <1>7 DEF IInv, Typed
<1>9. \A d \in Calls : Asked(d)'
  <2>1. Asked(c)'
    BY <1>2, <1>4, <1>5, <1>6, RequestFields DEF Asked
  <2> QED
    BY <1>2, <1>6, <2>1 DEF IInv, Asked
<1>10. \A d \in Calls : Current(d)'
  <2>1. Current(c)'
    BY <1>2, <1>5, <1>6 DEF Current
  <2>2. ASSUME NEW d \in Calls \ {c} PROVE Current(d)'
    <3>1. call'[d] = call[d] /\ Current(d) /\ Asked(d)
      BY <1>6 DEF IInv
    <3>2. call[d].pc = "closed" => call[d].req.of \in Assets
      BY <3>1, RequestFields DEF Asked
    <3> QED
      BY <1>2, <1>7, <3>1, <3>2 DEF Current, UnwrittenSince
  <2> QED
    BY <2>1, <2>2
<1>11. OneAssignment' /\ RolesAsGiven' /\ \A s \in Scopes : OneBudget(s)'
  BY <1>2, <1>7 DEF IInv, OneAssignment, RolesAsGiven, OneBudget, Single
<1> QED
  BY <1>8, <1>9, <1>10, <1>11 DEF IInv

LEMMA AssignBegins == ASSUME IInv, NEW c \in Calls, CloseOpen(c) PROVE IInv'
<1>1. PICK r \in AssignCall :
        /\ Begin(c, r, "closed", {})
        /\ assigned' = [assigned EXCEPT ![r.of] = {}]
        /\ UNCHANGED <<role, roles, budget, history>>
  BY DEF CloseOpen
<1>2. r \in Request /\ r.of \in Assets /\ assigned'[r.of] = {}
  BY <1>1, RequestFields DEF IInv, Typed
<1> QED
  BY <1>1, <1>2, BeginStep

LEMMA UpdateBegins == ASSUME IInv, NEW c \in Calls, TakeRoles(c) PROVE IInv'
<1>1. PICK r \in UpdateCall : Begin(c, r, "taken", roles[r.of]) /\ UNCHANGED <<rows, history>>
  BY DEF TakeRoles
<1>2. r \in Request /\ roles[r.of] \in SUBSET (Roles \cup Id)
  BY <1>1, RequestFields DEF IInv, Typed
<1> QED
  BY <1>1, <1>2, BeginStep DEF rows

LEMMA DeleteBegins == ASSUME IInv, NEW c \in Calls, CountUsers(c) PROVE IInv'
<1>1. PICK r \in DeleteCall :
        r.of \notin SystemRoles /\ Begin(c, r, "counted", {}) /\ UNCHANGED <<rows, history>>
  BY DEF CountUsers
<1>2. r \in Request
  BY <1>1, RequestFields
<1> QED
  BY <1>1, <1>2, BeginStep DEF rows

LEMMA BudgetBegins == ASSUME IInv, NEW c \in Calls, FindBudget(c) PROVE IInv'
<1>1. PICK r, seen :
        /\ r \in BudgetCall
        /\ \/ seen = {} /\ budget[r.of] = {}
           \/ \E b \in budget[r.of] : seen = {b.id}
        /\ Begin(c, r, "found", seen) /\ UNCHANGED <<rows, history>>
  BY DEF FindBudget
<1>2. r \in Request /\ r.of \in Scopes
  BY <1>1, RequestFields
<1>3. /\ seen \in SUBSET (Roles \cup Id)
      /\ seen # {} => budget[r.of] # {}
  BY <1>1, <1>2 DEF IInv, Typed, BudgetRow
<1>4. r.of \notin overlapped => \A b \in budget[r.of] : b.id \in seen
  BY <1>1, <1>2 DEF IInv, OneBudget, Single
<1> QED
  BY <1>1, <1>2, <1>3, <1>4, BeginStep DEF rows

-----------------------------------------------------------------------------
(* Writes *)

\* A request ends: the others know what they knew of the records it leaves alone.
LEMMA EndStep ==
    ASSUME IInv, NEW c \in Calls, End(c), Typed', NEW W \in SUBSET Records,
           \A y \in W : version'[y] = version[y] + 1,
           \A y \in Records \ W : version'[y] = version[y],
           overlapped \subseteq overlapped',
           \A a \in Assets \ W : assigned'[a] = assigned[a],
           \A u \in Users \ W : roles'[u] \subseteq roles[u],
           \A s \in Scopes \ W : budget'[s] = budget[s],
           \A s \in Scopes : budget[s] # {} => budget'[s] # {}
    PROVE  \A d \in Calls : Asked(d)' /\ Current(d)'
<1>1. /\ call'[c].pc = "idle"
      /\ \A d \in Calls \ {c} : call'[d] = call[d]
  BY DEF IInv, Typed, End, NoCall
<1>2. Asked(c)' /\ Current(c)'
  BY <1>1 DEF Asked, Current
<1>3. ASSUME NEW d \in Calls \ {c} PROVE Asked(d)' /\ Current(d)'
  <2>1. call'[d] = call[d] /\ Asked(d) /\ Current(d) /\ call[d].version \in Nat
    BY <1>1 DEF IInv, Typed, CallRecord
  <2>2. /\ call[d].pc = "closed" => call[d].req.of \in Assets
        /\ call[d].pc = "taken" => call[d].req.of \in Users
        /\ call[d].pc = "found" => call[d].req.of \in Scopes
    BY <2>1, RequestFields DEF Asked
  <2>3. \A y \in Records : version[y] \in Nat /\ version'[y] \in Nat /\ version[y] <= version'[y]
    BY DEF IInv, Typed
  <2>4. Asked(d)'
    BY <2>1, <2>2, <2>3, RequestFields DEF Asked
  <2>5. Current(d)'
    <3> SUFFICES ASSUME UnwrittenSince(d)', call[d].pc \in {"closed", "taken", "found"}
                 PROVE  /\ call[d].pc = "closed" => assigned'[call[d].req.of] = {}
                        /\ call[d].pc = "taken" => roles'[call[d].req.of] \subseteq call[d].seen
                        /\ call[d].pc = "found" /\ call[d].req.of \notin overlapped' =>
                              \A b \in budget'[call[d].req.of] : b.id \in call[d].seen
      BY <2>1 DEF Current
    <3>1. PICK y \in Records : y = call[d].req.of
      BY <2>2, RequestFields
    <3>2. version'[y] = version[y] /\ UnwrittenSince(d)
      BY <2>1, <2>3, <3>1 DEF UnwrittenSince, Asked
    <3>3. y \notin W
      BY <2>3, <3>2
    <3> QED
      BY <2>1, <2>2, <3>1, <3>2, <3>3 DEF Current
  <2> QED
    BY <2>4, <2>5
<1> QED
  BY <1>2, <1>3

\* What Wrote leaves of the histories.
LEMMA WroteFacts ==
    ASSUME IInv, NEW c \in Calls, NEW asked \in SUBSET (Roles \cup Faenas \cup Amounts),
           NEW x \in Records, call[c].req.of = x, Wrote(c, asked)
    PROVE  /\ version' \in [Records -> Nat] /\ version'[x] = version[x] + 1
           /\ \A y \in Records \ {x} : version'[y] = version[y] /\ given'[y] = given[y]
           /\ given' \in [Records -> SUBSET (Roles \cup Faenas \cup Amounts)] /\ given'[x] = asked
           /\ overlapped' \subseteq Records /\ overlapped \subseteq overlapped'
           /\ \A y \in Records \ {x} : y \in overlapped' <=> y \in overlapped
           /\ x \notin overlapped' => UnwrittenSince(c)
  BY DEF IInv, Typed, Wrote, UnwrittenSince

LEMMA EndTyped ==
    ASSUME IInv, NEW c \in Calls, End(c)
    PROVE  call' \in [Calls -> CallRecord]
  BY BoundAssumption DEF IInv, Typed, End, NoCall, CallRecord
LEMMA AssignEnds == ASSUME IInv, NEW c \in Calls, OpenNew(c) PROVE IInv'
<1>1. PICK r \in AssignCall : r = call[c].req
  BY DEF OpenNew, At, IInv, Asked
<1>2. PICK a \in Assets : a = r.of /\ a \in Records /\ r.faena \in Faenas
  BY RequestFields
<1>3. PICK id \in Id : id = call[c].id
  BY DEF OpenNew, At, IInv, Asked
<1>4. /\ assigned' = [assigned EXCEPT ![a] = @ \cup {[id |-> id, faena |-> r.faena]}]
      /\ Wrote(c, {r.faena}) /\ End(c) /\ UNCHANGED <<role, roles, budget, begun>>
  BY <1>1, <1>2, <1>3 DEF OpenNew
<1>5. /\ version' \in [Records -> Nat] /\ version'[a] = version[a] + 1
      /\ \A y \in Records \ {a} : version'[y] = version[y] /\ given'[y] = given[y]
      /\ given' \in [Records -> SUBSET (Roles \cup Faenas \cup Amounts)]
      /\ overlapped' \subseteq Records /\ overlapped \subseteq overlapped'
      /\ \A y \in Records \ {a} : y \in overlapped' <=> y \in overlapped
      /\ a \notin overlapped' => UnwrittenSince(c)
  BY <1>1, <1>2, <1>4, WroteFacts
<1>6. /\ assigned' \in [Assets -> SUBSET Assignment]
      /\ assigned'[a] = assigned[a] \cup {[id |-> id, faena |-> r.faena]}
      /\ \A b \in Assets \ {a} : assigned'[b] = assigned[b]
  BY <1>2, <1>4 DEF IInv, Typed, Assignment
<1>7. Typed'
  BY <1>4, <1>5, <1>6, EndTyped DEF IInv, Typed
<1>8. \A d \in Calls : Asked(d)' /\ Current(d)'
  <2> DEFINE W == {a}
  <2>1. /\ W \in SUBSET Records
        /\ \A y \in W : version'[y] = version[y] + 1
        /\ \A y \in Records \ W : version'[y] = version[y]
        /\ overlapped \subseteq overlapped'
        /\ \A b \in Assets \ W : assigned'[b] = assigned[b]
        /\ \A v \in Users \ W : roles'[v] \subseteq roles[v]
        /\ \A s \in Scopes \ W : budget'[s] = budget[s]
        /\ \A s \in Scopes : budget[s] # {} => budget'[s] # {}
    BY <1>2, <1>4, <1>5, <1>6
  <2> HIDE DEF W
  <2> QED
    BY <1>4, <1>7, <2>1, EndStep
<1>9. OneAssignment'
  <2>1. a \notin overlapped' => assigned[a] = {}
    BY <1>1, <1>2, <1>5 DEF OpenNew, At, IInv, Current
  <2> QED
    BY <1>2, <1>5, <1>6, <2>1, RequestFields DEF IInv, OneAssignment, Single
<1>10. RolesAsGiven' /\ \A s \in Scopes : OneBudget(s)'
  BY <1>2, <1>4, <1>5, RequestFields, RecordsAssumption DEF IInv, RolesAsGiven, OneBudget
<1> QED
  BY <1>7, <1>8, <1>9, <1>10 DEF IInv

LEMMA UpdateEnds == ASSUME IInv, NEW c \in Calls, GiveRoles(c) PROVE IInv'
<1>1. PICK r \in UpdateCall : r = call[c].req
  BY DEF GiveRoles, At, IInv, Asked
<1>2. PICK u \in Users : u = r.of /\ u \in Records
  BY RequestFields
<1>3. PICK kept \in SUBSET role : kept = Kept(c) /\ kept = roles[u] \ call[c].seen
  BY <1>1, <1>2 DEF Kept, IInv, Typed
<1>4. /\ r.roleIds \subseteq role
      /\ roles' = [roles EXCEPT ![u] = kept \cup r.roleIds]
      /\ Wrote(c, r.roleIds) /\ End(c) /\ UNCHANGED <<assigned, role, budget, begun>>
  BY <1>1, <1>2, <1>3 DEF GiveRoles
<1>5. /\ version' \in [Records -> Nat] /\ version'[u] = version[u] + 1
      /\ \A y \in Records \ {u} : version'[y] = version[y] /\ given'[y] = given[y]
      /\ given' \in [Records -> SUBSET (Roles \cup Faenas \cup Amounts)]
      /\ given'[u] = r.roleIds
      /\ overlapped' \subseteq Records /\ overlapped \subseteq overlapped'
      /\ \A y \in Records \ {u} : y \in overlapped' <=> y \in overlapped
      /\ u \notin overlapped' => UnwrittenSince(c)
  <2>1. r.roleIds \in SUBSET (Roles \cup Faenas \cup Amounts)
    BY RequestFields
  <2> QED
    BY <1>1, <1>2, <1>4, <2>1, WroteFacts
<1>6. /\ roles' \in [Users -> SUBSET role]
      /\ roles'[u] = kept \cup r.roleIds
      /\ \A v \in Users \ {u} : roles'[v] = roles[v]
  BY <1>2, <1>4 DEF IInv, Typed
<1>7. Typed'
  BY <1>4, <1>5, <1>6, EndTyped DEF IInv, Typed
<1>8. \A d \in Calls : Asked(d)' /\ Current(d)'
  <2> DEFINE W == {u}
  <2>1. /\ W \in SUBSET Records
        /\ \A y \in W : version'[y] = version[y] + 1
        /\ \A y \in Records \ W : version'[y] = version[y]
        /\ overlapped \subseteq overlapped'
        /\ \A b \in Assets \ W : assigned'[b] = assigned[b]
        /\ \A v \in Users \ W : roles'[v] \subseteq roles[v]
        /\ \A s \in Scopes \ W : budget'[s] = budget[s]
        /\ \A s \in Scopes : budget[s] # {} => budget'[s] # {}
    BY <1>2, <1>4, <1>5, <1>6
  <2> HIDE DEF W
  <2> QED
    BY <1>4, <1>7, <2>1, EndStep
<1>9. RolesAsGiven'
  <2>1. u \notin overlapped' => kept = {}
    BY <1>1, <1>2, <1>3, <1>5 DEF GiveRoles, At, IInv, Current
  <2> QED
    BY <1>2, <1>5, <1>6, <2>1, RequestFields DEF IInv, RolesAsGiven
<1>10. OneAssignment' /\ \A s \in Scopes : OneBudget(s)'
  BY <1>2, <1>4, <1>5, RequestFields, RecordsAssumption DEF IInv, OneAssignment, OneBudget
<1> QED
  BY <1>7, <1>8, <1>9, <1>10 DEF IInv

LEMMA DeleteEnds == ASSUME IInv, NEW c \in Calls, DeleteRole(c) PROVE IInv'
<1>1. PICK r : /\ r = call[c].req.of /\ r \notin SystemRoles
               /\ call[c].seen = {}
  BY DEF DeleteRole, At, IInv, Asked
<1>2. /\ role' = role \ {r} /\ roles' = [u \in Users |-> roles[u] \ {r}]
      /\ overlapped' = overlapped \cup Holders(r)
      /\ End(c) /\ UNCHANGED <<assigned, budget, begun, version, given>>
  BY <1>1 DEF DeleteRole
<1>3. Typed'
  <2>1. overlapped' \subseteq Records
    BY <1>2 DEF Holders, IInv, Typed, Records
  <2>2. roles' \in [Users -> SUBSET role']
    BY <1>2 DEF IInv, Typed
  <2> QED
    BY <1>1, <1>2, <2>1, <2>2, EndTyped DEF IInv, Typed
<1>4. \A d \in Calls : Asked(d)' /\ Current(d)'
  <2> DEFINE W == {}
  <2>1. /\ W \in SUBSET Records
        /\ \A y \in W : version'[y] = version[y] + 1
        /\ \A y \in Records \ W : version'[y] = version[y]
        /\ overlapped \subseteq overlapped'
        /\ \A b \in Assets \ W : assigned'[b] = assigned[b]
        /\ \A v \in Users \ W : roles'[v] \subseteq roles[v]
        /\ \A s \in Scopes \ W : budget'[s] = budget[s]
        /\ \A s \in Scopes : budget[s] # {} => budget'[s] # {}
    BY <1>2 DEF IInv, Typed
  <2> HIDE DEF W
  <2> QED
    BY <1>2, <1>3, <2>1, EndStep
<1>5. RolesAsGiven'
  BY <1>2 DEF IInv, RolesAsGiven, Holders
<1>6. OneAssignment' /\ \A s \in Scopes : OneBudget(s)'
  BY <1>2 DEF IInv, OneAssignment, OneBudget
<1> QED
  BY <1>3, <1>4, <1>5, <1>6 DEF IInv
\* A budget written by a request that knows the scope is the one budget of it.
LEMMA BudgetWritten ==
    ASSUME IInv, NEW c \in Calls, call[c].pc = "found", End(c),
           NEW s \in Scopes, call[c].req.of = s, NEW m \in Amounts, Wrote(c, {m}),
           UNCHANGED <<assigned, role, roles, begun>>,
           budget' \in [Scopes -> SUBSET BudgetRow], budget'[s] # {},
           \A t \in Scopes \ {s} : budget'[t] = budget[t],
           s \notin overlapped /\ UnwrittenSince(c) =>
               Single(budget'[s]) /\ \A b \in budget'[s] : b.amount = m,
           s \in FullScopes => Single(budget'[s])
    PROVE  IInv'
<1>1. s \in Records
  BY RequestFields
<1>2. /\ version' \in [Records -> Nat] /\ version'[s] = version[s] + 1
      /\ \A y \in Records \ {s} : version'[y] = version[y] /\ given'[y] = given[y]
      /\ given' \in [Records -> SUBSET (Roles \cup Faenas \cup Amounts)] /\ given'[s] = {m}
      /\ overlapped' \subseteq Records /\ overlapped \subseteq overlapped'
      /\ \A y \in Records \ {s} : y \in overlapped' <=> y \in overlapped
      /\ s \notin overlapped' => UnwrittenSince(c)
  <2>1. {m} \in SUBSET (Roles \cup Faenas \cup Amounts)
    OBVIOUS
  <2> QED
    BY <1>1, <2>1, WroteFacts
<1>3. Typed'
  BY <1>2, EndTyped DEF IInv, Typed
<1>4. \A d \in Calls : Asked(d)' /\ Current(d)'
  <2> DEFINE W == {s}
  <2>1. /\ W \in SUBSET Records
        /\ \A y \in W : version'[y] = version[y] + 1
        /\ \A y \in Records \ W : version'[y] = version[y]
        /\ overlapped \subseteq overlapped'
        /\ \A b \in Assets \ W : assigned'[b] = assigned[b]
        /\ \A v \in Users \ W : roles'[v] \subseteq roles[v]
        /\ \A t \in Scopes \ W : budget'[t] = budget[t]
        /\ \A t \in Scopes : budget[t] # {} => budget'[t] # {}
    BY <1>1, <1>2
  <2> HIDE DEF W
  <2> QED
    BY <1>3, <2>1, EndStep
<1>5. \A t \in Scopes : OneBudget(t)'
  BY <1>1, <1>2, RequestFields DEF IInv, OneBudget
<1>6. OneAssignment' /\ RolesAsGiven'
  BY <1>1, <1>2, RequestFields, RecordsAssumption DEF IInv, OneAssignment, RolesAsGiven
<1> QED
  BY <1>3, <1>4, <1>5, <1>6 DEF IInv

LEMMA BudgetUpdated == ASSUME IInv, NEW c \in Calls, UpdateBudget(c) PROVE IInv'
<1>1. PICK r \in BudgetCall : r = call[c].req
  BY DEF UpdateBudget, At, IInv, Asked
<1>2. PICK s \in Scopes, m \in Amounts : s = r.of /\ m = r.amount
  BY RequestFields
<1>3. PICK seen : seen = call[c].seen /\ seen # {}
  BY DEF UpdateBudget
<1> DEFINE New(b) == IF b.id \in seen THEN [b EXCEPT !.amount = m] ELSE b
<1>4. /\ budget' = [budget EXCEPT ![s] = {New(b) : b \in @}]
      /\ Wrote(c, {m}) /\ End(c) /\ UNCHANGED <<assigned, role, roles, begun>>
      /\ call[c].pc = "found" /\ budget[s] # {}
  BY <1>1, <1>2, <1>3 DEF UpdateBudget, At, IInv, Asked
<1>5. \A b \in BudgetRow : New(b) \in BudgetRow /\ (b.id \in seen => New(b).amount = m)
  BY <1>2 DEF BudgetRow
<1>6. /\ budget[s] \subseteq BudgetRow
      /\ budget'[s] = {New(b) : b \in budget[s]}
      /\ \A t \in Scopes \ {s} : budget'[t] = budget[t]
  BY <1>2, <1>4 DEF IInv, Typed
<1> HIDE DEF New
<1>7. /\ budget' \in [Scopes -> SUBSET BudgetRow] /\ budget'[s] # {}
      /\ Single(budget[s]) => Single(budget'[s])
  <2>1. budget'[s] \subseteq BudgetRow
    BY <1>5, <1>6
  <2>2. budget' \in [Scopes -> SUBSET BudgetRow]
    BY <1>2, <1>4, <1>6, <2>1 DEF IInv, Typed
  <2> QED
    BY <1>4, <1>6, <2>2 DEF Single
<1>8. s \notin overlapped /\ UnwrittenSince(c) =>
         Single(budget[s]) /\ \A b \in budget'[s] : b.amount = m
  BY <1>1, <1>2, <1>3, <1>4, <1>5, <1>6 DEF IInv, Current, OneBudget
<1> QED
  BY <1>1, <1>2, <1>4, <1>6, <1>7, <1>8, BudgetWritten DEF IInv, OneBudget

LEMMA BudgetCreated == ASSUME IInv, NEW c \in Calls, CreateBudget(c) PROVE IInv'
<1>1. PICK r \in BudgetCall : r = call[c].req
  BY DEF CreateBudget, At, IInv, Asked
<1>2. PICK s \in Scopes, m \in Amounts : s = r.of /\ m = r.amount
  BY RequestFields
<1>3. PICK id \in Id : id = call[c].id
  BY DEF CreateBudget, At, IInv, Asked
<1>4. /\ budget' = [budget EXCEPT ![s] = @ \cup {[id |-> id, amount |-> m]}]
      /\ Wrote(c, {m}) /\ End(c) /\ UNCHANGED <<assigned, role, roles, begun>>
      /\ call[c].pc = "found" /\ call[c].seen = {} /\ Unique(s)
  BY <1>1, <1>2, <1>3 DEF CreateBudget, At
<1>5. /\ budget'[s] = budget[s] \cup {[id |-> id, amount |-> m]}
      /\ \A t \in Scopes \ {s} : budget'[t] = budget[t]
      /\ budget' \in [Scopes -> SUBSET BudgetRow]
  BY <1>2, <1>4 DEF IInv, Typed, BudgetRow
<1>6. budget[s] = {} => Single(budget'[s]) /\ \A b \in budget'[s] : b.amount = m
  BY <1>5 DEF Single
<1>7. s \notin overlapped /\ UnwrittenSince(c) => budget[s] = {}
  BY <1>1, <1>2, <1>4 DEF IInv, Current
<1>8. s \in FullScopes => budget[s] = {}
  BY <1>4 DEF Unique
<1> QED
  <2>1. /\ budget'[s] # {} /\ call[c].req.of = s
        /\ s \notin overlapped /\ UnwrittenSince(c) =>
             Single(budget'[s]) /\ \A b \in budget'[s] : b.amount = m
        /\ s \in FullScopes => Single(budget'[s])
    BY <1>1, <1>2, <1>5, <1>6, <1>7, <1>8
  <2> QED
    BY <1>4, <1>5, <2>1, BudgetWritten

LEMMA FailStep == ASSUME IInv, NEW c \in Calls, Fail(c) PROVE IInv'
<1>1. End(c) /\ UNCHANGED <<rows, begun, history>>
  BY DEF Fail
<1>2. Typed'
  BY <1>1, EndTyped DEF IInv, Typed, rows, history
<1>3. \A d \in Calls : Asked(d)' /\ Current(d)'
  <2> DEFINE W == {}
  <2>1. /\ W \in SUBSET Records
        /\ \A y \in W : version'[y] = version[y] + 1
        /\ \A y \in Records \ W : version'[y] = version[y]
        /\ overlapped \subseteq overlapped'
        /\ \A b \in Assets \ W : assigned'[b] = assigned[b]
        /\ \A v \in Users \ W : roles'[v] \subseteq roles[v]
        /\ \A s \in Scopes \ W : budget'[s] = budget[s]
        /\ \A s \in Scopes : budget[s] # {} => budget'[s] # {}
    BY <1>1 DEF rows, history
  <2> HIDE DEF W
  <2> QED
    BY <1>1, <1>2, <2>1, EndStep
<1> QED
  BY <1>1, <1>2, <1>3 DEF IInv, OneAssignment, RolesAsGiven, OneBudget, rows, history

-----------------------------------------------------------------------------
(* The theorems *)

LEMMA StepIInv == IInv /\ [Next]_vars => IInv'
<1> SUFFICES ASSUME IInv, [Next]_vars PROVE IInv'
  OBVIOUS
<1>1. CASE UNCHANGED vars
  <2>1. UNCHANGED <<assigned, role, roles, budget, call, begun, version, given, overlapped>>
    BY <1>1 DEF vars, rows, history
  <2>2. Typed'
    BY <2>1 DEF IInv, Typed
  <2>3. \A c \in Calls : Asked(c)' /\ Current(c)'
    BY <2>1 DEF IInv, Asked, Current, UnwrittenSince
  <2> QED
    BY <2>1, <2>2, <2>3 DEF IInv, OneAssignment, RolesAsGiven, OneBudget
<1>2. CASE Next
  BY <1>2, AssignBegins, AssignEnds, UpdateBegins, UpdateEnds, DeleteBegins, DeleteEnds,
     BudgetBegins, BudgetUpdated, BudgetCreated, FailStep DEF Next
<1> QED
  BY <1>1, <1>2

LEMMA SpecIInv == Spec => []IInv
  BY InitIInv, StepIInv, PTL DEF Spec

\* Every variable keeps its type, and no user holds a role that was deleted.
THEOREM TypeCorrect == Spec => []TypeOK
<1>1. IInv => TypeOK
  BY DEF IInv, Typed, TypeOK, Assignment, BudgetRow, CallRecord, Id
<1> QED
  BY <1>1, SpecIInv, PTL

\* However many assignments and failures there are, an asset works in one faena
\* unless two of its assignments overlapped.
THEOREM AssignmentSafety == Spec => []AssignedToOneFaena
<1>1. IInv => AssignedToOneFaena
  <2> SUFFICES ASSUME IInv, NEW a \in Assets \ overlapped PROVE Cardinality(assigned[a]) <= 1
    BY DEF AssignedToOneFaena
  <2>1. \A x, y \in assigned[a] : x = y
    BY DEF IInv, OneAssignment, Single
  <2>2. CASE assigned[a] = {}
    BY <2>2, FS_EmptySet
  <2>3. CASE assigned[a] # {}
    <3>1. PICK x : assigned[a] = {x}
      BY <2>1, <2>3
    <3> QED
      BY <3>1, FS_Singleton
  <2> QED
    BY <2>2, <2>3
<1> QED
  BY <1>1, SpecIInv, PTL

\* However updates of users, deleted roles and failures interleave, a user has the
\* roles the last update gave, unless requests about the user overlapped.
THEOREM RoleSafety == Spec => []RolesAsGiven
<1>1. IInv => RolesAsGiven
  BY DEF IInv
<1> QED
  BY <1>1, SpecIInv, PTL

\* The total of one budget is its amount: the sum unfolds once.
LEMMA TotalOfOne ==
    ASSUME NEW b, b.amount \in Nat
    PROVE  MapThenSumSet(LAMBDA x : x.amount, {b}) = b.amount
<1> DEFINE any(s) == CHOOSE x \in s : TRUE
           Sums(f) == f = [s \in SUBSET {b} |-> IF s = {} THEN 0 ELSE any(s).amount + f[s \ {any(s)}]]
           once == [s \in SUBSET {b} |-> IF s = {} THEN 0 ELSE b.amount]
           sum == CHOOSE f : Sums(f)
<1>1. MapThenSumSet(LAMBDA x : x.amount, {b}) = sum[{b}]
  BY DEF MapThenSumSet, MapThenFoldSet
<1>2. \A s \in SUBSET {b} : s # {} => s = {b} /\ any(s) = b /\ s \ {any(s)} = {}
  OBVIOUS
<1>3. Sums(once)
  <2>1. \A s \in SUBSET {b} :
           once[s] = IF s = {} THEN 0 ELSE any(s).amount + once[s \ {any(s)}]
    BY <1>2
  <2> QED
    BY <2>1
<1>4. Sums(sum)
  <2> HIDE DEF Sums, once
  <2> QED
    BY <1>3
<1> HIDE DEF sum
<1>5. sum[{}] = 0 /\ sum[{b}] = b.amount + sum[{}]
  BY <1>2, <1>4
<1> QED
  BY <1>1, <1>5

\* Unless two upserts of a scope overlapped, the summary counts the last amount set
\* for it, once; a scope with a month and a cost centre never has two rows.
THEOREM BudgetSafety == Spec => []BudgetCountedOnce
<1>1. IInv => BudgetCountedOnce
  <2> SUFFICES ASSUME IInv, NEW s \in Scopes
               PROVE  /\ s \notin overlapped => \A amount \in given[s] : BudgetTotal(s) = amount
                      /\ s \in FullScopes => Cardinality(budget[s]) <= 1
    BY DEF BudgetCountedOnce
  <2>1. OneBudget(s)
    BY DEF IInv
  <2>2. ASSUME s \notin overlapped, NEW amount \in given[s] PROVE BudgetTotal(s) = amount
    <3>1. PICK b \in budget[s] : budget[s] = {b} /\ b.amount = amount
      BY <2>1, <2>2 DEF OneBudget, Single
    <3>2. b \in BudgetRow
      BY DEF IInv, Typed
    <3>3. b.amount \in Nat
      BY <3>2, AmountsAssumption DEF BudgetRow
    <3> QED
      BY <3>1, <3>3, TotalOfOne DEF BudgetTotal
  <2>3. ASSUME s \in FullScopes PROVE Cardinality(budget[s]) <= 1
    <3>1. Single(budget[s])
      BY <2>1, <2>3 DEF OneBudget
    <3>2. CASE budget[s] = {}
      <4>1. Cardinality(budget[s]) = 0
        BY <3>2, FS_EmptySet
      <4> QED
        BY <4>1
    <3>3. CASE budget[s] # {}
      <4>1. PICK b : budget[s] = {b}
        BY <3>1, <3>3 DEF Single
      <4>2. Cardinality({b}) = 1
        BY FS_Singleton
      <4> QED
        BY <4>1, <4>2
    <3> QED
      BY <3>2, <3>3
  <2> QED
    BY <2>2, <2>3
<1> QED
  BY <1>1, SpecIInv, PTL
=============================================================================
