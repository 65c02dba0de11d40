------------------------------ MODULE Registers ------------------------------
(* Handlers that replace what is on record in more than one statement:       *)
(* AssetsService.assign closes the open assignment and opens another,        *)
(* UsersService.update deletes the roles of a user and inserts others,       *)
(* UsersService.deleteRole counts a role's users and then deletes it, and    *)
(* BudgetService.upsertBudget looks for a budget before it creates one.      *)
EXTENDS Naturals, FiniteSets, FiniteSetsExt

CONSTANTS
    Assets, Faenas,
    Users, Roles,
    SystemRoles,  \* ADMIN_SISTEMA and SUPER_USUARIO
    Scopes,       \* faena, cost centre, year and month of a budget
    FullScopes,   \* those with both a cost centre and a month
    Amounts,
    Calls,        \* requests served at once
    MaxCalls,     \* bound: requests served
    NULL

ASSUME ScopesAssumption == FullScopes \subseteq Scopes /\ SystemRoles \subseteq Roles
ASSUME AmountsAssumption == Amounts \subseteq Nat
ASSUME RecordsAssumption == Assets \cap Users = {} /\ Assets \cap Scopes = {} /\ Users \cap Scopes = {}
ASSUME BoundAssumption == MaxCalls \in Nat

AssignCall == [op: {"assign"}, of: Assets, faena: Faenas]
UpdateCall == [op: {"update"}, of: Users, roleIds: SUBSET Roles]
DeleteCall == [op: {"delete"}, of: Roles]
BudgetCall == [op: {"budget"}, of: Scopes, amount: Amounts]

VARIABLES
    assigned,     \* open assignments of each asset
    role,         \* roles there are
    roles,        \* rows of UserRole, by user
    budget,       \* rows of Budget, by scope
    call,         \* requests being served, with what they read
    begun,
    version,      \* history: writes of each record
    given,        \* history: what the last request that succeeded asked for
    overlapped    \* history: records written by a request that had not seen the last write

rows == <<assigned, role, roles, budget>>
history == <<version, given, overlapped>>
vars == <<rows, call, begun, history>>

Records == Assets \cup Users \cup Scopes
NoCall == [pc |-> "idle", id |-> 0, req |-> NULL, version |-> 0, seen |-> {}]

Init ==
    /\ assigned = [a \in Assets |-> {}]
    /\ role = Roles
    /\ roles \in [Users -> SUBSET Roles]
    /\ budget = [s \in Scopes |-> {}]
    /\ call = [c \in Calls |-> NoCall]
    /\ begun = 0
    /\ version = [x \in Records |-> 0]
    /\ given = [x \in Records |-> IF x \in Users THEN roles[x] ELSE {}]
    /\ overlapped = {}

-----------------------------------------------------------------------------

Begin(c, r, pc, seen) ==
    /\ call[c].pc = "idle" /\ begun < MaxCalls
    /\ begun' = begun + 1
    /\ call' = [call EXCEPT ![c] = [pc |-> pc, id |-> begun + 1, req |-> r, seen |-> seen,
                                    version |-> IF r.of \in Records THEN version[r.of] ELSE 0]]

At(c, pc) == call[c].pc = pc
End(c) == call' = [call EXCEPT ![c] = NoCall]

\* The request of c is the last to write its record.
Wrote(c, asked) ==
    LET x == call[c].req.of IN
      /\ version' = [version EXCEPT ![x] = @ + 1]
      /\ given' = [given EXCEPT ![x] = asked]
      /\ overlapped' = IF version[x] # call[c].version THEN overlapped \cup {x} ELSE overlapped

\* CloseOpen that closes nothing.
CloseNone(c) == \E r \in AssignCall :
    /\ Begin(c, r, "closed", {})
    /\ UNCHANGED <<rows, history>>

\* assign: the open assignments are closed in one statement,
CloseOpen(c) == \E r \in AssignCall :
    /\ Begin(c, r, "closed", {})
    /\ assigned' = [assigned EXCEPT ![r.of] = {}]
    /\ UNCHANGED <<role, roles, budget, history>>

\* and the new one is created in another.
OpenNew(c) ==
    /\ At(c, "closed")
    /\ LET r == call[c].req IN
         /\ assigned' = [assigned EXCEPT ![r.of] = @ \cup {[id |-> call[c].id, faena |-> r.faena]}]
         /\ Wrote(c, {r.faena})
    /\ End(c)
    /\ UNCHANGED <<role, roles, budget, begun>>

\* update: deleteMany takes the rows its snapshot shows, after waiting for their locks.
TakeRoles(c) == \E r \in UpdateCall :
    /\ Begin(c, r, "taken", roles[r.of])
    /\ UNCHANGED <<rows, history>>

Kept(c) == roles[call[c].req.of] \ call[c].seen

\* createMany: a role that is gone or a row that is there fails the transaction.
GiveRoles(c) ==
    /\ At(c, "taken")
    /\ LET r == call[c].req IN
         /\ r.roleIds \subseteq role /\ Kept(c) \cap r.roleIds = {}
         /\ roles' = [roles EXCEPT ![r.of] = Kept(c) \cup r.roleIds]
         /\ Wrote(c, r.roleIds)
    /\ End(c)
    /\ UNCHANGED <<assigned, role, budget, begun>>

Holders(r) == {u \in Users : r \in roles[u]}

\* CountUsers without the refusal of a role in use.
CountUsersUnchecked(c) == \E r \in DeleteCall :
    /\ r.of \in role \ SystemRoles
    /\ Begin(c, r, "counted", Holders(r.of))
    /\ UNCHANGED <<rows, history>>

\* deleteRole refuses a system role and one that has users.
CountUsers(c) == \E r \in DeleteCall :
    /\ r.of \in role \ SystemRoles
    /\ Holders(r.of) = {}
    /\ Begin(c, r, "counted", {})
    /\ UNCHANGED <<rows, history>>

\* DeleteRole when the rows of UserRole stay.
DeleteRoleAlone(c) ==
    /\ At(c, "counted")
    /\ role' = role \ {call[c].req.of}
    /\ End(c)
    /\ UNCHANGED <<assigned, roles, budget, begun, history>>

\* The rows of UserRole go with the role (onDelete: Cascade).
DeleteRole(c) ==
    /\ At(c, "counted")
    /\ LET r == call[c].req.of IN
         /\ r \in role
         /\ role' = role \ {r}
         /\ roles' = [u \in Users |-> roles[u] \ {r}]
         /\ overlapped' = overlapped \cup (Holders(r) \ call[c].seen)
    /\ End(c)
    /\ UNCHANGED <<assigned, budget, begun, version, given>>

\* FindBudget that looks for a month nobody gave.
FindNoBudget(c) == \E r \in BudgetCall :
    /\ Begin(c, r, "found", {})
    /\ UNCHANGED <<rows, history>>

\* upsertBudget: findFirst finds any one row of the scope, or none.
FindBudget(c) == \E r \in BudgetCall :
    /\ \/ budget[r.of] = {} /\ Begin(c, r, "found", {})
       \/ \E b \in budget[r.of] : Begin(c, r, "found", {b.id})
    /\ UNCHANGED <<rows, history>>

UpdateBudget(c) ==
    /\ At(c, "found") /\ call[c].seen # {}
    /\ LET r == call[c].req IN
         /\ budget' = [budget EXCEPT ![r.of] =
                         {IF b.id \in call[c].seen THEN [b EXCEPT !.amount = r.amount] ELSE b : b \in @}]
         /\ Wrote(c, {r.amount})
    /\ End(c)
    /\ UNCHANGED <<assigned, role, roles, begun>>

\* The unique key takes a null for different from any null: it binds full scopes only.
Unique(s) == s \in FullScopes => budget[s] = {}

CreateBudget(c) ==
    /\ At(c, "found") /\ call[c].seen = {}
    /\ LET r == call[c].req IN
         /\ Unique(r.of)
         /\ budget' = [budget EXCEPT ![r.of] = @ \cup {[id |-> call[c].id, amount |-> r.amount]}]
         /\ Wrote(c, {r.amount})
    /\ End(c)
    /\ UNCHANGED <<assigned, role, roles, begun>>

\* A constraint, an error or a crash: assign leaves its first statement behind.
Fail(c) ==
    /\ call[c].pc # "idle"
    /\ End(c)
    /\ UNCHANGED <<rows, begun, history>>

Next == \E c \in Calls :
    \/ CloseOpen(c) \/ OpenNew(c)
    \/ TakeRoles(c) \/ GiveRoles(c) \/ CountUsers(c) \/ DeleteRole(c)
    \/ FindBudget(c) \/ UpdateBudget(c) \/ CreateBudget(c)
    \/ Fail(c)

Spec == Init /\ [][Next]_vars

\* getBudgetSummary: what a scope has to spend.
BudgetTotal(s) == MapThenSumSet(LAMBDA b : b.amount, budget[s])

-----------------------------------------------------------------------------
(* Properties *)

\* Every variable keeps its type, and users hold roles there are.
TypeOK ==
    /\ \A a \in Assets : \A x \in assigned[a] : x.faena \in Faenas /\ x.id \in 1..MaxCalls
    /\ SystemRoles \subseteq role /\ role \subseteq Roles
    /\ roles \in [Users -> SUBSET role]
    /\ \A s \in Scopes : \A b \in budget[s] : b.amount \in Amounts /\ b.id \in 1..MaxCalls
    /\ \A c \in Calls : call[c].pc \in {"idle", "closed", "taken", "counted", "found"}
    /\ overlapped \subseteq Records

\* An asset works in one faena at a time, unless two assignments of it overlapped.
AssignedToOneFaena == \A a \in Assets \ overlapped : Cardinality(assigned[a]) <= 1

\* A user has exactly the roles the last request gave, through updates, deleted
\* roles and failed transactions, unless two updates of the user overlapped or
\* one gave a role that was being deleted.
RolesAsGiven == \A u \in Users \ overlapped : roles[u] = given[u]

\* The summary counts the last amount set for a scope, once, unless two upserts
\* overlapped; a scope with a month and a cost centre never has two budgets.
BudgetCountedOnce ==
    \A s \in Scopes : /\ s \notin overlapped => \A amount \in given[s] : BudgetTotal(s) = amount
                      /\ s \in FullScopes => Cardinality(budget[s]) <= 1
=============================================================================
