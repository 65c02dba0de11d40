----------------------------- MODULE Provisioning -----------------------------
(* Companies (tenants) and the accounts of their people: TenantsService.create, *)
(* resendWelcomeEmail, resetClientAdminPassword, createBackendAdmin and remove, *)
(* UsersService.create and the isActive of UsersService.update. None of the     *)
(* handlers of TenantsService runs in a transaction: each statement is a step.  *)
EXTENDS Naturals, FiniteSets

CONSTANTS
    Slugs, Emails,
    Calls,          \* requests served at once
    MaxCalls,       \* bound: requests served
    CallerTenants,  \* tenantId in the token of the caller of remove; None without one
    NULL

None == 0
Root == 1    \* the principal company, which the migration creates

ASSUME CallerTenantsAssumption == CallerTenants \subseteq {None, Root}

VARIABLES
    tenant,      \* id of the company that has a slug, or None
    accounts,    \* rows of User
    call,        \* requests being served, with what they read
    begun,
    served,      \* history: companies whose creation with an administrator was answered
    condemned,   \* history: companies whose removal has begun
    shaken,      \* history: companies whose people another creation took, or a misled removal, or
                 \*   that took theirs from a condemned one
    misled,      \* history: companies whose removal a caller with another company asked for
    late,        \* history: accounts that joined, left or came back after a removal of their company began,
                 \*   or came back when one had put them out of it
    lost         \* history: accounts that the removal of one company took from another

history == <<served, condemned, shaken, misled, late, lost>>
vars == <<tenant, accounts, call, begun, history>>

Ids == 1..(MaxCalls + 1)
Companies == Ids
\* of: the company the account last belonged to; acted: rows that refer to the account.
Account(id, email, t, super) ==
    [id |-> id, email |-> email, tenant |-> t, of |-> t, active |-> TRUE, super |-> super, acted |-> FALSE]
NoCall == [pc |-> "idle", id |-> None, of |-> NULL, email |-> NULL, super |-> FALSE,
           seen |-> {}, caller |-> None,
           target |-> None]

Live == {tenant[s] : s \in Slugs} \ {None}
Exists(t) == t = Root \/ t \in Live
WithEmail(e) == {u \in accounts : u.email = e}
Members(t) == {u \in accounts : u.tenant = t}
Seen(c) == {u \in accounts : u.id \in call[c].seen}

Init ==
    /\ tenant = [s \in Slugs |-> None]
    /\ \E e \in Emails : accounts = {Account(Root, e, Root, FALSE)}
    /\ call = [c \in Calls |-> NoCall]
    /\ begun = 0
    /\ served = {} /\ condemned = {} /\ shaken = {} /\ misled = {} /\ late = {} /\ lost = {}

-----------------------------------------------------------------------------

At(c, pc) == call[c].pc = pc
End(c) == call' = [call EXCEPT ![c] = NoCall]
GoTo(c, pc, seen) == call' = [call EXCEPT ![c].pc = pc, ![c].seen = seen]

Begin(c, r) ==
    /\ At(c, "idle") /\ begun < MaxCalls
    /\ begun' = begun + 1
    /\ call' = [call EXCEPT ![c] = [r EXCEPT !.id = begun + 2]]

\* One row of User is rewritten.
Rewrite(u, v) == accounts' = (accounts \ {u}) \cup {v}

\* Joining t, or coming back to it, once somebody has begun to remove it; leaving
\* a company that is being removed.
Unsettles(u, t) == {u.of, t} \cap condemned # {}

(* create *)

\* The slug is looked for first,
BeginCreate(c) == \E s \in Slugs, e \in Emails \cup {NULL} :
    /\ tenant[s] = None
    /\ Begin(c, [NoCall EXCEPT !.pc = "slug", !.of = s, !.email = e])
    /\ UNCHANGED <<tenant, accounts, history>>

\* and is unique; without an administrator the company is all there is to create.
InsertTenant(c) ==
    /\ At(c, "slug") /\ tenant[call[c].of] = None
    /\ tenant' = [tenant EXCEPT ![call[c].of] = call[c].id]
    /\ IF call[c].email = NULL THEN End(c) ELSE GoTo(c, "tenant", {})
    /\ UNCHANGED <<accounts, begun, history>>

FindUser(c) ==
    /\ At(c, "tenant")
    /\ GoTo(c, "user", {u.id : u \in WithEmail(call[c].email)})
    /\ UNCHANGED <<tenant, accounts, begun, history>>

Provisioned(c, u) ==
    LET t == call[c].id IN
      /\ Exists(t)                                  \* the foreign key
      /\ served' = served \cup {t}
      /\ late' = IF Unsettles(u, t) THEN late \cup {u.id} ELSE late
      /\ shaken' = shaken \cup ({u.tenant} \ {t, None}) \cup (IF u.id \in late' THEN {t} ELSE {})
      /\ End(c)
      /\ UNCHANGED <<tenant, begun, condemned, misled, lost>>

\* MoveUser that gives the account a new password only.
MoveUserNowhere(c) == At(c, "user") /\ \E u \in Seen(c) :
    /\ Provisioned(c, u)
    /\ UNCHANGED accounts

\* An account that is there moves to the company, with the roles and the isActive it has.
MoveUser(c) == At(c, "user") /\ \E u \in Seen(c) :
    /\ Rewrite(u, [u EXCEPT !.tenant = call[c].id, !.of = call[c].id])
    /\ Provisioned(c, u)

NewUser(c) ==
    /\ At(c, "user") /\ call[c].seen = {} /\ WithEmail(call[c].email) = {}
    /\ LET u == Account(call[c].id, call[c].email, call[c].id, FALSE) IN
         /\ accounts' = accounts \cup {u}
         /\ Provisioned(c, u)

(* UsersService.create, which gives no company, and createBackendAdmin *)

BeginRegister(c) == \E e \in Emails, super \in BOOLEAN :
    /\ WithEmail(e) = {}
    /\ Begin(c, [NoCall EXCEPT !.pc = "register", !.email = e, !.super = super])
    /\ UNCHANGED <<tenant, accounts, history>>

Register(c) ==
    /\ At(c, "register") /\ WithEmail(call[c].email) = {}
    /\ accounts' = accounts \cup {Account(call[c].id, call[c].email, None, call[c].super)}
    /\ End(c)
    /\ UNCHANGED <<tenant, begun, history>>

(* resendWelcomeEmail and resetClientAdminPassword *)

\* The company's oldest account, which ages unmodelled here may be any.
BeginReset(c) == \E t \in Live \cup {Root} : \E u \in Members(t) :
    /\ Begin(c, [NoCall EXCEPT !.pc = "reset", !.seen = {u.id}])
    /\ UNCHANGED <<tenant, accounts, history>>

Activated(u, active) ==
    /\ Rewrite(u, [u EXCEPT !.active = active])
    /\ late' = IF active /\ (u.tenant # u.of \/ Unsettles(u, u.of)) THEN late \cup {u.id} ELSE late

\* The reset password comes with isActive.
Reset(c) == At(c, "reset") /\ \E u \in Seen(c) :
    /\ Activated(u, TRUE)
    /\ End(c)
    /\ UNCHANGED <<tenant, begun, served, condemned, shaken, misled, lost>>

(* remove *)

BeginRemove(c) == \E t \in Live, caller \in CallerTenants :
    /\ Begin(c, [NoCall EXCEPT !.pc = "metrics", !.of = t, !.caller = caller])
    /\ condemned' = condemned \cup {t}
    /\ misled' = IF caller = None THEN misled ELSE misled \cup {t}
    /\ UNCHANGED <<tenant, accounts, served, shaken, late, lost>>

\* ListUsers without the company in its where.
ListEveryUser(c) ==
    /\ At(c, "metrics")
    /\ GoTo(c, "remove", {u.id : u \in {v \in accounts : ~v.super}})
    /\ UNCHANGED <<tenant, accounts, begun, history>>

\* The middleware puts the caller's company in the place of the one to remove.
ListUsers(c) ==
    /\ At(c, "metrics")
    /\ LET t == IF call[c].caller = None THEN call[c].of ELSE call[c].caller IN
         GoTo(c, "remove", {u.id : u \in {v \in Members(t) : ~v.super}})
    /\ UNCHANGED <<tenant, accounts, begun, history>>

Taken(c, u) ==
    IF call[c].caller = None
    THEN /\ lost' = IF u.tenant \in {call[c].of, None} THEN lost ELSE lost \cup {u.id}
         /\ UNCHANGED shaken
    ELSE shaken' = shaken \cup ({u.tenant} \ {None}) /\ UNCHANGED lost

\* The delete fails for an account that other rows refer to, and for one that is gone.
DeleteUser(c) == At(c, "remove") /\ \E i \in call[c].seen :
    \/ \E u \in {v \in accounts : v.id = i /\ ~v.acted} :
         /\ accounts' = accounts \ {u}
         /\ Taken(c, u)
         /\ GoTo(c, "remove", call[c].seen \ {i})
         /\ UNCHANGED <<tenant, begun, served, condemned, misled, late>>
    \/ /\ \A u \in accounts : u.id = i => u.acted
       /\ call' = [call EXCEPT ![c].pc = "detach", ![c].target = i]
       /\ UNCHANGED <<tenant, accounts, begun, history>>

\* DetachUser that leaves the account as active as it is.
DetachActive(c) == At(c, "detach") /\ \E u \in accounts :
    /\ u.id = call[c].target
    /\ Rewrite(u, [u EXCEPT !.tenant = None])
    /\ Taken(c, u)
    /\ call' = [call EXCEPT ![c].pc = "remove", ![c].target = None, ![c].seen = @ \ {u.id}]
    /\ UNCHANGED <<tenant, begun, served, condemned, misled, late>>

\* Such an account stays, outside every company and inactive; a missing one fails the call.
DetachUser(c) == At(c, "detach") /\ \E u \in accounts :
    /\ u.id = call[c].target
    /\ Rewrite(u, [u EXCEPT !.tenant = None, !.active = FALSE])
    /\ Taken(c, u)
    /\ call' = [call EXCEPT ![c].pc = "remove", ![c].target = None, ![c].seen = @ \ {u.id}]
    /\ UNCHANGED <<tenant, begun, served, condemned, misled, late>>

\* Whoever is still in the company is left without one (onDelete: SetNull).
DropTenant(c) ==
    /\ At(c, "remove") /\ call[c].seen = {} /\ call[c].of \in Live
    /\ tenant' = [s \in Slugs |-> IF tenant[s] = call[c].of THEN None ELSE tenant[s]]
    /\ accounts' = {IF u.tenant = call[c].of THEN [u EXCEPT !.tenant = None] ELSE u : u \in accounts}
    /\ End(c)
    /\ UNCHANGED <<begun, history>>

(* UsersService.update, and what an active account does elsewhere *)

SetActive == \E u \in accounts, active \in BOOLEAN :
    /\ Activated(u, active)
    /\ UNCHANGED <<tenant, call, begun, served, condemned, shaken, misled, lost>>

Act == \E u \in accounts :
    /\ u.active
    /\ Rewrite(u, [u EXCEPT !.acted = TRUE])
    /\ UNCHANGED <<tenant, call, begun, history>>

\* An error or a crash: what the statements before it wrote stays.
Fail(c) ==
    /\ call[c].pc # "idle"
    /\ End(c)
    /\ UNCHANGED <<tenant, accounts, begun, history>>

Next ==
    \/ \E c \in Calls :
         \/ BeginCreate(c) \/ InsertTenant(c) \/ FindUser(c) \/ MoveUser(c) \/ NewUser(c)
         \/ BeginRegister(c) \/ Register(c)
         \/ BeginReset(c) \/ Reset(c)
         \/ BeginRemove(c) \/ ListUsers(c) \/ DeleteUser(c) \/ DetachUser(c) \/ DropTenant(c)
         \/ Fail(c)
    \/ SetActive
    \/ Act

Spec == Init /\ [][Next]_vars

-----------------------------------------------------------------------------
(* Properties *)

\* A removal deletes or closes the accounts of its company and of no other,
\* unless one of them moved while the removal was under way, or the caller's token
\* names a company of its own: then it takes that company's.
RemovesOnlyItsUsers == lost \subseteq late

\* An account whose company was removed is not active, unless it joined,
\* or somebody reopened it, after it left or the removal began, or the caller had a company.
NoAccountOutlivesItsCompany ==
    \A u \in accounts : u.of # None /\ ~Exists(u.of) /\ u.active /\ ~u.super =>
        u.id \in late \/ u.of \in misled

\* A company created with an administrator has somebody in it, unless it is
\* being removed, its account was taken for another company or by a removal whose
\* caller had a company, or it took one from a company under removal.
ServedCompanyHasPeople == \A t \in served \ (condemned \cup shaken) : Members(t) # {}
=============================================================================
