------------------------------ MODULE Sessions ------------------------------
(* The session a browser keeps and the tokens the server gives it: the store *)
(* of auth.store.ts, the interceptors of lib/axios.ts that renew an expired  *)
(* access token and repeat the request, AuthService.login, refreshToken and  *)
(* createImpersonationToken, and JwtStrategy.validate.  Tokens live on their *)
(* own: the server remembers none.  Passwords, and people who move to other  *)
(* companies, are left out.                                                  *)
EXTENDS Naturals

CONSTANTS
    People, Super,   \* Super: those with SUPER_USUARIO
    Companies,
    Home,            \* the company of each person, or NULL
    Calls,           \* requests of the page under way at once
    AccessLife,      \* JWT_EXPIRES_IN
    RefreshLife,     \* JWT_REFRESH_EXPIRES_IN
    MaxTime,         \* bound: the clock
    MaxSends,        \* bound: requests the user makes
    MaxEdits,        \* bound: changes an administrator makes
    NULL

ASSUME LivesAssumption == AccessLife \in Nat /\ RefreshLife \in Nat /\ AccessLife < RefreshLife
ASSUME HomeAssumption == Home \in [People -> Companies \cup {NULL}] /\ Super \subseteq People
ASSUME BoundsAssumption == MaxTime \in Nat /\ MaxSends \in Nat /\ MaxEdits \in Nat

Users == [of : People, company : Companies \cup {NULL}, monitor : BOOLEAN]
Tokens == [of : People, company : Companies \cup {NULL}, roles : Nat, monitor : BOOLEAN, exp : Nat]
\* originalSession: a session that had a user.
Originals == [user : Users, access : Tokens \cup {NULL}, refresh : Tokens \cup {NULL}]

ASSUME NullAssumption == NULL \notin Users \cup Originals

VARIABLES
    now,
    active, suspended,  \* people enabled, companies suspended
    version,            \* how often the roles of each person changed
    store,              \* what localStorage keeps of the session
    page,               \* "login" or "app"; those under /terreno, where no session ends either, are left out
    leaving,            \* where location.href sends the page, until it is unloaded
    call,               \* requests of the page
    sends, edits,
    changed,            \* history: when each version of a person's roles was superseded
    overdue,            \* history: how long superseded roles were still accepted
    shifted,            \* history: sessions ("current", "original") whose tokens a refresh replaced
                        \*   while they were monitoring, or after they had ended
    revived             \* history: a monitoring session began after the one that asked had ended

server == <<now, active, suspended, version, edits, changed>>
history == <<overdue, shifted, revived>>
vars == <<server, store, page, leaving, call, sends, history>>

Token(p, company, roles, monitor, life) ==
    [of |-> p, company |-> company, roles |-> roles, monitor |-> monitor, exp |-> now + life]
Session(p, company, roles, monitor) ==
    [user |-> [of |-> p, company |-> company, monitor |-> monitor],
     access |-> Token(p, company, roles, monitor, AccessLife),
     refresh |-> Token(p, company, roles, monitor, RefreshLife)]
NoSession == [user |-> NULL, access |-> NULL, refresh |-> NULL]
NoStore == [now |-> NoSession, original |-> NULL]
NoCall == [pc |-> "idle", kind |-> NULL, of |-> NULL, token |-> NULL, retried |-> FALSE,
           outer |-> {}, unwinding |-> FALSE, answer |-> NULL, over |-> FALSE]

Monitoring == store.now.user # NULL /\ store.now.user.monitor

\* login signs what the database says of the person.
Fresh(p) == Session(p, Home[p], version[p], FALSE)

Init ==
    /\ now = 0
    /\ active = People /\ suspended = {}
    /\ version = [p \in People |-> 0]
    /\ \E p \in People : store = [now |-> Fresh(p), original |-> NULL]
    /\ page = "app" /\ leaving = NULL
    /\ call = [c \in Calls |-> NoCall]
    /\ sends = 0 /\ edits = 0
    /\ changed = [p \in People |-> [v \in 0..MaxEdits |-> 0]]
    /\ overdue = {} /\ shifted = {} /\ revived = FALSE

-----------------------------------------------------------------------------
(* The server *)

Alive(token) == token # NULL /\ now < token.exp /\ token.of \in active

\* validateUser and JwtStrategy: a suspended company's people are refused, except
\* a super user and whoever monitors the company.
Barred(p) == p \notin Super /\ Home[p] \in suspended

\* JwtStrategy.validate; the roles are those of the token.
Accepts(token) == Alive(token) /\ (token.monitor \/ ~Barred(token.of))

Answer(c, pc, answer) == call' = [call EXCEPT ![c].pc = pc, ![c].answer = answer]
Under(calls, c) == [calls EXCEPT ![c] = NoCall]
At(c, pc) == call[c].pc = pc

Stale(token) == token.roles < version[token.of]

Work(c) ==
    /\ At(c, "sent") /\ call[c].kind = "work" /\ Accepts(call[c].token)
    /\ LET t == call[c].token IN
         overdue' = IF Stale(t) /\ ~t.monitor THEN overdue \cup {now - changed[t.of][t.roles]}
                    ELSE overdue
    /\ call' = [call EXCEPT ![c] = NoCall]
    /\ UNCHANGED <<server, store, page, leaving, sends, shifted, revived>>

\* createImpersonationToken: the person and the roles are those of the token it was asked with.
Monitor(c) ==
    /\ At(c, "sent") /\ call[c].kind = "monitor" /\ Accepts(call[c].token)
    /\ LET t == call[c].token IN
       \E company \in Companies : Answer(c, "answered", Session(t.of, company, t.roles, TRUE))
    /\ UNCHANGED <<server, store, page, leaving, sends, history>>

Login(c) ==
    /\ At(c, "sent") /\ call[c].kind = "login"
    /\ call[c].of \in active /\ ~Barred(call[c].of)
    /\ Answer(c, "answered", Fresh(call[c].of))
    /\ UNCHANGED <<server, store, page, leaving, sends, history>>

\* Renew that signs the roles of the token it was given.
RenewAsBefore(c) ==
    /\ At(c, "renewing") /\ Alive(call[c].token)
    /\ LET t == call[c].token IN Answer(c, "renewed", Session(t.of, Home[t.of], t.roles, FALSE))
    /\ UNCHANGED <<server, store, page, leaving, sends, history>>

\* refreshToken reads the person again and signs as login does, whatever company
\* the token was for; it does not look at the company.
Renew(c) ==
    /\ At(c, "renewing") /\ Alive(call[c].token)
    /\ Answer(c, "renewed", Fresh(call[c].token.of))
    /\ UNCHANGED <<server, store, page, leaving, sends, history>>

\* 401, also for a wrong password.
Refuse(c) ==
    /\ \/ /\ At(c, "sent") /\ (call[c].kind = "login" \/ ~Accepts(call[c].token))
          /\ call' = [call EXCEPT ![c].pc = "denied"]
       \/ /\ At(c, "renewing") /\ ~Alive(call[c].token)
          /\ call' = [call EXCEPT ![c].pc = "unrenewed"]
    /\ UNCHANGED <<server, store, page, leaving, sends, history>>

Serve(c) == Work(c) \/ Monitor(c) \/ Login(c) \/ Renew(c) \/ Refuse(c)

-----------------------------------------------------------------------------
(* The page *)

\* The store gets another session: a refresh under way was of the old one.
Over(calls) == [d \in Calls |-> [calls[d] EXCEPT !.over = calls[d].pc # "idle"]]

Idle == CHOOSE c \in Calls : (\E d \in Calls : At(d, "idle")) => At(c, "idle")

Send(c) ==
    /\ c = Idle /\ At(c, "idle") /\ leaving = NULL /\ sends < MaxSends
    /\ sends' = sends + 1
    /\ LET new == [NoCall EXCEPT !.pc = "sent", !.token = store.now.access] IN
       \/ /\ page = "login"
          /\ \E p \in People : call' = [call EXCEPT ![c] = [new EXCEPT !.kind = "login", !.of = p]]
       \/ /\ page = "app"
          /\ call' = [call EXCEPT ![c] = [new EXCEPT !.kind = "work"]]
       \/ /\ page = "app" /\ store.now.user # NULL /\ store.now.user.of \in Super
          /\ call' = [call EXCEPT ![c] = [new EXCEPT !.kind = "monitor"]]
    /\ UNCHANGED <<server, store, page, leaving, history>>

Fail(c) == call' = Under(call, c) /\ UNCHANGED <<server, store, page, leaving, sends, history>>

\* logout empties the store and leaves for the login page.
Clear(calls) ==
    /\ store' = NoStore /\ leaving' = "login"
    /\ call' = Over(calls)
    /\ shifted' = {} /\ revived' = FALSE
    /\ UNCHANGED <<server, page, sends, overdue>>

\* No refresh: the request fails, and outside the login page the session ends.
GiveUp(c) ==
    \/ page = "app" /\ Clear(Under(call, c))
    \/ page = "login" /\ Fail(c)

\* refreshAccessToken, with the refresh token of the session there is.
AskRefresh(c, outer) ==
    \/ store.now.refresh = NULL /\ GiveUp(c)
    \/ /\ store.now.refresh # NULL
       /\ call' = [call EXCEPT ![c] =
                      [call[c] EXCEPT !.pc = "renewing", !.retried = TRUE,
                                      !.token = store.now.refresh, !.outer = outer,
                                      !.over = @ /\ (outer # {} \/ store.now.user = NULL)]]
       /\ UNCHANGED <<server, store, page, leaving, sends, history>>

\* HandleDenied without _retry.
HandleDeniedAgain(c) == At(c, "denied") /\ AskRefresh(c, {})

\* The interceptor of a 401: a request is repeated once.
HandleDenied(c) ==
    /\ At(c, "denied")
    /\ \/ call[c].retried /\ Fail(c)
       \/ ~call[c].retried /\ AskRefresh(c, {})

\* A refresh is a request like any other: refused, it asks for another refresh, in
\* which it waits; the one that is repeated is not repeated again.
HandleUnrenewed(c) ==
    /\ At(c, "unrenewed")
    /\ \/ call[c].unwinding /\ GiveUp(c)
       \/ ~call[c].unwinding /\ AskRefresh(c, call[c].outer \cup {call[c].token})

\* No answer: a request that waits for a refresh ends as it does.
Disconnect(c) ==
    \/ call[c].pc \in {"sent", "answered"} /\ Fail(c)
    \/ call[c].pc \in {"renewing", "renewed"} /\ GiveUp(c)

\* The refreshes that waited are repeated, those of one token as one; then the
\* request is, with the token there is now.
TakeRenewal(c) ==
    /\ At(c, "renewed")
    /\ LET new == [user |-> store.now.user, access |-> call[c].answer.access,
                   refresh |-> call[c].answer.refresh]
           waiting == call[c].outer
       IN  /\ store' = [store EXCEPT !.now = new]
           /\ \/ /\ waiting = {}
                 /\ call' = [call EXCEPT ![c] =
                                [call[c] EXCEPT !.pc = "sent", !.token = new.access, !.answer = NULL]]
              \/ \E t \in waiting :
                    call' = [call EXCEPT ![c] =
                               [call[c] EXCEPT !.pc = "renewing", !.token = t, !.answer = NULL,
                                               !.outer = @ \ {t}, !.unwinding = TRUE]]
           /\ shifted' = IF call[c].over \/ new.user = NULL \/ Monitoring
                         THEN shifted \cup {"current"} ELSE shifted
    /\ UNCHANGED <<server, page, leaving, sends, overdue, revived>>

TakeLogin(c) ==
    /\ At(c, "answered") /\ call[c].kind = "login"
    /\ store' = [now |-> call[c].answer, original |-> NULL]
    /\ page' = "app"
    /\ call' = Over(Under(call, c))
    /\ shifted' = {} /\ revived' = FALSE
    /\ UNCHANGED <<server, leaving, sends, overdue>>

Monitored(c, keeps) ==
    /\ At(c, "answered") /\ call[c].kind = "monitor"
    /\ store' = [now |-> call[c].answer, original |-> IF keeps THEN store.now ELSE store.original]
    /\ shifted' = IF keeps THEN {"original" : k \in shifted \cap {"current"}}
                  ELSE shifted \ {"current"}
    /\ page' = "app"
    /\ call' = Over(Under(call, c))
    /\ revived' = (revived \/ call[c].over)
    /\ UNCHANGED <<server, leaving, sends, overdue>>

\* TakeMonitor that keeps the session there is, whatever was kept.
TakeMonitorAgain(c) == Monitored(c, store.now.user # NULL)

\* impersonateTenant keeps the session it leaves, unless one is kept already.
TakeMonitor(c) == Monitored(c, store.original = NULL /\ store.now.user # NULL)

(* The user, the browser and the administrator *)

Logout == page = "app" /\ leaving = NULL /\ Clear(call)

Return(session) ==
    /\ page = "app" /\ leaving = NULL
    /\ store.original # NULL \/ Monitoring
    /\ leaving' = "app"
    /\ IF store.original = NULL THEN UNCHANGED <<store, call, shifted, revived>>
       ELSE /\ store' = [now |-> session, original |-> NULL]
            /\ call' = Over(call)
            /\ shifted' = {"current" : k \in shifted \cap {"original"}}
            /\ revived' = (revived /\ store.original.user.monitor)
    /\ UNCHANGED <<server, page, sends, overdue>>

\* StopMonitor that leaves the tokens of the monitoring.
StopMonitorOnScreen == Return([store.now EXCEPT !.user = store.original.user])

StopMonitor == Return(store.original)

\* The page is loaded again, by location.href or by the user, who may open the
\* application with any token: localStorage stays.
Load ==
    /\ \/ leaving # NULL /\ page' = leaving
       \/ leaving = NULL /\ page' = page
       \/ leaving = NULL /\ store.now.access # NULL /\ page' = "app"
    /\ leaving' = NULL
    /\ call' = [c \in Calls |-> NoCall]
    /\ UNCHANGED <<server, store, sends, history>>

Administer ==
    /\ edits < MaxEdits /\ edits' = edits + 1
    /\ \/ \E p \in People :
            /\ active' = IF p \in active THEN active \ {p} ELSE active \cup {p}
            /\ UNCHANGED <<suspended, version, changed>>
       \/ \E t \in Companies :
            /\ suspended' = IF t \in suspended THEN suspended \ {t} ELSE suspended \cup {t}
            /\ UNCHANGED <<active, version, changed>>
       \/ \E p \in People :
            /\ version' = [version EXCEPT ![p] = @ + 1]
            /\ changed' = [changed EXCEPT ![p][version[p]] = now]
            /\ UNCHANGED <<active, suspended>>
    /\ UNCHANGED <<now, store, page, leaving, call, sends, history>>

Tick ==
    /\ now < MaxTime /\ now' = now + 1
    /\ UNCHANGED <<active, suspended, version, edits, changed, store, page, leaving, call, sends,
                   history>>

Handle(c) == \/ HandleDenied(c) \/ HandleUnrenewed(c)
             \/ TakeRenewal(c) \/ TakeLogin(c) \/ TakeMonitor(c)

Next ==
    \/ \E c \in Calls : Send(c) \/ Serve(c) \/ Handle(c) \/ Disconnect(c)
    \/ Logout \/ StopMonitor \/ Load \/ Administer \/ Tick

Spec == Init /\ [][Next]_vars

\* The server answers and the page goes on.
FairSpec == Spec /\ \A c \in Calls : WF_vars(Serve(c) \/ Handle(c))

-----------------------------------------------------------------------------
(* Properties *)

\* The requests of a page are of the person it shows and act on the company it
\* shows, unless a refresh came while monitoring, or after its session had ended.
ActsWhereShown ==
    store.now.access # NULL =>
        \/ "current" \in shifted
        \/ /\ store.now.user # NULL
           /\ store.now.user.of = store.now.access.of
           /\ store.now.user.company = store.now.access.company

\* Who monitors a company has a session of their own to return to, unless the
\* monitoring began after the session that asked for it had ended.
ReturnsToOwnSession ==
    Monitoring => \/ revived
                  \/ /\ store.original # NULL
                     /\ ~store.original.user.monitor

\* Roles that were taken away or given are those of every request within the life
\* of an access token, however often sessions are renewed (not while monitoring:
\* its tokens copy roles).
RolesTakeEffect == overdue \subseteq 0..(AccessLife - 1)

Dead(token) == token # NULL /\ ~Alive(token)

\* A request ends, whatever is refused or suspended, unless the refresh token of
\* the session is dead: then it asks for a refresh for ever.
EveryRequestSettles == \A c \in Calls : call[c].pc # "idle" ~> call[c].pc = "idle" \/ Dead(store.now.refresh)
=============================================================================
