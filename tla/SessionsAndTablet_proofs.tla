---------------------- MODULE SessionsAndTablet_proofs ----------------------
(***************************************************************************)
(* What the browser keeps.  The first part is about the session and its    *)
(* tokens (module Sessions), the second about the field tablet and the     *)
(* queues it sends when it is online again (module OfflineQueue).          *)
(***************************************************************************)
EXTENDS Sessions, OfflineQueue, TLAPS

Pcs == {"idle", "sent", "answered", "denied", "renewing", "renewed", "unrenewed"}
Refreshing == {"renewing", "renewed", "unrenewed"}
Signed == [user : Users, access : Tokens, refresh : Tokens]
Requests == [pc : Pcs, kind : {"work", "monitor", "login", NULL}, of : People \cup {NULL},
             token : Tokens \cup {NULL}, retried : BOOLEAN, outer : SUBSET Tokens,
             unwinding : BOOLEAN, answer : Signed \cup {NULL}, over : BOOLEAN]
Shown == [user : Users \cup {NULL}, access : Tokens \cup {NULL}, refresh : Tokens \cup {NULL}]

TypeOK ==
    /\ now \in Nat /\ active \subseteq People /\ suspended \subseteq Companies
    /\ version \in [People -> Nat] /\ edits \in 0..MaxEdits
    /\ \A p \in People : version[p] <= edits
    /\ changed \in [People -> [0..MaxEdits -> Nat]]
    /\ \A p \in People : \A v \in 0..MaxEdits : changed[p][v] <= now
    /\ store \in [now : Shown, original : Originals \cup {NULL}]
    /\ page \in {"login", "app"}
    /\ call \in [Calls -> Requests]
    /\ shifted \subseteq {"current", "original"} /\ revived \in BOOLEAN

\* Who monitors no company is at home.
AtHome(u) == u.monitor \/ u.company = Home[u.of]

\* The tokens of a session are of the person it shows, the access token of the company.
Agrees(s) ==
    /\ s.access # NULL => /\ s.user # NULL /\ s.user.of = s.access.of
                          /\ s.user.company = s.access.company
    /\ s.refresh # NULL => s.user # NULL /\ s.user.of = s.refresh.of

\* Access tokens whose roles were the person's when they were signed, or that monitor.
SignedBy(t) == IF t.roles = version[t.of] THEN now ELSE changed[t.of][t.roles]
Timely ==
    {NULL} \cup {t \in Tokens : \/ t.monitor
                                \/ t.roles <= version[t.of] /\ t.exp <= SignedBy(t) + AccessLife}

\* What the server signs.
Proper == {s \in Signed : /\ AtHome(s.user) /\ s.access \in Timely
                          /\ s.user.of = s.access.of /\ s.user.of = s.refresh.of
                          /\ s.user.company = s.access.company}

Answering ==
    {r \in Requests :
        /\ r.pc = "sent" => r.token \in Timely
        /\ r.pc \in Refreshing => r.token \in Tokens
        /\ r.pc \in {"answered", "renewed"} => r.answer \in Proper
        /\ r.pc = "answered" /\ r.kind = "login" => ~r.answer.user.monitor
        /\ r.pc = "renewed" => ~r.answer.user.monitor /\ r.answer.user.of = r.token.of}

\* Requests that are of the session there is: the tokens they renew are its own.
Bounded ==
    {r \in Requests :
        r.pc # "idle" /\ ~r.over =>
            /\ r.kind = "monitor" => store.now.user # NULL
            /\ r.pc \in Refreshing /\ "current" \notin shifted =>
                  /\ store.now.user # NULL
                  /\ \A t \in r.outer \cup {r.token} : t.of = store.now.user.of}

Stored ==
    /\ store.now.access \in Timely
    /\ store.now.user # NULL => AtHome(store.now.user)
    /\ "current" \notin shifted => Agrees(store.now)
    /\ store.original # NULL =>
          /\ store.original.access \in Timely /\ AtHome(store.original.user)
          /\ "original" \notin shifted => Agrees(store.original)
          /\ revived \/ ~store.original.user.monitor
    /\ Monitoring => revived \/ store.original # NULL

SessionInv ==
    /\ TypeOK /\ Stored /\ RolesTakeEffect
    /\ \A c \in Calls : call[c] \in Answering \cap Bounded

LEMMA NothingThere ==
    /\ NoCall \in Requests /\ NoCall.pc = "idle" /\ NoCall.over = FALSE
    /\ NoSession \in Shown /\ NoSession.user = NULL /\ NoSession.access = NULL
    /\ NoSession.refresh = NULL
  BY DEF NoCall, NoSession, Requests, Shown, Pcs

\* What the server signs for p, from what it knows now, is in order.
LEMMA SignsProper ==
    ASSUME now \in Nat, version \in [People -> Nat], NEW p \in People
    PROVE  /\ Fresh(p) \in Proper /\ Fresh(p).user.of = p /\ ~Fresh(p).user.monitor
<1>. DEFINE t == Token(p, Home[p], version[p], FALSE, AccessLife)
            u == Token(p, Home[p], version[p], FALSE, RefreshLife)
            v == [of |-> p, company |-> Home[p], monitor |-> FALSE]
<1>1. Home[p] \in Companies \cup {NULL} /\ version[p] \in Nat /\ now \in Nat
      /\ AccessLife \in Nat /\ RefreshLife \in Nat
  BY HomeAssumption, LivesAssumption
<1>2. /\ t \in Tokens /\ t.of = p /\ t.company = Home[p] /\ t.roles = version[p]
      /\ t.exp = now + AccessLife
      /\ u \in Tokens /\ u.of = p
      /\ v \in Users /\ v.of = p /\ v.company = Home[p] /\ ~v.monitor
  BY <1>1 DEF Token, Tokens, Users
<1>3. Fresh(p) = [user |-> v, access |-> t, refresh |-> u]
  BY DEF Fresh, Session
<1>. HIDE DEF t, u, v
<1>4. t \in Timely
  BY <1>1, <1>2 DEF Timely, SignedBy
<1>5. Fresh(p) \in Signed /\ Fresh(p).user = v /\ Fresh(p).access = t /\ Fresh(p).refresh = u
  BY <1>2, <1>3 DEF Signed
<1>. QED  BY <1>2, <1>4, <1>5 DEF Proper, AtHome

LEMMA MonitorsProper ==
    ASSUME TypeOK, NEW t \in Tokens, NEW company \in Companies
    PROVE  Session(t.of, company, t.roles, TRUE) \in Proper
<1>. DEFINE x == Session(t.of, company, t.roles, TRUE)
            a == Token(t.of, company, t.roles, TRUE, AccessLife)
            b == Token(t.of, company, t.roles, TRUE, RefreshLife)
            v == [of |-> t.of, company |-> company, monitor |-> TRUE]
<1>1. t.of \in People /\ t.roles \in Nat /\ now \in Nat /\ AccessLife \in Nat /\ RefreshLife \in Nat
  BY LivesAssumption DEF TypeOK, Tokens
<1>2. /\ a \in Tokens /\ a.of = t.of /\ a.company = company /\ a.monitor
      /\ b \in Tokens /\ b.of = t.of
      /\ v \in Users /\ v.of = t.of /\ v.company = company /\ v.monitor
  BY <1>1 DEF Token, Tokens, Users
<1>3. x = [user |-> v, access |-> a, refresh |-> b]
  BY DEF Session
<1>. HIDE DEF a, b, v, x
<1>4. x \in Signed /\ x.user = v /\ x.access = a /\ x.refresh = b
  BY <1>2, <1>3 DEF Signed
<1>5. x \in Proper
  BY <1>2, <1>4 DEF Proper, AtHome, Timely
<1>. QED  BY <1>5 DEF x

\* A session that is signed shows somebody, may be kept, and has its own tokens.
LEMMA ProperSession ==
    ASSUME NEW s \in Proper
    PROVE  /\ s \in Shown /\ s \in Originals /\ s # NULL /\ s.user \in Users /\ s.user # NULL
           /\ AtHome(s.user) /\ s.access \in Timely /\ Agrees(s)
           /\ s.access \in Tokens /\ s.refresh \in Tokens
<1>1. s \in Signed /\ s.user \in Users /\ s.access \in Tokens /\ s.refresh \in Tokens
  BY DEF Proper, Signed
<1>2. s \in Shown /\ s \in Originals
  BY <1>1 DEF Signed, Shown, Originals
<1>3. s # NULL /\ s.user # NULL
  BY <1>1, <1>2, NullAssumption
<1>. QED  BY <1>1, <1>2, <1>3 DEF Proper, Agrees

\* A session of the store with a user may be kept.
LEMMA ShownKept ==
    ASSUME NEW s \in Shown, s.user # NULL
    PROVE  s \in Originals /\ s # NULL
  BY NullAssumption DEF Shown, Originals

-----------------------------------------------------------------------------
(* What a step leaves alone *)

LEMMA TimelySame ==
    ASSUME UNCHANGED <<now, version, changed>>
    PROVE  Timely' = Timely /\ Proper' = Proper /\ Answering' = Answering
<1>1. Timely' = Timely
  BY DEF Timely, SignedBy
<1>2. Proper' = Proper
  BY <1>1 DEF Proper
<1>. QED  BY <1>1, <1>2 DEF Answering

\* What was in order still is: time passes, and roles change after the tokens were signed.
LEMMA TimelyGrows ==
    ASSUME Timely \subseteq Timely'
    PROVE  Proper \subseteq Proper' /\ Answering \subseteq Answering'
<1>1. Proper \subseteq Proper'
  BY DEF Proper
<1>. QED  BY <1>1 DEF Answering

LEMMA BoundedSame ==
    ASSUME store'.now.user = store.now.user, shifted \subseteq shifted'
    PROVE  Bounded \subseteq Bounded'
  BY DEF Bounded

\* A request of a session that is over, or none.
LEMMA OverBounded ==
    ASSUME NEW r \in Requests, r.pc = "idle" \/ r.over
    PROVE  r \in Bounded
  BY DEF Bounded

LEMMA IdleAnswers == NoCall \in Answering /\ NoCall \in Bounded
  BY NothingThere, OverBounded DEF Answering, Refreshing

LEMMA StoredSame ==
    ASSUME Stored, UNCHANGED <<now, version, changed, store, shifted, revived>>
    PROVE  Stored'
<1>1. Timely' = Timely
  BY TimelySame
<1>2. Monitoring' = Monitoring
  BY DEF Monitoring
<1>. QED  BY <1>1, <1>2 DEF Stored

\* One request changes, and nothing that bears on the others.
LEMMA CallStep ==
    ASSUME SessionInv, NEW c \in Calls, NEW x \in Answering \cap Bounded,
           call' = [call EXCEPT ![c] = x],
           UNCHANGED <<server, store, page, shifted, revived>>, RolesTakeEffect'
    PROVE  SessionInv'
<1>1. TypeOK /\ Stored /\ \A d \in Calls : call[d] \in Answering \cap Bounded
  BY DEF SessionInv
<1>2. UNCHANGED <<now, version, changed, active, suspended, edits>>
  BY DEF server
<1>3. Answering' = Answering /\ Bounded \subseteq Bounded' /\ Stored'
  BY <1>1, <1>2, TimelySame, BoundedSame, StoredSame
<1>4. x \in Requests
  BY DEF Answering
<1>5. call' \in [Calls -> Requests] /\ \A d \in Calls : call'[d] = IF d = c THEN x ELSE call[d]
  BY <1>1, <1>4 DEF TypeOK
<1>6. TypeOK'
  BY <1>1, <1>2, <1>5 DEF TypeOK
<1>7. \A d \in Calls : call'[d] \in Answering' \cap Bounded'
  BY <1>1, <1>3, <1>5
<1>. QED  BY <1>3, <1>6, <1>7 DEF SessionInv

\* The store gets another session: no request is of it.
LEMMA SessionStep ==
    ASSUME SessionInv, UNCHANGED server, UNCHANGED overdue,
           NEW calls \in [Calls -> Answering], call' = Over(calls),
           store' \in [now : Shown, original : Originals \cup {NULL}], page' \in {"login", "app"},
           shifted' \subseteq {"current", "original"}, revived' \in BOOLEAN, Stored'
    PROVE  SessionInv'
<1>1. TypeOK /\ RolesTakeEffect
  BY DEF SessionInv
<1>2. UNCHANGED <<now, version, changed, active, suspended, edits>>
  BY DEF server
<1>3. Answering' = Answering
  BY <1>2, TimelySame
<1>4. ASSUME NEW d \in Calls
      PROVE  call'[d] \in Answering /\ call'[d] \in Requests /\ call'[d] \in Bounded'
  <2>. DEFINE r == calls[d]  x == [r EXCEPT !.over = r.pc # "idle"]
  <2>1. call'[d] = x /\ r \in Answering /\ r \in Requests
    BY DEF Over, Answering
  <2>2. x \in Requests /\ x.over = (x.pc # "idle")
        /\ x.pc = r.pc /\ x.token = r.token /\ x.answer = r.answer /\ x.kind = r.kind
    BY <2>1 DEF Requests
  <2>. HIDE DEF x, r
  <2>3. x \in Answering
    BY <2>1, <2>2 DEF Answering
  <2>4. x \in Bounded'
    BY <2>2 DEF Bounded
  <2>. QED  BY <2>1, <2>2, <2>3, <2>4
<1>5. call' \in [Calls -> Requests]
  <2>1. call' = [d \in Calls |-> call'[d]]
    BY DEF Over
  <2>. QED  BY <1>4, <2>1
<1>6. TypeOK'
  BY <1>1, <1>2, <1>5 DEF TypeOK
<1>7. RolesTakeEffect'
  BY <1>1 DEF RolesTakeEffect
<1>. QED  BY <1>3, <1>4, <1>6, <1>7 DEF SessionInv

LEMMA InitSession == Init => SessionInv
<1>. SUFFICES ASSUME Init PROVE SessionInv
  OBVIOUS
<1>1. PICK p \in People : store = [now |-> Fresh(p), original |-> NULL]
  BY DEF Init
<1>2. /\ now = 0 /\ active = People /\ suspended = {} /\ version = [q \in People |-> 0]
      /\ page = "app" /\ call = [c \in Calls |-> NoCall] /\ edits = 0
      /\ changed = [q \in People |-> [v \in 0..MaxEdits |-> 0]]
      /\ overdue = {} /\ shifted = {} /\ revived = FALSE
  BY DEF Init
<1>3. /\ version \in [People -> Nat] /\ changed \in [People -> [0..MaxEdits -> Nat]]
      /\ \A q \in People : version[q] = 0 /\ \A v \in 0..MaxEdits : changed[q][v] = 0
      /\ edits \in 0..MaxEdits
  BY <1>2, BoundsAssumption
<1>4. Fresh(p) \in Proper /\ ~Fresh(p).user.monitor
  BY <1>2, <1>3, SignsProper
<1>5. /\ Fresh(p) \in Shown /\ Fresh(p).user # NULL /\ AtHome(Fresh(p).user)
      /\ Fresh(p).access \in Timely /\ Agrees(Fresh(p))
  BY <1>4, ProperSession
<1>6. call \in [Calls -> Requests] /\ \A c \in Calls : call[c] = NoCall
  BY <1>2, NothingThere
<1>7. TypeOK
  <2>1. store \in [now : Shown, original : Originals \cup {NULL}]
    BY <1>1, <1>5
  <2>2. edits = 0 /\ now = 0 /\ 0 <= 0
    BY <1>2
  <2>3. (\A q \in People : version[q] <= edits)
        /\ \A q \in People : \A v \in 0..MaxEdits : changed[q][v] <= now
    BY <1>3, <2>2
  <2>. QED  BY <1>2, <1>3, <1>6, <2>1, <2>3 DEF TypeOK
<1>8. Stored
  BY <1>1, <1>2, <1>4, <1>5 DEF Stored, Monitoring
<1>9. RolesTakeEffect
  BY <1>2 DEF RolesTakeEffect
<1>. QED  BY <1>6, <1>7, <1>8, <1>9, IdleAnswers DEF SessionInv

-----------------------------------------------------------------------------
(* The server *)

LEMMA WorkStep ==
    ASSUME SessionInv, NEW c \in Calls, Work(c)
    PROVE  SessionInv'
<1>. DEFINE t == call[c].token
<1>1. TypeOK /\ RolesTakeEffect /\ call[c] \in Answering
  BY DEF SessionInv
<1>2. /\ call[c].pc = "sent" /\ t # NULL /\ now < t.exp
      /\ overdue' = IF Stale(t) /\ ~t.monitor THEN overdue \cup {now - changed[t.of][t.roles]}
                    ELSE overdue
      /\ call' = [call EXCEPT ![c] = NoCall]
      /\ UNCHANGED <<server, store, page, shifted, revived>>
  BY DEF Work, At, Accepts, Alive
<1>3. t \in Timely
  BY <1>1, <1>2 DEF Answering
<1>. HIDE DEF t
<1>4. t \in Tokens /\ (t.monitor \/ (t.roles <= version[t.of] /\ t.exp <= SignedBy(t) + AccessLife))
  BY <1>2, <1>3 DEF Timely
<1>5. t.of \in People /\ t.roles \in Nat /\ t.exp \in Nat /\ AccessLife \in Nat /\ now \in Nat
      /\ version[t.of] \in Nat /\ edits \in 0..MaxEdits /\ version[t.of] <= edits
  BY <1>1, <1>4, LivesAssumption DEF Tokens, TypeOK
<1>6. ASSUME Stale(t), ~t.monitor
      PROVE  now - changed[t.of][t.roles] \in 0..(AccessLife - 1)
  <2>1. t.roles < version[t.of] /\ t.exp <= SignedBy(t) + AccessLife
    BY <1>4, <1>6 DEF Stale
  <2>2. t.roles \in 0..MaxEdits /\ t.roles # version[t.of]
    BY <1>5, <2>1, BoundsAssumption
  <2>3. changed[t.of][t.roles] \in Nat /\ changed[t.of][t.roles] <= now
    BY <1>1, <1>5, <2>2 DEF TypeOK
  <2>4. t.exp <= changed[t.of][t.roles] + AccessLife
    BY <2>1, <2>2 DEF SignedBy
  <2>. QED  BY <1>2, <1>5, <2>3, <2>4
<1>7. RolesTakeEffect'
  BY <1>1, <1>2, <1>6 DEF RolesTakeEffect
<1>. QED  BY <1>2, <1>7, IdleAnswers, CallStep

LEMMA ServerSteps ==
    ASSUME SessionInv, NEW c \in Calls, Monitor(c) \/ Login(c) \/ Renew(c) \/ Refuse(c)
    PROVE  SessionInv'
<1>. DEFINE r == call[c]
<1>1. /\ TypeOK /\ RolesTakeEffect /\ r \in Answering /\ r \in Bounded /\ r \in Requests
      /\ now \in Nat /\ version \in [People -> Nat]
  BY DEF SessionInv, TypeOK
<1>2. UNCHANGED <<server, store, page, shifted, revived>> /\ RolesTakeEffect'
  BY <1>1 DEF Monitor, Login, Renew, Refuse, history, RolesTakeEffect
<1>3. SUFFICES \E x \in Answering \cap Bounded : call' = [call EXCEPT ![c] = x]
  BY <1>2, CallStep
<1>4. CASE Monitor(c)
  <2>1. r.pc = "sent" /\ r.kind = "monitor" /\ r.token \in Tokens
    BY <1>1, <1>4 DEF Monitor, At, Accepts, Alive, Requests
  <2>2. PICK company \in Companies :
           Answer(c, "answered", Session(r.token.of, company, r.token.roles, TRUE))
    BY <1>4 DEF Monitor
  <2>. DEFINE s == Session(r.token.of, company, r.token.roles, TRUE)
              x == [r EXCEPT !.pc = "answered", !.answer = s]
  <2>3. s \in Proper /\ s \in Signed
    BY <1>1, <2>1, MonitorsProper DEF Proper
  <2>4. call' = [call EXCEPT ![c] = x]
    BY <1>1, <2>2 DEF Answer, TypeOK
  <2>. HIDE DEF s
  <2>5. x \in Requests /\ x.pc = "answered" /\ x.kind = "monitor" /\ x.answer = s /\ x.over = r.over
    BY <1>1, <2>1, <2>3 DEF Requests, Pcs
  <2>. HIDE DEF x, r
  <2>6. x \in Answering
    BY <2>3, <2>5 DEF Answering, Refreshing
  <2>7. x \in Bounded
    BY <1>1, <2>1, <2>5 DEF Bounded, Refreshing
  <2>. QED  BY <2>4, <2>6, <2>7
<1>5. CASE Login(c)
  <2>1. r.pc = "sent" /\ r.kind = "login" /\ r.of \in People /\ Answer(c, "answered", Fresh(r.of))
    BY <1>1, <1>5 DEF Login, At, TypeOK
  <2>. DEFINE s == Fresh(r.of)
              x == [r EXCEPT !.pc = "answered", !.answer = s]
  <2>2. s \in Proper /\ s \in Signed /\ ~s.user.monitor
    BY <1>1, <2>1, SignsProper DEF Proper
  <2>3. call' = [call EXCEPT ![c] = x]
    BY <1>1, <2>1 DEF Answer, TypeOK
  <2>. HIDE DEF s
  <2>4. x \in Requests /\ x.pc = "answered" /\ x.kind = "login" /\ x.answer = s /\ x.over = r.over
    BY <1>1, <2>1, <2>2 DEF Requests, Pcs
  <2>. HIDE DEF x, r
  <2>5. x \in Answering
    BY <2>2, <2>4 DEF Answering, Refreshing
  <2>6. x \in Bounded
    BY <2>4 DEF Bounded, Refreshing
  <2>. QED  BY <2>3, <2>5, <2>6
<1>6. CASE Renew(c)
  <2>1. r.pc = "renewing" /\ r.token \in Tokens /\ Answer(c, "renewed", Fresh(r.token.of))
    BY <1>1, <1>6 DEF Renew, At, Alive, Requests
  <2>. DEFINE s == Fresh(r.token.of)
              x == [r EXCEPT !.pc = "renewed", !.answer = s]
  <2>2. s \in Proper /\ s \in Signed /\ ~s.user.monitor /\ s.user.of = r.token.of
    BY <1>1, <2>1, SignsProper DEF Proper, Tokens
  <2>3. call' = [call EXCEPT ![c] = x]
    BY <1>1, <2>1 DEF Answer, TypeOK
  <2>. HIDE DEF s
  <2>4. x \in Requests /\ x.pc = "renewed" /\ x.kind = r.kind /\ x.answer = s /\ x.over = r.over
        /\ x.token = r.token /\ x.outer = r.outer
    BY <1>1, <2>1, <2>2 DEF Requests, Pcs
  <2>. HIDE DEF x, r
  <2>5. x \in Answering
    BY <2>1, <2>2, <2>4 DEF Answering, Refreshing
  <2>6. x \in Bounded
    BY <1>1, <2>1, <2>4 DEF Bounded, Refreshing
  <2>. QED  BY <2>3, <2>5, <2>6
<1>7. CASE Refuse(c)
  <2>1. PICK pc \in {"denied", "unrenewed"} :
           /\ call' = [call EXCEPT ![c].pc = pc]
           /\ pc = "denied" => r.pc = "sent"
           /\ pc = "unrenewed" => r.pc = "renewing"
    BY <1>7 DEF Refuse, At
  <2>. DEFINE x == [r EXCEPT !.pc = pc]
  <2>2. call' = [call EXCEPT ![c] = x]
    BY <1>1, <2>1 DEF TypeOK
  <2>3. x \in Requests /\ x.pc = pc /\ x.kind = r.kind /\ x.over = r.over
        /\ x.token = r.token /\ x.outer = r.outer
    BY <1>1 DEF Requests, Pcs
  <2>. HIDE DEF x, r
  <2>4. x \in Answering
    BY <1>1, <2>1, <2>3 DEF Answering, Refreshing
  <2>5. x \in Bounded
    BY <1>1, <2>1, <2>3 DEF Bounded, Refreshing
  <2>. QED  BY <2>2, <2>4, <2>5
<1>. QED  BY <1>4, <1>5, <1>6, <1>7 DEF Monitor, Login, Renew, Refuse

-----------------------------------------------------------------------------
(* The page sends *)

LEMMA SendStep ==
    ASSUME SessionInv, NEW c \in Calls, Send(c)
    PROVE  SessionInv'
<1>. DEFINE new == [NoCall EXCEPT !.pc = "sent", !.token = store.now.access]
<1>1. TypeOK /\ RolesTakeEffect /\ Stored
  BY DEF SessionInv
<1>2. UNCHANGED <<server, store, page, shifted, revived>> /\ RolesTakeEffect'
  BY <1>1 DEF Send, history, RolesTakeEffect
<1>3. store.now.access \in Timely /\ store.now.access \in Tokens \cup {NULL}
  BY <1>1 DEF Stored, TypeOK, Shown
<1>4. PICK x : /\ call' = [call EXCEPT ![c] = x]
               /\ \/ x = [new EXCEPT !.kind = "work"]
                  \/ x = [new EXCEPT !.kind = "monitor"] /\ store.now.user # NULL
                  \/ \E p \in People : x = [new EXCEPT !.kind = "login", !.of = p]
  <2>. HIDE DEF new
  <2>. QED  BY DEF Send, new
<1>5. new \in Requests /\ new.pc = "sent" /\ new.token = store.now.access
  BY <1>3, NothingThere DEF Requests, Pcs
<1>. HIDE DEF new
<1>6. /\ x \in Requests /\ x.pc = "sent" /\ x.token = store.now.access
      /\ x.kind = "monitor" => store.now.user # NULL
  <2>1. CASE x = [new EXCEPT !.kind = "work"]
    BY <1>5, <2>1 DEF Requests
  <2>2. CASE x = [new EXCEPT !.kind = "monitor"] /\ store.now.user # NULL
    BY <1>5, <2>2 DEF Requests
  <2>3. CASE \E p \in People : x = [new EXCEPT !.kind = "login", !.of = p]
    BY <1>5, <2>3 DEF Requests
  <2>. QED  BY <1>4, <2>1, <2>2, <2>3
<1>7. x \in Answering
  BY <1>3, <1>6 DEF Answering, Refreshing
<1>8. x \in Bounded
  BY <1>6 DEF Bounded, Refreshing
<1>. QED  BY <1>2, <1>4, <1>7, <1>8, CallStep

-----------------------------------------------------------------------------
(* The page takes what it is answered *)

LEMMA CallsAnswer ==
    ASSUME SessionInv, NEW c \in Calls
    PROVE  call \in [Calls -> Answering] /\ Under(call, c) \in [Calls -> Answering]
<1>1. call = [d \in Calls |-> call[d]] /\ \A d \in Calls : call[d] \in Answering
  BY DEF SessionInv, TypeOK
<1>2. call \in [Calls -> Answering]
  BY <1>1
<1>. QED  BY <1>2, IdleAnswers DEF Under

LEMMA FailStep ==
    ASSUME SessionInv, NEW c \in Calls, Fail(c)
    PROVE  SessionInv'
  BY IdleAnswers, CallStep DEF Fail, Under, history, SessionInv, RolesTakeEffect

LEMMA ClearStep ==
    ASSUME SessionInv, NEW calls \in [Calls -> Answering], Clear(calls)
    PROVE  SessionInv'
<1>1. /\ store' = NoStore /\ call' = Over(calls) /\ shifted' = {} /\ revived' = FALSE
      /\ UNCHANGED server /\ UNCHANGED overdue /\ page' = page
  BY DEF Clear
<1>2. store'.now = NoSession /\ store'.original = NULL
      /\ store' \in [now : Shown, original : Originals \cup {NULL}]
  BY <1>1, NothingThere DEF NoStore
<1>3. Stored'
  BY <1>1, <1>2, NothingThere DEF Stored, Monitoring, Timely, Agrees
<1>4. page \in {"login", "app"}
  BY DEF SessionInv, TypeOK
<1>. QED  BY <1>1, <1>2, <1>3, <1>4, SessionStep

LEMMA GiveUpStep ==
    ASSUME SessionInv, NEW c \in Calls, GiveUp(c)
    PROVE  SessionInv'
  BY CallsAnswer, ClearStep, FailStep DEF GiveUp

\* The refresh that c asks for is of the session there is, if the ones it waits in are.
LEMMA AskStep ==
    ASSUME SessionInv, NEW c \in Calls, NEW outer \in SUBSET Tokens, AskRefresh(c, outer),
           call[c].pc # "idle",
           outer # {} => call[c].pc \in Refreshing
                         /\ outer \subseteq call[c].outer \cup {call[c].token}
    PROVE  SessionInv'
<1>. DEFINE r == call[c]
            x == [r EXCEPT !.pc = "renewing", !.retried = TRUE, !.token = store.now.refresh,
                           !.outer = outer, !.over = @ /\ (outer # {} \/ store.now.user = NULL)]
<1>1. CASE store.now.refresh = NULL
  BY <1>1, GiveUpStep DEF AskRefresh
<1>2. CASE store.now.refresh # NULL
  <2>1. /\ TypeOK /\ RolesTakeEffect /\ Stored
        /\ r \in Answering /\ r \in Bounded /\ r \in Requests
    BY DEF SessionInv, TypeOK
  <2>2. /\ call' = [call EXCEPT ![c] = x]
        /\ UNCHANGED <<server, store, page, shifted, revived>> /\ overdue' = overdue
    BY <1>2 DEF AskRefresh, history
  <2>3. store.now \in Shown /\ store.now.refresh \in Tokens
    BY <1>2, <2>1 DEF TypeOK, Shown
  <2>4. r.over \in BOOLEAN
    BY <2>1 DEF Requests
  <2>5. x \in Requests /\ x.pc = "renewing" /\ x.token = store.now.refresh /\ x.outer = outer
        /\ x.kind = r.kind /\ x.over = (r.over /\ (outer # {} \/ store.now.user = NULL))
    BY <2>1, <2>3, <2>4 DEF Requests, Pcs
  <2>. HIDE DEF x
  <2>6. x \in Answering
    BY <2>3, <2>5 DEF Answering, Refreshing
  <2>7. ASSUME ~x.over
        PROVE  /\ x.kind = "monitor" => store.now.user # NULL
               /\ "current" \notin shifted =>
                     /\ store.now.user # NULL
                     /\ \A t \in x.outer \cup {x.token} : t.of = store.now.user.of
    <3>1. ~r.over \/ (outer = {} /\ store.now.user # NULL)
      BY <2>4, <2>5, <2>7
    <3>2. x.kind = "monitor" => store.now.user # NULL
      BY <2>1, <2>5, <3>1 DEF Bounded
    <3>3. ASSUME "current" \notin shifted
          PROVE  store.now.user # NULL /\ \A t \in x.outer \cup {x.token} : t.of = store.now.user.of
      <4>1. store.now.user # NULL /\ store.now.refresh.of = store.now.user.of
        BY <1>2, <2>1, <3>3 DEF Stored, Agrees
      <4>2. \A t \in outer : t.of = store.now.user.of
        BY <2>1, <3>1, <3>3 DEF Bounded
      <4>. QED  BY <2>5, <4>1, <4>2
    <3>. QED  BY <3>2, <3>3
  <2>8. x \in Bounded
    BY <2>5, <2>7 DEF Bounded
  <2>9. RolesTakeEffect'
    BY <2>1, <2>2 DEF RolesTakeEffect
  <2>. QED  BY <2>2, <2>6, <2>8, <2>9, CallStep
<1>. QED  BY <1>1, <1>2

LEMMA HandleSteps ==
    ASSUME SessionInv, NEW c \in Calls, HandleDenied(c) \/ HandleUnrenewed(c) \/ Disconnect(c)
    PROVE  SessionInv'
<1>1. call[c] \in Answering /\ call[c] \in Requests
  BY DEF SessionInv, TypeOK
<1>2. CASE HandleDenied(c)
  <2>1. call[c].pc # "idle" /\ {} \in SUBSET Tokens
    BY <1>2 DEF HandleDenied, At
  <2>2. Fail(c) \/ AskRefresh(c, {})
    BY <1>2 DEF HandleDenied
  <2>. QED  BY <2>1, <2>2, FailStep, AskStep
<1>3. CASE HandleUnrenewed(c)
  <2>1. call[c].pc # "idle" /\ call[c].pc \in Refreshing
    BY <1>3 DEF HandleUnrenewed, At, Refreshing
  <2>2. call[c].outer \cup {call[c].token} \in SUBSET Tokens
    BY <1>1, <2>1 DEF Answering, Requests
  <2>3. GiveUp(c) \/ AskRefresh(c, call[c].outer \cup {call[c].token})
    BY <1>3 DEF HandleUnrenewed
  <2>. QED  BY <2>1, <2>2, <2>3, GiveUpStep, AskStep
<1>4. CASE Disconnect(c)
  BY <1>4, FailStep, GiveUpStep DEF Disconnect
<1>. QED  BY <1>2, <1>3, <1>4

LEMMA TakeRenewalStep ==
    ASSUME SessionInv, NEW c \in Calls, TakeRenewal(c)
    PROVE  SessionInv'
<1>. DEFINE r == call[c]
            new == [user |-> store.now.user, access |-> r.answer.access, refresh |-> r.answer.refresh]
<1>1. /\ TypeOK /\ RolesTakeEffect /\ Stored /\
           (\A d \in Calls : call[d] \in Answering \cap Bounded)
      /\ r \in Answering /\ r \in Bounded /\ r \in Requests
  BY DEF SessionInv, TypeOK
<1>2. /\ r.pc = "renewed" /\ store' = [store EXCEPT !.now = new]
      /\ \/ /\ r.outer = {}
            /\ call' = [call EXCEPT ![c] = [r EXCEPT !.pc = "sent", !.token = new.access, !.answer = NULL]]
         \/ \E t \in r.outer :
               call' = [call EXCEPT ![c] = [r EXCEPT !.pc = "renewing", !.token = t, !.answer = NULL,
                                                     !.outer = @ \ {t}, !.unwinding = TRUE]]
      /\ shifted' = IF r.over \/ new.user = NULL \/ Monitoring
                    THEN shifted \cup {"current"} ELSE shifted
      /\ UNCHANGED <<server, page, overdue, revived>>
  BY DEF TakeRenewal, At
<1>3. UNCHANGED <<now, version, changed, active, suspended, edits>>
  BY <1>2 DEF server
<1>4. /\ r.answer \in Proper /\ r.token \in Tokens
      /\ ~r.answer.user.monitor /\ r.answer.user.of = r.token.of
  BY <1>1, <1>2 DEF Answering, Refreshing
<1>5. /\ r.answer.access \in Timely /\ r.answer.access \in Tokens /\ r.answer.refresh \in Tokens
      /\ r.answer.access.of = r.token.of /\ r.answer.refresh.of = r.token.of
      /\ r.answer.access.company = Home[r.token.of]
  BY <1>4, ProperSession DEF Proper, AtHome
<1>6. store \in [now : Shown, original : Originals \cup {NULL}] /\ store.now \in Shown
  BY <1>1 DEF TypeOK
<1>7. new \in Shown /\ new.user = store.now.user /\ new.access = r.answer.access
      /\ new.refresh = r.answer.refresh
  BY <1>5, <1>6 DEF Shown
<1>. HIDE DEF new
<1>8. store' \in [now : Shown, original : Originals \cup {NULL}] /\ store'.now = new
      /\ store'.original = store.original
  BY <1>2, <1>6, <1>7
<1>9. Timely' = Timely /\ Answering' = Answering /\ Bounded \subseteq Bounded'
      /\ shifted \subseteq shifted' /\ shifted' \subseteq shifted \cup {"current"}
  BY <1>2, <1>3, <1>7, <1>8, TimelySame, BoundedSame
<1>10. PICK x \in Requests :
          /\ call' = [call EXCEPT ![c] = x]
          /\ x.kind = r.kind /\ x.over = r.over
          /\ \/ x.pc = "sent" /\ x.token = r.answer.access
             \/ x.pc = "renewing" /\ x.token \in r.outer /\ x.outer \subseteq r.outer
  <2>1. CASE r.outer = {} /\ call' = [call EXCEPT ![c] =
                                       [r EXCEPT !.pc = "sent", !.token = new.access, !.answer = NULL]]
    <3>. DEFINE y == [r EXCEPT !.pc = "sent", !.token = new.access, !.answer = NULL]
    <3>1. y \in Requests /\ y.kind = r.kind /\ y.over = r.over /\ y.pc = "sent"
          /\ y.token = r.answer.access
      BY <1>1, <1>5, <1>7 DEF Requests, Pcs
    <3>. QED  BY <2>1, <3>1
  <2>2. CASE \E t \in r.outer :
               call' = [call EXCEPT ![c] = [r EXCEPT !.pc = "renewing", !.token = t, !.answer = NULL,
                                                     !.outer = @ \ {t}, !.unwinding = TRUE]]
    <3>1. PICK t \in r.outer :
               call' = [call EXCEPT ![c] = [r EXCEPT !.pc = "renewing", !.token = t, !.answer = NULL,
                                                     !.outer = @ \ {t}, !.unwinding = TRUE]]
      BY <2>2
    <3>. DEFINE y == [r EXCEPT !.pc = "renewing", !.token = t, !.answer = NULL,
                               !.outer = @ \ {t}, !.unwinding = TRUE]
    <3>2. r.outer \subseteq Tokens
      BY <1>1 DEF Requests
    <3>3. y \in Requests /\ y.kind = r.kind /\ y.over = r.over /\ y.pc = "renewing"
          /\ y.token = t /\ y.outer = r.outer \ {t}
      BY <1>1, <3>2 DEF Requests, Pcs
    <3>. QED  BY <3>1, <3>3
  <2>. QED  BY <1>2, <2>1, <2>2
<1>11. x \in Answering
  <2>1. r.outer \subseteq Tokens
    BY <1>1 DEF Requests
  <2>. QED  BY <1>5, <1>10, <2>1 DEF Answering, Refreshing
<1>12. x \in Bounded
  <2>. SUFFICES ASSUME ~x.over
                PROVE  /\ x.kind = "monitor" => store.now.user # NULL
                       /\ x.pc \in Refreshing /\ "current" \notin shifted =>
                             /\ store.now.user # NULL
                             /\ \A t \in x.outer \cup {x.token} : t.of = store.now.user.of
    BY <1>10 DEF Bounded
  <2>1. x.kind = "monitor" => store.now.user # NULL
    BY <1>1, <1>2, <1>10 DEF Bounded
  <2>2. "current" \notin shifted =>
           store.now.user # NULL /\ \A t \in r.outer \cup {r.token} : t.of = store.now.user.of
    BY <1>1, <1>2, <1>10 DEF Bounded, Refreshing
  <2>3. x.pc \in Refreshing => x.outer \cup {x.token} \subseteq r.outer
    BY <1>10 DEF Refreshing
  <2>. QED  BY <2>1, <2>2, <2>3
<1>13. Stored'
  <2>1. store'.now.access \in Timely'
    BY <1>5, <1>7, <1>8, <1>9
  <2>2. store'.now.user # NULL => AtHome(store'.now.user)
    BY <1>1, <1>7, <1>8 DEF Stored
  <2>3. ASSUME "current" \notin shifted' PROVE Agrees(store'.now)
    <3>1. /\ ~r.over /\ store.now.user # NULL /\ ~store.now.user.monitor
          /\ "current" \notin shifted
      BY <1>2, <1>7, <2>3 DEF Monitoring
    <3>2. r.token.of = store.now.user.of
      BY <1>1, <1>2, <3>1 DEF Bounded, Refreshing
    <3>3. store.now.user.company = Home[store.now.user.of]
      BY <1>1, <3>1 DEF Stored, AtHome
    <3>. QED  BY <1>5, <1>7, <1>8, <3>1, <3>2, <3>3 DEF Agrees
  <2>4. store.original # NULL =>
          /\ store'.original.access \in Timely' /\ AtHome(store'.original.user)
          /\ "original" \notin shifted' => Agrees(store'.original)
          /\ revived' \/ ~store'.original.user.monitor
    BY <1>1, <1>2, <1>8, <1>9 DEF Stored
  <2>5. Monitoring' => revived' \/ store'.original # NULL
    BY <1>1, <1>2, <1>7, <1>8 DEF Stored, Monitoring
  <2>. QED  BY <1>8, <2>1, <2>2, <2>3, <2>4, <2>5 DEF Stored
<1>14. call' \in [Calls -> Requests] /\ \A d \in Calls : call'[d] = IF d = c THEN x ELSE call[d]
  BY <1>1, <1>10 DEF TypeOK
<1>15. TypeOK'
  BY <1>1, <1>2, <1>3, <1>8, <1>9, <1>14 DEF TypeOK
<1>16. \A d \in Calls : call'[d] \in Answering' \cap Bounded'
  BY <1>1, <1>9, <1>11, <1>12, <1>14
<1>17. RolesTakeEffect'
  BY <1>1, <1>2 DEF RolesTakeEffect
<1>. QED  BY <1>13, <1>15, <1>16, <1>17 DEF SessionInv

LEMMA TakeLoginStep ==
    ASSUME SessionInv, NEW c \in Calls, TakeLogin(c)
    PROVE  SessionInv'
<1>. DEFINE s == call[c].answer
<1>1. /\ call[c].pc = "answered" /\ call[c].kind = "login"
      /\ store' = [now |-> s, original |-> NULL] /\ page' = "app"
      /\ call' = Over(Under(call, c)) /\ shifted' = {} /\ revived' = FALSE
      /\ UNCHANGED server /\ UNCHANGED overdue
  BY DEF TakeLogin, At
<1>2. s \in Proper /\ ~s.user.monitor
  BY <1>1 DEF SessionInv, Answering
<1>. HIDE DEF s
<1>3. s \in Shown /\ AtHome(s.user) /\ s.access \in Timely /\ Agrees(s)
  BY <1>2, ProperSession
<1>4. Timely' = Timely
  BY <1>1, TimelySame DEF server
<1>5. store'.now = s /\ store'.original = NULL
      /\ store' \in [now : Shown, original : Originals \cup {NULL}]
  BY <1>1, <1>3
<1>6. Stored'
  BY <1>2, <1>3, <1>4, <1>5 DEF Stored, Monitoring
<1>. QED  BY <1>1, <1>5, <1>6, CallsAnswer, SessionStep

LEMMA TakeMonitorStep ==
    ASSUME SessionInv, NEW c \in Calls, TakeMonitor(c)
    PROVE  SessionInv'
<1>. DEFINE s == call[c].answer  keeps == store.original = NULL /\ store.now.user # NULL
<1>1. /\ call[c].pc = "answered" /\ call[c].kind = "monitor"
      /\ store' = [now |-> s, original |-> IF keeps THEN store.now ELSE store.original]
      /\ shifted' = (IF keeps THEN {"original" : k \in shifted \cap {"current"}}
                     ELSE shifted \ {"current"})
      /\ page' = "app" /\ call' = Over(Under(call, c))
      /\ revived' = (revived \/ call[c].over)
      /\ UNCHANGED server /\ UNCHANGED overdue
  BY DEF TakeMonitor, Monitored, At
<1>2. /\ TypeOK /\ Stored /\ s \in Proper /\ call[c] \in Bounded /\ call[c].over \in BOOLEAN
      /\ revived \in BOOLEAN
  BY <1>1 DEF SessionInv, Answering, TypeOK, Requests
<1>3. call[c].over \/ store.now.user # NULL
  BY <1>1, <1>2 DEF Bounded
<1>. HIDE DEF s
<1>4. s \in Shown /\ AtHome(s.user) /\ s.access \in Timely /\ Agrees(s)
  BY <1>2, ProperSession
<1>5. Timely' = Timely
  BY <1>1, TimelySame DEF server
<1>6. store.now \in Shown /\ store.original \in Originals \cup {NULL}
  BY <1>2 DEF TypeOK
<1>7. /\ store'.now = s
      /\ store'.original = IF keeps THEN store.now ELSE store.original
      /\ store' \in [now : Shown, original : Originals \cup {NULL}]
      /\ keeps => store.now \in Originals /\ store.now # NULL
  BY <1>1, <1>4, <1>6, ShownKept
<1>8. /\ "original" \notin shifted' /\ keeps => "current" \notin shifted
      /\ "original" \notin shifted' /\ ~keeps => "original" \notin shifted
      /\ shifted' \subseteq {"current", "original"}
  BY <1>1, <1>2 DEF TypeOK
<1>9. Stored'
  <2>1. store'.original # NULL =>
           /\ store'.original.access \in Timely' /\ AtHome(store'.original.user)
           /\ "original" \notin shifted' => Agrees(store'.original)
           /\ revived' \/ ~store'.original.user.monitor
    <3>1. CASE keeps
      <4>1. store'.original = store.now /\ store.now.access \in Timely
            /\ AtHome(store.now.user) /\ ("current" \notin shifted => Agrees(store.now))
            /\ (store.now.user.monitor => revived)
        BY <1>2, <1>7, <3>1 DEF Stored, Monitoring
      <4>. QED  BY <1>1, <1>5, <1>8, <3>1, <4>1
    <3>2. CASE ~keeps
      <4>1. store'.original = store.original
        BY <1>7, <3>2
      <4>. QED  BY <1>1, <1>2, <1>5, <1>8, <3>2, <4>1 DEF Stored
    <3>. QED  BY <3>1, <3>2
  <2>2. revived' \/ store'.original # NULL
    BY <1>1, <1>3, <1>7
  <2>. QED  BY <1>4, <1>5, <1>7, <2>1, <2>2 DEF Stored
<1>10. revived' \in BOOLEAN
  BY <1>1, <1>2
<1>. QED  BY <1>1, <1>7, <1>8, <1>9, <1>10, CallsAnswer, SessionStep

-----------------------------------------------------------------------------
(* The user, the browser and the administrator *)

LEMMA CallAnswers == SessionInv => call \in [Calls -> Answering]
<1>. SUFFICES ASSUME SessionInv PROVE call \in [Calls -> Answering]
  OBVIOUS
<1>1. call = [d \in Calls |-> call[d]] /\ \A d \in Calls : call[d] \in Answering
  BY DEF SessionInv, TypeOK
<1>. QED  BY <1>1

\* The session that was left comes back.
LEMMA StopMonitorStep ==
    ASSUME SessionInv, StopMonitor
    PROVE  SessionInv'
<1>. DEFINE s == store.original
<1>1. /\ TypeOK /\ Stored /\ RolesTakeEffect /\
           (\A d \in Calls : call[d] \in Answering \cap Bounded)
      /\ s \in Originals \cup {NULL} /\ revived \in BOOLEAN
  BY DEF SessionInv, TypeOK
<1>2. CASE s = NULL
  <2>1. UNCHANGED <<server, page, store, call, shifted, revived, overdue>>
    BY <1>2 DEF StopMonitor, Return
  <2>2. UNCHANGED <<now, version, changed, active, suspended, edits>>
    BY <2>1 DEF server
  <2>3. Answering' = Answering /\ Bounded \subseteq Bounded' /\ Stored'
    BY <1>1, <2>1, <2>2, TimelySame, BoundedSame, StoredSame
  <2>4. TypeOK' /\ RolesTakeEffect'
    BY <1>1, <2>1, <2>2 DEF TypeOK, RolesTakeEffect
  <2>. QED  BY <1>1, <2>1, <2>3, <2>4 DEF SessionInv
<1>3. CASE s # NULL
  <2>1. /\ store' = [now |-> s, original |-> NULL] /\ call' = Over(call)
        /\ shifted' = {"current" : k \in shifted \cap {"original"}}
        /\ revived' = (revived /\ s.user.monitor)
        /\ UNCHANGED server /\ page' = page /\ UNCHANGED overdue
    BY <1>3 DEF StopMonitor, Return
  <2>2. s \in Originals /\ s \in Shown /\ s.user \in Users /\ s.user # NULL /\
          s.user.monitor \in BOOLEAN
    BY <1>1, <1>3, NullAssumption DEF Originals, Shown, Users
  <2>3. /\ s.access \in Timely /\ AtHome(s.user)
        /\ "original" \notin shifted => Agrees(s)
        /\ revived \/ ~s.user.monitor
    BY <1>1, <1>3 DEF Stored
  <2>. HIDE DEF s
  <2>4. store'.now = s /\ store'.original = NULL
        /\ store' \in [now : Shown, original : Originals \cup {NULL}]
    BY <2>1, <2>2
  <2>5. Timely' = Timely
    BY <2>1, TimelySame DEF server
  <2>6. shifted' \subseteq {"current", "original"} /\
          ("current" \notin shifted' => "original" \notin shifted)
    BY <2>1
  <2>7. Stored'
    BY <2>1, <2>2, <2>3, <2>4, <2>5, <2>6 DEF Stored, Monitoring
  <2>8. page' \in {"login", "app"} /\ revived' \in BOOLEAN
    BY <1>1, <2>1, <2>2 DEF TypeOK
  <2>. QED  BY <2>1, <2>4, <2>6, <2>7, <2>8, CallAnswers, SessionStep
<1>. QED  BY <1>2, <1>3

LEMMA LoadStep ==
    ASSUME SessionInv, Load, leaving \in {NULL, "login", "app"}
    PROVE  SessionInv'
<1>1. /\ TypeOK /\ Stored /\ RolesTakeEffect
  BY DEF SessionInv
<1>2. /\ UNCHANGED <<server, store, overdue, shifted, revived>>
      /\ call' = [c \in Calls |-> NoCall]
      /\ page' \in {"login", "app"}
  BY <1>1 DEF Load, history, TypeOK
<1>3. UNCHANGED <<now, version, changed, active, suspended, edits>>
  BY <1>2 DEF server
<1>4. Answering' = Answering /\ Bounded \subseteq Bounded' /\ Stored'
  BY <1>1, <1>2, <1>3, TimelySame, BoundedSame, StoredSame
<1>5. call' \in [Calls -> Requests] /\ \A c \in Calls : call'[c] = NoCall
  BY <1>2, NothingThere
<1>6. TypeOK' /\ RolesTakeEffect'
  BY <1>1, <1>2, <1>3, <1>5 DEF TypeOK, RolesTakeEffect
<1>. QED  BY <1>4, <1>5, <1>6, IdleAnswers DEF SessionInv

\* What is signed stays in order: only times and versions move, and they grow.
LEMMA WorldStep ==
    ASSUME SessionInv, Timely \subseteq Timely', TypeOK',
           UNCHANGED <<store, page, call, shifted, revived, overdue>>
    PROVE  SessionInv'
<1>1. Stored /\ RolesTakeEffect /\ \A d \in Calls : call[d] \in Answering \cap Bounded
  BY DEF SessionInv
<1>2. Answering \subseteq Answering' /\ Bounded \subseteq Bounded'
  BY TimelyGrows, BoundedSame
<1>3. Stored'
  BY <1>1 DEF Stored, Monitoring
<1>4. RolesTakeEffect'
  BY <1>1 DEF RolesTakeEffect
<1>. QED  BY <1>1, <1>2, <1>3, <1>4 DEF SessionInv

LEMMA AdministerStep ==
    ASSUME SessionInv, Administer
    PROVE  SessionInv'
<1>1. TypeOK
  BY DEF SessionInv
<1>2. /\ UNCHANGED <<now, store, page, call, shifted, revived, overdue>>
      /\ edits < MaxEdits /\ edits' = edits + 1
  BY DEF Administer, history
<1>3. edits \in Nat /\ MaxEdits \in Nat /\ edits' \in 0..MaxEdits /\ edits < edits'
      /\ now \in Nat
  BY <1>1, <1>2, BoundsAssumption DEF TypeOK
<1>4. CASE UNCHANGED <<version, changed>> /\ active' \subseteq People /\
        suspended' \subseteq Companies
  <2>1. Timely' = Timely
    BY <1>2, <1>4, TimelySame
  <2>2. \A p \in People : version[p] \in Nat /\ version[p] <= edits'
    BY <1>1, <1>3 DEF TypeOK
  <2>3. TypeOK'
    BY <1>1, <1>2, <1>3, <1>4, <2>2 DEF TypeOK
  <2>. QED  BY <1>2, <2>1, <2>3, WorldStep
<1>5. ASSUME NEW p \in People,
             version' = [version EXCEPT ![p] = @ + 1],
             changed' = [changed EXCEPT ![p][version[p]] = now],
             UNCHANGED <<active, suspended>>
      PROVE  SessionInv'
  <2>1. /\ version[p] \in Nat /\ version[p] <= edits /\ version[p] \in 0..MaxEdits
        /\ changed[p] \in [0..MaxEdits -> Nat]
    BY <1>1, <1>2, <1>3 DEF TypeOK
  <2>2. /\ version' \in [People -> Nat] /\ version'[p] = version[p] + 1
        /\ \A q \in People \ {p} : version'[q] = version[q]
    BY <1>1, <1>5, <2>1 DEF TypeOK
  <2>3. /\ changed' \in [People -> [0..MaxEdits -> Nat]]
        /\ changed'[p][version[p]] = now
        /\ \A v \in 0..MaxEdits \ {version[p]} : changed'[p][v] = changed[p][v]
        /\ \A q \in People \ {p} : changed'[q] = changed[q]
    BY <1>1, <1>3, <1>5, <2>1 DEF TypeOK
  <2>4. \A q \in People : version'[q] <= edits'
    <3>. SUFFICES ASSUME NEW q \in People PROVE version'[q] <= edits'
      OBVIOUS
    <3>1. version[q] \in Nat /\ version[q] <= edits
      BY <1>1 DEF TypeOK
    <3>2. CASE q = p
      BY <1>2, <1>3, <2>1, <2>2, <3>2
    <3>3. CASE q # p
      <4>1. version'[q] = version[q]
        BY <2>2, <3>3
      <4>. QED  BY <1>2, <1>3, <3>1, <4>1
    <3>. QED  BY <3>2, <3>3
  <2>5. \A q \in People : \A v \in 0..MaxEdits : changed'[q][v] <= now
    <3>. SUFFICES ASSUME NEW q \in People, NEW v \in 0..MaxEdits PROVE changed'[q][v] <= now
      OBVIOUS
    <3>1. changed[q][v] <= now
      BY <1>1 DEF TypeOK
    <3>2. CASE q # p
      BY <2>3, <3>1, <3>2
    <3>3. CASE q = p /\ v # version[p]
      BY <2>3, <3>1, <3>3
    <3>4. CASE q = p /\ v = version[p]
      BY <1>3, <2>3, <3>4
    <3>. QED  BY <3>2, <3>3, <3>4
  <2>6. TypeOK'
    BY <1>1, <1>2, <1>3, <1>5, <2>2, <2>3, <2>4, <2>5 DEF TypeOK
  <2>7. Timely \subseteq Timely'
    <3>. SUFFICES ASSUME NEW t \in Tokens, t.roles <= version[t.of],
         t.exp <= SignedBy(t) + AccessLife
                  PROVE  t.roles <= version'[t.of] /\ t.exp <= SignedBy(t)' + AccessLife
      BY DEF Timely
    <3>1. t.of \in People /\ t.roles \in Nat /\ t.exp \in Nat /\ version[t.of] \in Nat
          /\ version[t.of] <= edits /\ AccessLife \in Nat
      BY <1>1, LivesAssumption DEF Tokens, TypeOK
    <3>2. t.roles \in 0..MaxEdits
      BY <1>2, <1>3, <3>1
    <3>3. CASE t.of # p
      <4>1. SignedBy(t)' = SignedBy(t)
        BY <1>2, <2>2, <2>3, <3>1, <3>3 DEF SignedBy
      <4>. QED  BY <2>2, <3>1, <3>3, <4>1
    <3>4. CASE t.of = p /\ t.roles = version[p]
      <4>1. SignedBy(t) = now /\ SignedBy(t)' = now
        BY <1>2, <2>1, <2>2, <2>3, <3>4 DEF SignedBy
      <4>. QED  BY <2>1, <2>2, <3>4, <4>1
    <3>5. CASE t.of = p /\ t.roles # version[p]
      <4>1. t.roles < version[p] /\ t.roles # version[p] + 1
        BY <2>1, <3>1, <3>5
      <4>2. SignedBy(t)' = SignedBy(t)
        BY <2>2, <2>3, <3>2, <3>5, <4>1 DEF SignedBy
      <4>. QED  BY <2>1, <2>2, <3>1, <3>5, <4>1, <4>2
    <3>. QED  BY <3>3, <3>4, <3>5
  <2>. QED  BY <1>2, <2>6, <2>7, WorldStep
<1>6. CASE \E p \in People :
              /\ active' = IF p \in active THEN active \ {p} ELSE active \cup {p}
              /\ UNCHANGED <<suspended, version, changed>>
  BY <1>1, <1>4, <1>6 DEF TypeOK
<1>7. CASE \E t \in Companies :
              /\ suspended' = IF t \in suspended THEN suspended \ {t} ELSE suspended \cup {t}
              /\ UNCHANGED <<active, version, changed>>
  BY <1>1, <1>4, <1>7 DEF TypeOK
<1>. QED  BY <1>5, <1>6, <1>7 DEF Administer

LEMMA TickStep ==
    ASSUME SessionInv, Tick
    PROVE  SessionInv'
<1>1. TypeOK
  BY DEF SessionInv
<1>2. now' = now + 1 /\ now \in Nat
      /\ UNCHANGED <<active, suspended, version, edits, changed, store, page, call,
                     overdue, shifted, revived>>
  BY <1>1 DEF Tick, history, TypeOK
<1>3. now' \in Nat /\ \A p \in People : \A v \in 0..MaxEdits : changed[p][v] <= now'
  <2>1. \A p \in People : \A v \in 0..MaxEdits : changed[p][v] \in Nat /\ changed[p][v] <= now
    BY <1>1 DEF TypeOK
  <2>. QED  BY <1>2, <2>1
<1>4. TypeOK'
  BY <1>1, <1>2, <1>3 DEF TypeOK
<1>5. Timely \subseteq Timely'
  <2>. SUFFICES ASSUME NEW t \in Tokens, t.roles <= version[t.of], t.exp <= SignedBy(t) + AccessLife
                PROVE  t.exp <= SignedBy(t)' + AccessLife
    BY <1>2 DEF Timely
  <2>1. t.exp \in Nat /\ AccessLife \in Nat /\ t.of \in People /\ t.roles \in Nat
        /\ version[t.of] \in Nat /\ version[t.of] \in 0..MaxEdits
    BY <1>1, LivesAssumption, BoundsAssumption DEF Tokens, TypeOK
  <2>2. CASE t.roles = version[t.of]
    BY <1>2, <2>1, <2>2 DEF SignedBy
  <2>3. CASE t.roles # version[t.of]
    BY <1>2, <2>3 DEF SignedBy
  <2>. QED  BY <2>2, <2>3
<1>. QED  BY <1>2, <1>4, <1>5, WorldStep

-----------------------------------------------------------------------------
(* The theorems *)

\* location.href leads to the login page or to the application.
LeavingType == leaving \in {NULL, "login", "app"}

LEMMA NextLeaving == LeavingType /\ [Next]_vars => LeavingType'
<1>. SUFFICES ASSUME LeavingType, [Next]_vars PROVE LeavingType'
  OBVIOUS
<1>1. ASSUME NEW c \in Calls, Send(c) \/ Serve(c) \/ Handle(c) \/ Disconnect(c)
      PROVE  LeavingType'
  <2>1. leaving' \in {leaving, "login"}
    BY <1>1 DEF Send, Serve, Work, Monitor, Login, Renew, Refuse, Handle, HandleDenied,
                HandleUnrenewed, AskRefresh, GiveUp, Fail, Clear, Disconnect, TakeRenewal,
                TakeLogin,
                TakeMonitor, Monitored
  <2>. QED  BY <2>1 DEF LeavingType
<1>2. CASE Logout \/ StopMonitor \/ Load
  BY <1>2 DEF Logout, Clear, StopMonitor, Return, Load, LeavingType
<1>3. CASE Administer \/ Tick \/ UNCHANGED vars
  BY <1>3 DEF Administer, Tick, vars, LeavingType
<1>. QED  BY <1>1, <1>2, <1>3 DEF Next

LEMMA NextSession == LeavingType /\ SessionInv /\ [Next]_vars => SessionInv'
<1>. SUFFICES ASSUME LeavingType, SessionInv, [Next]_vars PROVE SessionInv'
  OBVIOUS
<1>1. ASSUME NEW c \in Calls, Send(c) \/ Serve(c) \/ Handle(c) \/ Disconnect(c)
      PROVE  SessionInv'
  BY <1>1, SendStep, WorkStep, ServerSteps, HandleSteps, TakeRenewalStep, TakeLoginStep,
     TakeMonitorStep DEF Serve, Handle
<1>2. CASE Logout
  BY <1>2, CallAnswers, ClearStep DEF Logout
<1>3. CASE StopMonitor
  BY <1>3, StopMonitorStep
<1>4. CASE Load
  BY <1>4, LoadStep DEF LeavingType
<1>5. CASE Administer
  BY <1>5, AdministerStep
<1>6. CASE Tick
  BY <1>6, TickStep
<1>7. CASE UNCHANGED vars
  <2>1. UNCHANGED <<now, version, changed, active, suspended, edits, store, page, call,
                    shifted, revived, overdue>>
    BY <1>7 DEF vars, server, history
  <2>2. TypeOK' /\ Timely' = Timely
    BY <2>1, TimelySame DEF SessionInv, TypeOK
  <2>. QED  BY <2>1, <2>2, WorldStep
<1>. QED  BY <1>1, <1>2, <1>3, <1>4, <1>5, <1>6, <1>7 DEF Next

LEMMA SpecSession == Spec => []SessionInv
<1>1. Init => LeavingType
  BY DEF Init, LeavingType
<1>. QED  BY <1>1, InitSession, NextLeaving, NextSession, PTL DEF Spec

\* Whatever is renewed, repeated, answered late or answered after the session ended, a
\* request bears the person and the company that the page shows, unless a refresh of
\* another session, or of a monitoring one, replaced its tokens.
THEOREM RequestsAreOfTheSession == Spec => []ActsWhereShown
<1>1. SessionInv => ActsWhereShown
  BY DEF SessionInv, Stored, Agrees, ActsWhereShown
<1>. QED  BY <1>1, SpecSession, PTL

\* Who monitors a company, from however many requests at once, keeps a session of
\* their own to return to, unless the session that asked had ended.
THEOREM OwnSessionIsKept == Spec => []ReturnsToOwnSession
<1>1. SessionInv => ReturnsToOwnSession
  BY DEF SessionInv, Stored, ReturnsToOwnSession
<1>. QED  BY <1>1, SpecSession, PTL

\* However long a session is renewed, superseded roles are accepted for less than the
\* life of an access token.
THEOREM RolesAreTaken == Spec => []RolesTakeEffect
<1>1. SessionInv => RolesTakeEffect
  BY DEF SessionInv
<1>. QED  BY <1>1, SpecSession, PTL

-----------------------------------------------------------------------------
(* The field tablet *)

\* A list of forms of one kind, each once.
ListOf(k, list) ==
    /\ list \in Seq(Forms)
    /\ \A n \in 1..Len(list) : KindOf(list[n]) = k
    /\ \A m, n \in 1..Len(list) : list[m] = list[n] => m = n

SyncRecord == [pc : {"idle", "post", "answered"}, kind : Kinds \cup {"none"}, batch : Seq(Forms),
               next : Nat \ {0}, remaining : Seq(Forms), answer : {"ok", "error", "none"}]

\* What failed is among what was sent.
Working(r) ==
    /\ r \in SyncRecord
    /\ r.pc = "idle" => r = IdleSync
    /\ r.pc # "idle" => r.kind \in Kinds /\ ListOf(r.kind, r.batch) /\ ListOf(r.kind, r.remaining)
    /\ r.pc = "answered" => r.next <= Len(r.batch) /\ r.answer \in {"ok", "error"}
    /\ \A m \in 1..Len(r.remaining) : \E n \in 1..Len(r.batch) : n < r.next /\
         r.batch[n] = r.remaining[m]

TabletTypes ==
    /\ filled \subseteq Forms /\ posting \subseteq filled
    /\ queue \in [Kinds -> Seq(Forms)] /\ \A k \in Kinds : ListOf(k, queue[k])
    /\ DOMAIN sync = Syncs /\ sync = [s \in Syncs |-> sync[s]]
    /\ \A s \in Syncs : Working(sync[s])
    /\ rows \in [Forms -> Nat]
    /\ promised \subseteq Forms /\ overlapped \subseteq Forms /\ doubted \subseteq Forms

Queued(i) == Contains(queue[KindOf(i)], i)
Holds(r, i) == r.pc # "idle" /\ Contains(r.batch, i)

\* A form whose answer the page still waits for is nowhere else.
Nowhere(i) == rows[i] = 0 /\ ~Queued(i) /\ \A s \in Syncs : ~Holds(sync[s], i)
FreshForms == \A i \in Forms : i \notin filled \/ i \in posting => Nowhere(i)

\* r sent i and was told so.
Told(r, i) ==
    /\ \A n \in 1..Len(r.batch) : r.batch[n] = i =>
          n < r.next \/ (n = r.next /\ r.pc = "answered" /\ r.answer = "ok")
    /\ ~Contains(r.remaining, i)

\* At most one run holds a form, and what is made is held by one that knows.
Once(i) ==
    /\ rows[i] <= 1
    /\ \A s, t \in Syncs : Holds(sync[s], i) /\ Holds(sync[t], i) => s = t
    /\ rows[i] = 1 => /\ \A s \in Syncs : Holds(sync[s], i) => Told(sync[s], i)
                      /\ Queued(i) => \E s \in Syncs : Holds(sync[s], i)

\* The answers a run was given are true.
AnswersTrue == \A s \in Syncs :
    sync[s].pc = "answered" /\ sync[s].answer = "ok" => rows[Current(s)] > 0

\* Every run that will save the queue of i will save i.
Saves(r, i) ==
    \/ \E n \in 1..Len(r.batch) : n >= r.next /\ r.batch[n] = i
    \/ Contains(r.remaining, i)
Safe(i) == rows[i] > 0 \/ (Queued(i) /\ \A s \in Writers(KindOf(i)) : Saves(sync[s], i))

TabletInv ==
    /\ TabletTypes /\ FreshForms /\ AnswersTrue
    /\ \A i \in Forms \ doubted : Once(i)
    /\ \A i \in Pedidos : rows[i] <= 1
    /\ \A i \in promised \ overlapped : Safe(i)

LEMMA KindType == \A i \in Forms : KindOf(i) \in Kinds
  BY DEF KindOf, Kinds

LEMMA AppendList ==
    ASSUME NEW k \in Kinds, NEW list, ListOf(k, list), NEW i \in Forms, KindOf(i) = k,
           ~Contains(list, i)
    PROVE  /\ ListOf(k, Append(list, i))
           /\ \A j \in Forms : Contains(Append(list, i), j) <=> Contains(list, j) \/ j = i
<1>. DEFINE longer == Append(list, i)  len == Len(list)
<1>1. list \in Seq(Forms) /\ len \in Nat
  BY DEF ListOf
<1>2. longer \in Seq(Forms) /\ Len(longer) = len + 1
      /\ longer[len + 1] = i /\ \A n \in 1..len : longer[n] = list[n]
  BY <1>1
<1>3. \A n \in 1..(len + 1) : n \in 1..len \/ n = len + 1
  BY <1>1
<1>4. \A n \in 1..len : list[n] # i
  BY DEF Contains
<1>. HIDE DEF longer, len
<1>5. ListOf(k, longer)
  <2>1. \A n \in 1..len : KindOf(list[n]) = k
    BY DEF ListOf, len
  <2>2. \A m, n \in 1..len : list[m] = list[n] => m = n
    BY DEF ListOf, len
  <2>. QED  BY <1>2, <1>3, <1>4, <2>1, <2>2 DEF ListOf
<1>6. \A j \in Forms : Contains(longer, j) <=> Contains(list, j) \/ j = i
  <2>1. \A j \in Forms : Contains(list, j) <=> \E n \in 1..len : list[n] = j
    BY DEF Contains, len
  <2>2. \A j \in Forms : Contains(longer, j) <=> \E n \in 1..(len + 1) : longer[n] = j
    BY <1>2 DEF Contains
  <2>3. 1..len \subseteq 1..(len + 1) /\ len + 1 \in 1..(len + 1)
    BY <1>1
  <2>. QED  BY <1>2, <1>3, <2>1, <2>2, <2>3
<1>. QED  BY <1>5, <1>6 DEF longer

\* What is told of one run, in a step of s alone.
LEMMA SyncAt ==
    ASSUME TabletTypes, NEW s \in Syncs, NEW r, sync' = [sync EXCEPT ![s] = r]
    PROVE  /\ DOMAIN sync' = Syncs /\ sync' = [t \in Syncs |-> sync'[t]]
           /\ sync'[s] = r
           /\ \A t \in Syncs \ {s} : sync'[t] = sync[t]
  BY DEF TabletTypes

\* An idle run holds nothing.
LEMMA IdleRun ==
    /\ Working(IdleSync)
    /\ \A i : ~Holds(IdleSync, i) /\ ~Saves(IdleSync, i)
<1>1. IdleSync \in SyncRecord
  BY DEF IdleSync, SyncRecord
<1>2. Len(IdleSync.batch) = 0 /\ Len(IdleSync.remaining) = 0 /\ IdleSync.pc = "idle"
  BY DEF IdleSync
<1>. QED  BY <1>1, <1>2 DEF Working, Holds, Saves, Contains

\* What a run holds is of its kind; it writes the queue of that kind if it holds any.
LEMMA HoldsFacts ==
    ASSUME NEW r, Working(r), NEW i \in Forms
    PROVE  /\ Holds(r, i) => r.kind = KindOf(i) /\ r.batch # <<>> /\ r.pc # "idle"
           /\ Holds(r, i) <=> Contains(r.batch, i)
           /\ Contains(r.remaining, i) => Holds(r, i)
           /\ Saves(r, i) => Holds(r, i)
<1>1. r.batch \in Seq(Forms) /\ r.remaining \in Seq(Forms) /\ r.next \in Nat \ {0}
  BY DEF Working, SyncRecord
<1>2. r.pc = "idle" => Len(r.batch) = 0 /\ Len(r.remaining) = 0
  BY DEF Working, IdleSync
<1>3. Holds(r, i) <=> Contains(r.batch, i)
  BY <1>1, <1>2 DEF Holds, Contains
<1>4. Holds(r, i) => r.kind = KindOf(i) /\ r.batch # <<>> /\ r.pc # "idle"
  <2>1. SUFFICES ASSUME Holds(r, i) PROVE r.kind = KindOf(i) /\ r.batch # <<>> /\ r.pc # "idle"
    OBVIOUS
  <2>2. r.pc # "idle" /\ ListOf(r.kind, r.batch) /\ Contains(r.batch, i)
    BY <2>1 DEF Holds, Working
  <2>3. PICK n \in 1..Len(r.batch) : r.batch[n] = i
    BY <2>2 DEF Contains
  <2>. QED  BY <1>1, <2>2, <2>3 DEF ListOf
<1>5. Contains(r.remaining, i) => Contains(r.batch, i)
  <2>1. \A m \in 1..Len(r.remaining) : \E n \in 1..Len(r.batch) : r.batch[n] = r.remaining[m]
    BY DEF Working
  <2>. QED  BY <2>1 DEF Contains
<1>6. Saves(r, i) => Contains(r.batch, i)
  BY <1>5 DEF Saves, Contains
<1>. QED  BY <1>3, <1>4, <1>5, <1>6

\* A run that is given an answer, and one that goes on to its next form.
GivenAnswer(r, a) == [r EXCEPT !.pc = "answered", !.answer = a]
Advanced(r) ==
    [r EXCEPT !.pc = "post", !.next = @ + 1, !.answer = "none",
              !.remaining = IF r.answer = "error" THEN Append(@, r.batch[r.next]) ELSE @]

\* A run that has just read the queue of k.
JustRead(k) == [IdleSync EXCEPT !.pc = "post", !.kind = k, !.batch = queue[k]]

LEMMA ReadsRecord ==
    ASSUME TabletTypes, NEW k \in Kinds
    PROVE  LET r == JustRead(k) IN
           /\ Working(r) /\ r.pc = "post" /\ r.kind = k /\ r.batch = queue[k]
           /\ \A i \in Forms : Holds(r, i) <=> KindOf(i) = k /\ Queued(i)
           /\ \A i \in Forms : KindOf(i) = k /\ Queued(i) => Saves(r, i)
<1>. DEFINE r == JustRead(k)
<1>1. queue[k] \in Seq(Forms) /\ ListOf(k, queue[k])
  BY DEF TabletTypes
<1>2. r.pc = "post" /\ r.kind = k /\ r.batch = queue[k] /\ r.next = 1 /\ r.remaining = <<>>
  BY DEF JustRead, IdleSync
<1>3. r \in SyncRecord /\ Len(r.remaining) = 0 /\ r.remaining \in Seq(Forms)
  <2>1. IdleSync \in SyncRecord
    BY IdleRun DEF Working
  <2>2. r \in SyncRecord
    BY <1>1, <2>1 DEF SyncRecord, JustRead
  <2>3. <<>> \in Seq(Forms) /\ Len(<<>>) = 0
    OBVIOUS
  <2>. QED  BY <1>2, <2>2, <2>3
<1>4. ListOf(k, r.remaining)
  BY <1>2, <1>3 DEF ListOf
<1>5. Working(r)
  BY <1>1, <1>2, <1>3, <1>4 DEF Working
<1>6. \A i \in Forms : Contains(queue[k], i) => KindOf(i) = k
  BY <1>1 DEF Contains, ListOf
<1>7. \A i \in Forms : Holds(r, i) <=> Contains(queue[k], i)
  BY <1>2 DEF Holds
<1>8. \A i \in Forms : Contains(queue[k], i) => Saves(r, i)
  <2>. Len(queue[k]) \in Nat
    BY <1>1
  <2>. QED  BY <1>2 DEF Contains, Saves
<1>. QED  BY <1>2, <1>5, <1>6, <1>7, <1>8 DEF Queued

LEMMA AnsweredRecord ==
    ASSUME NEW r, Working(r), r.pc \in {"post", "answered"}, r.next <= Len(r.batch),
           NEW a \in {"ok", "error"}
    PROVE  LET x == GivenAnswer(r, a) IN
           /\ Working(x) /\ x.pc = "answered" /\ x.answer = a /\ x.batch = r.batch
           /\ x.next = r.next /\ x.kind = r.kind
           /\ r.batch[r.next] \in Forms /\ Holds(r, r.batch[r.next])
           /\ r.pc = "post" => ~Told(r, r.batch[r.next])
           /\ \A i \in Forms : Holds(x, i) <=> Holds(r, i)
           /\ \A i \in Forms : Saves(x, i) <=> Saves(r, i)
           /\ r.pc = "post" => \A i \in Forms : Told(r, i) => Told(x, i)
           /\ a = "ok" /\ r.pc = "post" => Told(x, r.batch[r.next])
           /\ \A i \in Forms : Told(r, i) /\ i # r.batch[r.next] => Told(x, i)
<1>. DEFINE x == GivenAnswer(r, a)
<1>1. r \in SyncRecord /\ r.pc # "idle"
  BY DEF Working
<1>2. r.batch \in Seq(Forms) /\ r.next \in Nat \ {0} /\ Len(r.batch) \in Nat
      /\ r.remaining \in Seq(Forms)
  BY <1>1 DEF SyncRecord
<1>3. x \in SyncRecord /\ x.pc = "answered" /\ x.answer = a /\ x.batch = r.batch
      /\ x.next = r.next /\ x.kind = r.kind /\ x.remaining = r.remaining
  BY <1>1 DEF SyncRecord, GivenAnswer
<1>4. Working(x)
  <2>1. r.kind \in Kinds /\ ListOf(r.kind, r.batch) /\ ListOf(r.kind, r.remaining)
        /\ \A m \in 1..Len(r.remaining) : \E n \in 1..Len(r.batch) : n < r.next /\
             r.batch[n] = r.remaining[m]
    BY <1>1 DEF Working
  <2>. QED  BY <1>3, <2>1 DEF Working
<1>5. r.next \in 1..Len(r.batch) /\ r.batch[r.next] \in Forms
  BY <1>2
<1>6. \A m, n \in 1..Len(r.batch) : r.batch[m] = r.batch[n] => m = n
  BY <1>1 DEF Working, ListOf
<1>7. ~Contains(r.remaining, r.batch[r.next])
  <2>1. \A m \in 1..Len(r.remaining) : \E n \in 1..Len(r.batch) : n < r.next /\
          r.batch[n] = r.remaining[m]
    BY DEF Working
  <2>. QED  BY <1>2, <1>5, <1>6, <2>1 DEF Contains
<1>8. Holds(r, r.batch[r.next]) /\ (r.pc = "post" => ~Told(r, r.batch[r.next]))
  BY <1>1, <1>2, <1>5 DEF Holds, Contains, Told
<1>9. \A i \in Forms : (Holds(x, i) <=> Holds(r, i)) /\ (Saves(x, i) <=> Saves(r, i))
  BY <1>1, <1>3 DEF Holds, Saves
<1>10. r.pc = "post" => \A i \in Forms : Told(r, i) => Told(x, i)
  BY <1>3 DEF Told
<1>11. a = "ok" => Told(x, r.batch[r.next])
  BY <1>2, <1>3, <1>5, <1>6, <1>7 DEF Told
<1>12. \A i \in Forms : Told(r, i) /\ i # r.batch[r.next] => Told(x, i)
  BY <1>2, <1>3, <1>5 DEF Told
<1>. QED  BY <1>3, <1>4, <1>5, <1>8, <1>9, <1>10, <1>11, <1>12

\* A run that goes on to its next form.
LEMMA AdvancedRecord ==
    ASSUME NEW r, Working(r), r.pc = "answered"
    PROVE  LET x == Advanced(r) IN
           /\ Working(x) /\ x.pc = "post" /\ x.batch = r.batch /\ x.kind = r.kind
           /\ r.batch[r.next] \in Forms /\ Holds(r, r.batch[r.next])
           /\ r.answer = "error" => ~Told(r, r.batch[r.next])
           /\ \A i \in Forms : Holds(x, i) <=> Holds(r, i)
           /\ \A i \in Forms : Told(r, i) => Told(x, i)
           /\ \A i \in Forms : Saves(r, i) =>
                 Saves(x, i) \/ (i = r.batch[r.next] /\ r.answer = "ok")
<1>. DEFINE x == Advanced(r)
<1>1. r \in SyncRecord /\ r.pc # "idle" /\ r.next <= Len(r.batch) /\ r.answer \in {"ok", "error"}
  BY DEF Working
<1>2. r.batch \in Seq(Forms) /\ r.next \in Nat \ {0} /\ Len(r.batch) \in Nat
      /\ r.remaining \in Seq(Forms)
  BY <1>1 DEF SyncRecord
<1>3. r.next \in 1..Len(r.batch) /\ r.batch[r.next] \in Forms
  BY <1>1, <1>2
<1>. DEFINE i0 == r.batch[r.next]
<1>4. r.kind \in Kinds /\ ListOf(r.kind, r.batch) /\ ListOf(r.kind, r.remaining)
      /\ \A m \in 1..Len(r.remaining) : \E n \in 1..Len(r.batch) : n < r.next /\
           r.batch[n] = r.remaining[m]
  BY <1>1 DEF Working
<1>5. (\A m, n \in 1..Len(r.batch) : r.batch[m] = r.batch[n] => m = n) /\ KindOf(i0) = r.kind
  BY <1>3, <1>4 DEF ListOf
<1>6. ~Contains(r.remaining, i0)
  <2>. SUFFICES ASSUME NEW m \in 1..Len(r.remaining), r.remaining[m] = i0 PROVE FALSE
    BY DEF Contains
  <2>1. PICK n \in 1..Len(r.batch) : n < r.next /\ r.batch[n] = i0
    BY <1>4
  <2>2. n = r.next
    BY <1>3, <1>5, <2>1
  <2>. QED  BY <1>2, <2>1, <2>2
<1>7. ListOf(r.kind, Append(r.remaining, i0))
      /\ \A j \in Forms : Contains(Append(r.remaining, i0), j) <=>
           Contains(r.remaining, j) \/ j = i0
  <2>1. i0 \in Forms
    BY <1>3
  <2>2. r.kind \in Kinds /\ ListOf(r.kind, r.remaining) /\ KindOf(i0) = r.kind
    BY <1>4, <1>5
  <2>. HIDE DEF i0, x
  <2>. QED  BY <1>6, <2>1, <2>2, AppendList
<1>8. x.pc = "post" /\ x.next = r.next + 1 /\ x.answer = "none" /\ x.kind = r.kind
      /\ x.batch = r.batch
      /\ x.remaining = (IF r.answer = "error" THEN Append(r.remaining, i0) ELSE r.remaining)
  BY <1>1 DEF SyncRecord, Advanced
<1>9. x \in SyncRecord /\ x.remaining \in Seq(Forms)
  <2>1. x.remaining \in Seq(Forms)
    BY <1>2, <1>3, <1>8
  <2>. DEFINE failed == IF r.answer = "error" THEN Append(r.remaining, i0) ELSE r.remaining
  <2>2. failed \in Seq(Forms) /\ r.next + 1 \in Nat \ {0}
    BY <1>2, <1>3
  <2>3. x = [r EXCEPT !.pc = "post", !.next = @ + 1, !.answer = "none", !.remaining = failed]
    BY DEF Advanced
  <2>. HIDE DEF failed
  <2>4. x \in SyncRecord
    BY <1>1, <2>2, <2>3 DEF SyncRecord
  <2>. QED  BY <2>1, <2>4
<1>10. ListOf(x.kind, x.remaining)
       /\ \A j \in Forms : Contains(x.remaining, j) <=>
             Contains(r.remaining, j) \/ (r.answer = "error" /\ j = i0)
  BY <1>4, <1>7, <1>8
<1>11. \A m \in 1..Len(x.remaining) : \E n \in 1..Len(x.batch) : n < x.next /\
         x.batch[n] = x.remaining[m]
  <2>. SUFFICES ASSUME NEW m \in 1..Len(x.remaining)
                PROVE  \E n \in 1..Len(x.batch) : n < x.next /\ x.batch[n] = x.remaining[m]
    OBVIOUS
  <2>1. x.remaining[m] \in Forms /\ Contains(x.remaining, x.remaining[m])
    BY <1>9 DEF Contains
  <2>2. Contains(r.remaining, x.remaining[m]) \/ x.remaining[m] = i0
    BY <1>10, <2>1
  <2>3. \E n \in 1..Len(r.batch) : n <= r.next /\ r.batch[n] = x.remaining[m]
    <3>1. CASE Contains(r.remaining, x.remaining[m])
      <4>1. PICK l \in 1..Len(r.remaining) : r.remaining[l] = x.remaining[m]
        BY <3>1 DEF Contains
      <4>2. PICK n \in 1..Len(r.batch) : n < r.next /\ r.batch[n] = r.remaining[l]
        BY <1>4
      <4>. QED  BY <1>2, <4>1, <4>2
    <3>2. CASE x.remaining[m] = i0
      BY <1>2, <1>3, <3>2
    <3>. QED  BY <2>2, <3>1, <3>2
  <2>. QED  BY <1>2, <1>8, <2>3
<1>12. Working(x)
  <2>1. x.kind \in Kinds /\ ListOf(x.kind, x.batch)
    BY <1>4, <1>8
  <2>. QED  BY <1>8, <1>9, <1>10, <1>11, <2>1 DEF Working
<1>13. Holds(r, i0) /\ \A i \in Forms : Holds(x, i) <=> Holds(r, i)
  BY <1>1, <1>3, <1>8 DEF Holds, Contains
<1>14. r.answer = "error" => ~Told(r, i0)
  BY <1>2, <1>3 DEF Told
<1>15. \A i \in Forms : Told(r, i) => Told(x, i)
  <2>. SUFFICES ASSUME NEW i \in Forms, Told(r, i) PROVE Told(x, i)
    OBVIOUS
  <2>1. ~Contains(x.remaining, i)
    BY <1>10, <1>14 DEF Told
  <2>2. \A n \in 1..Len(x.batch) : x.batch[n] = i => n < x.next
    BY <1>2, <1>8 DEF Told
  <2>. QED  BY <2>1, <2>2 DEF Told
<1>16. \A i \in Forms : Saves(r, i) => Saves(x, i) \/ (i = i0 /\ r.answer = "ok")
  <2>. SUFFICES ASSUME NEW i \in Forms, Saves(r, i) PROVE Saves(x, i) \/ (i = i0 /\ r.answer = "ok")
    OBVIOUS
  <2>1. CASE Contains(r.remaining, i)
    BY <1>10, <2>1 DEF Saves
  <2>2. CASE \E n \in 1..Len(r.batch) : n >= r.next /\ r.batch[n] = i
    <3>1. PICK n \in 1..Len(r.batch) : n >= r.next /\ r.batch[n] = i
      BY <2>2
    <3>2. CASE n = r.next
      BY <1>1, <1>10, <3>1, <3>2 DEF Saves
    <3>3. CASE n # r.next
      BY <1>2, <1>8, <3>1, <3>3 DEF Saves
    <3>. QED  BY <3>2, <3>3
  <2>. QED  BY <2>1, <2>2 DEF Saves
<1>. QED  BY <1>3, <1>8, <1>12, <1>13, <1>14, <1>15, <1>16

LEMMA InitTablet == TabletInit => TabletInv
<1>. SUFFICES ASSUME TabletInit PROVE TabletInv
  OBVIOUS
<1>1. \A s \in Syncs : sync[s] = IdleSync
  BY DEF TabletInit
<1>2. \A k \in Kinds : queue[k] = <<>>
  BY DEF TabletInit
<1>3. \A i \in Forms : ~Queued(i) /\ rows[i] = 0 /\ \A s \in Syncs : ~Holds(sync[s], i)
  <2>1. \A i \in Forms : Len(queue[KindOf(i)]) = 0 /\ rows[i] = 0
    <3>1. \A i \in Forms : queue[KindOf(i)] = <<>> /\ rows[i] = 0
      BY <1>2, KindType DEF TabletInit
    <3>2. Len(<<>>) = 0
      OBVIOUS
    <3>. QED  BY <3>1, <3>2
  <2>. QED  BY <1>1, <2>1, IdleRun DEF Queued, Contains
<1>4. TabletTypes
  <2>1. \A k \in Kinds : ListOf(k, queue[k])
    <3>1. <<>> \in Seq(Forms) /\ Len(<<>>) = 0 /\ \A n : n \notin 1..0
      OBVIOUS
    <3>2. \A k : ListOf(k, <<>>)
      BY <3>1 DEF ListOf
    <3>. QED  BY <1>2, <3>2
  <2>2. \A s \in Syncs : Working(sync[s])
    BY <1>1, IdleRun
  <2>. QED  BY <2>1, <2>2 DEF TabletInit, TabletTypes
<1>5. \A s \in Syncs : sync[s].pc = "idle"
  BY <1>1 DEF IdleSync
<1>. QED  BY <1>3, <1>4, <1>5 DEF TabletInv, FreshForms, Nowhere, AnswersTrue, Once, TabletInit,
     Forms

-----------------------------------------------------------------------------
(* A step of one run *)

\* The run of s goes on, and no row is made.
LEMMA RunStep ==
    ASSUME TabletInv, NEW s \in Syncs, NEW x, Working(x), sync' = [sync EXCEPT ![s] = x],
           x.kind = sync[s].kind, x.batch = sync[s].batch,
           UNCHANGED <<client, rows, promised, overlapped>>,
           doubted \subseteq doubted', doubted' \subseteq Forms,
           \A i \in Forms : Holds(x, i) <=> Holds(sync[s], i),
           \A i \in Forms : Saves(sync[s], i) => Saves(x, i) \/ rows[i] > 0,
           \A i \in Forms \ doubted' : Told(sync[s], i) => Told(x, i),
           x.pc = "answered" /\ x.answer = "ok" => rows[x.batch[x.next]] > 0
    PROVE  TabletInv'
<1>1. TabletTypes /\ FreshForms /\ AnswersTrue /\ (\A i \in Forms \ doubted : Once(i))
      /\ (\A i \in Pedidos : rows[i] <= 1) /\ (\A i \in promised \ overlapped : Safe(i))
  BY DEF TabletInv
<1>2. /\ DOMAIN sync' = Syncs /\ sync' = [t \in Syncs |-> sync'[t]]
      /\ sync'[s] = x /\ \A t \in Syncs \ {s} : sync'[t] = sync[t]
  BY <1>1, SyncAt
<1>3. /\ UNCHANGED <<filled, posting, queue, rows, promised, overlapped>>
      /\ \A i \in Forms : Queued(i)' <=> Queued(i)
  BY DEF client, Queued
<1>4. \A t \in Syncs : sync'[t].kind = sync[t].kind /\ sync'[t].batch = sync[t].batch
  BY <1>2
<1>5. \A t \in Syncs, i \in Forms : Holds(sync'[t], i) <=> Holds(sync[t], i)
  BY <1>2
<1>6. \A t \in Syncs, i \in Forms : Saves(sync[t], i) => Saves(sync'[t], i) \/ rows[i] > 0
  BY <1>2
<1>7. \A t \in Syncs, i \in Forms \ doubted' : Told(sync[t], i) => Told(sync'[t], i)
  BY <1>2
<1>8. TabletTypes'
  BY <1>1, <1>2, <1>3 DEF TabletTypes
<1>9. FreshForms'
  BY <1>1, <1>3, <1>5 DEF FreshForms, Nowhere
<1>10. AnswersTrue'
  BY <1>1, <1>2, <1>3 DEF AnswersTrue, Current
<1>11. \A i \in Forms \ doubted' : Once(i)'
  BY <1>1, <1>3, <1>5, <1>7 DEF Once
<1>12. \A i \in promised' \ overlapped' : Safe(i)'
  <2>. SUFFICES ASSUME NEW i \in promised \ overlapped PROVE Safe(i)'
    BY <1>3
  <2>1. i \in Forms /\ Safe(i)
    BY <1>1 DEF TabletTypes
  <2>2. CASE rows[i] > 0
    BY <1>3, <2>2 DEF Safe
  <2>3. CASE ~(rows[i] > 0)
    <3>1. Queued(i)' /\ \A t \in Writers(KindOf(i)) : t \in Syncs /\ Saves(sync[t], i)
      BY <1>3, <2>1, <2>3 DEF Safe, Writers
    <3>2. Writers(KindOf(i))' = Writers(KindOf(i))
      BY <1>4 DEF Writers
    <3>. QED  BY <1>6, <2>1, <2>3, <3>1, <3>2 DEF Safe
  <2>. QED  BY <2>2, <2>3
<1>. QED  BY <1>1, <1>3, <1>8, <1>9, <1>10, <1>11, <1>12 DEF TabletInv

LEMMA RefuseStep ==
    ASSUME TabletInv, NEW s \in Syncs, ServerRefuses(s) \/ LoseAnswer(s)
    PROVE  TabletInv'
<1>. DEFINE r == sync[s]  x == GivenAnswer(r, "error")
<1>1. TabletTypes /\ Working(r) /\ (\A i \in Forms \ doubted : Once(i)) /\ doubted \subseteq Forms
  BY DEF TabletInv, TabletTypes
<1>2. r.pc \in {"post", "answered"} /\ r.next <= Len(r.batch)
  BY <1>1 DEF ServerRefuses, LoseAnswer, Sending, Working
<1>3. sync' = [sync EXCEPT ![s] = x] /\ UNCHANGED <<client, rows, promised, overlapped>>
  <2>1. CASE ServerRefuses(s)
    BY <2>1 DEF ServerRefuses, Answered, marks, GivenAnswer
  <2>2. CASE LoseAnswer(s)
    BY <2>2 DEF LoseAnswer, Answered, GivenAnswer
  <2>. QED  BY <2>1, <2>2
<1>4. (r.pc = "post" /\ doubted' = doubted) \/ doubted' = doubted \cup {r.batch[r.next]}
  BY DEF ServerRefuses, LoseAnswer, Sending, marks, Current
<1>5. /\ Working(x) /\ x.pc = "answered" /\ x.answer = "error" /\ x.batch = r.batch
      /\ x.next = r.next /\ x.kind = r.kind
      /\ r.batch[r.next] \in Forms
      /\ \A i \in Forms : Holds(x, i) <=> Holds(r, i)
      /\ \A i \in Forms : Saves(x, i) <=> Saves(r, i)
      /\ r.pc = "post" => \A i \in Forms : Told(r, i) => Told(x, i)
      /\ \A i \in Forms : Told(r, i) /\ i # r.batch[r.next] => Told(x, i)
  BY <1>1, <1>2, AnsweredRecord
<1>6. doubted \subseteq doubted' /\ doubted' \subseteq Forms
      /\ \A i \in Forms \ doubted' : Told(r, i) => Told(x, i)
  BY <1>1, <1>4, <1>5
<1>7. \A i \in Forms : Saves(sync[s], i) => Saves(x, i) \/ rows[i] > 0
  BY <1>5
<1>. QED  BY <1>3, <1>5, <1>6, <1>7, RunStep

LEMMA AdvanceStep ==
    ASSUME TabletInv, NEW s \in Syncs, Advance(s)
    PROVE  TabletInv'
<1>. DEFINE r == sync[s]
            x == Advanced(r)
<1>1. TabletTypes /\ Working(r) /\ AnswersTrue /\ doubted \subseteq Forms
  BY DEF TabletInv, TabletTypes
<1>2. r.pc = "answered" /\ sync' = [sync EXCEPT ![s] = x]
      /\ UNCHANGED <<client, rows, promised, overlapped>> /\ doubted' = doubted
  <2>1. sync' = [sync EXCEPT ![s] = x]
    BY DEF Advance, Advanced, Current
  <2>. QED  BY <2>1 DEF Advance, marks
<1>3. /\ Working(x) /\ x.pc = "post" /\ x.batch = r.batch /\ x.kind = r.kind
      /\ \A i \in Forms : Holds(x, i) <=> Holds(r, i)
      /\ \A i \in Forms : Told(r, i) => Told(x, i)
      /\ \A i \in Forms : Saves(r, i) =>
            Saves(x, i) \/ (i = r.batch[r.next] /\ r.answer = "ok")
  BY <1>1, <1>2, AdvancedRecord
<1>4. r.answer = "ok" => rows[r.batch[r.next]] > 0
  BY <1>1, <1>2 DEF AnswersTrue, Current
<1>5. \A i \in Forms : Saves(sync[s], i) => Saves(x, i) \/ rows[i] > 0
  BY <1>3, <1>4
<1>6. \A i \in Forms \ doubted' : Told(sync[s], i) => Told(x, i)
  BY <1>3
<1>. QED  BY <1>1, <1>2, <1>3, <1>5, <1>6, RunStep

LEMMA AcceptStep ==
    ASSUME TabletInv, NEW s \in Syncs, ServerAccepts(s)
    PROVE  TabletInv'
<1>. DEFINE r == sync[s]  x == GivenAnswer(r, "ok")  i0 == r.batch[r.next]
<1>1. TabletTypes /\ FreshForms /\ AnswersTrue /\ (\A i \in Forms \ doubted : Once(i))
      /\ (\A i \in Pedidos : rows[i] <= 1) /\ (\A i \in promised \ overlapped : Safe(i))
  BY DEF TabletInv
<1>2. Working(r) /\ rows \in [Forms -> Nat]
  BY <1>1 DEF TabletTypes
<1>3. r.pc = "post" /\ r.next <= Len(r.batch) /\ sync' = [sync EXCEPT ![s] = x]
      /\ rows' = [rows EXCEPT ![i0] = @ + 1] /\ Creates(i0)
      /\ UNCHANGED <<filled, posting, queue, promised, overlapped, doubted>>
  BY DEF ServerAccepts, Sending, Answered, RowMade, Current, client, marks, GivenAnswer
<1>4. /\ Working(x) /\ x.pc = "answered" /\ x.answer = "ok" /\ x.batch = r.batch
      /\ x.next = r.next /\ x.kind = r.kind
      /\ i0 \in Forms /\ Holds(r, i0) /\ ~Told(r, i0) /\ Told(x, i0)
      /\ \A i \in Forms : Holds(x, i) <=> Holds(r, i)
      /\ \A i \in Forms : Saves(x, i) <=> Saves(r, i)
      /\ \A i \in Forms : Told(r, i) => Told(x, i)
  BY <1>2, <1>3, AnsweredRecord
<1>. HIDE DEF i0
<1>5. /\ DOMAIN sync' = Syncs /\ sync' = [t \in Syncs |-> sync'[t]]
      /\ sync'[s] = x /\ \A t \in Syncs \ {s} : sync'[t] = sync[t]
  BY <1>1, <1>3, SyncAt
<1>6. \A i \in Forms : Queued(i)' <=> Queued(i)
  BY <1>3 DEF Queued
<1>7. \A t \in Syncs : sync'[t].kind = sync[t].kind /\ sync'[t].batch = sync[t].batch
  BY <1>4, <1>5
<1>8. \A t \in Syncs, i \in Forms : /\ Holds(sync'[t], i) <=> Holds(sync[t], i)
                                    /\ Saves(sync'[t], i) <=> Saves(sync[t], i)
                                    /\ Told(sync[t], i) => Told(sync'[t], i)
  BY <1>4, <1>5
<1>9. rows'[i0] = rows[i0] + 1 /\ rows[i0] \in Nat
      /\ (\A i \in Forms \ {i0} : rows'[i] = rows[i]) /\ rows' \in [Forms -> Nat]
  BY <1>2, <1>3, <1>4
<1>10. TabletTypes'
  BY <1>1, <1>3, <1>4, <1>5, <1>9 DEF TabletTypes
<1>11. FreshForms'
  <2>1. i0 \in filled /\ i0 \notin posting
    BY <1>1, <1>4 DEF FreshForms, Nowhere
  <2>. QED  BY <1>1, <1>3, <1>6, <1>8, <1>9, <2>1 DEF FreshForms, Nowhere
<1>12. AnswersTrue'
  <2>. SUFFICES ASSUME NEW t \in Syncs, sync'[t].pc = "answered", sync'[t].answer = "ok"
                PROVE  rows'[sync'[t].batch[sync'[t].next]] > 0
    BY DEF AnswersTrue, Current
  <2>1. CASE t = s
    BY <1>4, <1>5, <1>9, <2>1 DEF i0
  <2>2. CASE t # s
    <3>1. sync'[t] = sync[t] /\ rows[sync[t].batch[sync[t].next]] > 0
      BY <1>1, <1>5, <2>2 DEF AnswersTrue, Current
    <3>2. sync[t].batch[sync[t].next] \in Forms
      <4>1. sync[t].next <= Len(sync[t].batch) /\ sync[t] \in SyncRecord
        BY <1>1, <2>2, <3>1 DEF TabletTypes, Working
      <4>. QED  BY <4>1 DEF SyncRecord
    <3>. QED  BY <1>9, <3>1, <3>2
  <2>. QED  BY <2>1, <2>2
<1>13. \A i \in Forms \ doubted' : Once(i)'
  <2>. SUFFICES ASSUME NEW i \in Forms \ doubted PROVE Once(i)'
    BY <1>3
  <2>1. Once(i)
    BY <1>1
  <2>2. CASE i # i0
    BY <1>6, <1>8, <1>9, <2>1, <2>2 DEF Once
  <2>3. CASE i = i0
    <3>1. rows[i] = 0
      BY <1>4, <1>9, <2>1, <2>3 DEF Once
    <3>2. \A t \in Syncs : Holds(sync[t], i) => t = s
      BY <1>4, <2>1, <2>3 DEF Once
    <3>. QED  BY <1>4, <1>5, <1>6, <1>8, <1>9, <2>1, <2>3, <3>1, <3>2 DEF Once
  <2>. QED  BY <2>2, <2>3
<1>14. \A i \in Pedidos : rows'[i] <= 1
  <2>. SUFFICES ASSUME NEW i \in Pedidos PROVE rows'[i] <= 1
    OBVIOUS
  <2>1. CASE i = i0
    BY <1>3, <1>9, <2>1 DEF Creates
  <2>2. CASE i # i0
    BY <1>1, <1>9, <2>2 DEF Forms
  <2>. QED  BY <2>1, <2>2
<1>15. \A i \in promised' \ overlapped' : Safe(i)'
  <2>. SUFFICES ASSUME NEW i \in promised \ overlapped PROVE Safe(i)'
    BY <1>3
  <2>1. i \in Forms /\ Safe(i) /\ rows'[i] >= rows[i] /\ rows[i] \in Nat /\ rows'[i] \in Nat
    BY <1>1, <1>9 DEF TabletTypes
  <2>2. Writers(KindOf(i))' = Writers(KindOf(i)) /\ Writers(KindOf(i)) \subseteq Syncs
    BY <1>7 DEF Writers
  <2>. QED  BY <1>6, <1>8, <2>1, <2>2 DEF Safe
<1>. QED  BY <1>10, <1>11, <1>12, <1>13, <1>14, <1>15 DEF TabletInv

-----------------------------------------------------------------------------
(* The form *)

\* A form that no answer is awaited for.
LEMMA PostStep ==
    ASSUME TabletInv, NEW i \in Forms, SubmitOnline(i) \/ FormAccepted(i)
    PROVE  TabletInv'
<1>1. TabletTypes /\ FreshForms /\ AnswersTrue /\ (\A j \in Forms \ doubted : Once(j))
      /\ (\A j \in Pedidos : rows[j] <= 1) /\ (\A j \in promised \ overlapped : Safe(j))
  BY DEF TabletInv
<1>2. /\ UNCHANGED <<sync, queue, promised, overlapped, doubted>>
      /\ \/ /\ i \notin filled /\ filled' = filled \cup {i} /\ posting' = posting \cup {i}
            /\ rows' = rows
         \/ /\ i \in posting /\ filled' = filled /\ posting' = posting \ {i}
            /\ rows' = [rows EXCEPT ![i] = @ + 1]
      /\ i \notin filled \/ i \in posting
  BY DEF SubmitOnline, FormAccepted, RowMade, CanSubmit, marks
<1>3. Nowhere(i)
  BY <1>1, <1>2 DEF FreshForms
<1>4. /\ rows[i] = 0 /\ ~Queued(i) /\ \A t \in Syncs : ~Holds(sync[t], i)
      /\ rows' \in [Forms -> Nat] /\ rows'[i] \in 0..1 /\ \A j \in Forms \ {i} : rows'[j] = rows[j]
      /\ \A j \in Forms : Queued(j)' <=> Queued(j)
  BY <1>1, <1>2, <1>3 DEF Nowhere, TabletTypes, Queued
<1>5. TabletTypes'
  BY <1>1, <1>2, <1>4 DEF TabletTypes
<1>6. FreshForms'
  <2>. SUFFICES ASSUME NEW j \in Forms, j \notin filled' \/ j \in posting' PROVE Nowhere(j)'
    BY DEF FreshForms
  <2>1. (j \notin filled \/ j \in posting) /\ (j = i => rows' = rows)
    BY <1>1, <1>2 DEF TabletTypes
  <2>2. Nowhere(j)
    BY <1>1, <2>1 DEF FreshForms
  <2>3. rows'[j] = rows[j]
    BY <1>4, <2>1
  <2>. QED  BY <1>2, <1>4, <2>2, <2>3 DEF Nowhere
<1>7. AnswersTrue'
  <2>. SUFFICES ASSUME NEW t \in Syncs, sync[t].pc = "answered", sync[t].answer = "ok"
                PROVE  rows'[Current(t)] > 0
    BY <1>2 DEF AnswersTrue, Current
  <2>1. rows[Current(t)] > 0
    BY <1>1 DEF AnswersTrue
  <2>2. Current(t) \in Forms
    BY <1>1 DEF TabletTypes, Working, SyncRecord, Current
  <2>. QED  BY <1>4, <2>1, <2>2
<1>8. \A j \in Forms \ doubted' : Once(j)'
  <2>. SUFFICES ASSUME NEW j \in Forms \ doubted PROVE Once(j)'
    BY <1>2
  <2>1. CASE j = i
    BY <1>2, <1>4, <2>1 DEF Once
  <2>2. CASE j # i
    <3>1. Once(j)
      BY <1>1
    <3>. QED  BY <1>2, <1>4, <2>2, <3>1 DEF Once
  <2>. QED  BY <2>1, <2>2
<1>9. \A j \in Pedidos : rows'[j] <= 1
  BY <1>1, <1>4 DEF Forms
<1>10. \A j \in promised' \ overlapped' : Safe(j)'
  <2>. SUFFICES ASSUME NEW j \in promised \ overlapped PROVE Safe(j)'
    BY <1>2
  <2>1. j \in Forms /\ Safe(j) /\ rows'[j] >= rows[j] /\ rows[j] \in Nat /\ rows'[j] \in Nat
    BY <1>1, <1>4 DEF TabletTypes
  <2>2. Writers(KindOf(j))' = Writers(KindOf(j)) /\ Writers(KindOf(j)) \subseteq Syncs
    BY <1>2 DEF Writers
  <2>. QED  BY <1>2, <1>4, <2>1, <2>2 DEF Safe
<1>. QED  BY <1>5, <1>6, <1>7, <1>8, <1>9, <1>10 DEF TabletInv

LEMMA EnqueueStep ==
    ASSUME TabletInv, NEW i \in Forms, SubmitOffline(i) \/ FormFailed(i) \/ FormAnswerLost(i)
    PROVE  TabletInv'
<1>. DEFINE k0 == KindOf(i)
<1>1. TabletTypes /\ FreshForms /\ AnswersTrue /\ (\A j \in Forms \ doubted : Once(j))
      /\ (\A j \in Pedidos : rows[j] <= 1) /\ (\A j \in promised \ overlapped : Safe(j))
  BY DEF TabletInv
<1>2. sync' = sync /\ Enqueue(i) /\ (i \notin filled \/ i \in posting)
      /\ filled' = filled \cup {i} /\ posting' = posting \ {i}
  <2>1. CASE SubmitOffline(i)
    BY <1>1, <2>1 DEF SubmitOffline, CanSubmit, TabletTypes
  <2>2. CASE FormFailed(i) \/ FormAnswerLost(i)
    BY <1>1, <2>2 DEF FormFailed, FormAnswerLost, TabletTypes
  <2>. QED  BY <2>1, <2>2
<1>3. /\ queue' = [queue EXCEPT ![k0] = Append(@, i)]
      /\ promised' = promised \cup {i}
      /\ overlapped' = IF Writers(k0) # {} THEN overlapped \cup {i} ELSE overlapped
  BY <1>2 DEF Enqueue
<1>4. \/ rows' = rows /\ doubted' = doubted
      \/ rows' = [rows EXCEPT ![i] = @ + 1] /\ doubted' = doubted \cup {i}
  BY DEF SubmitOffline, FormFailed, FormAnswerLost, RowMade
<1>5. /\ rows[i] = 0 /\ ~Queued(i) /\ \A t \in Syncs : ~Holds(sync[t], i)
      /\ rows' \in [Forms -> Nat] /\ rows'[i] \in 0..1 /\ \A j \in Forms \ {i} : rows'[j] = rows[j]
  BY <1>1, <1>2, <1>4 DEF FreshForms, Nowhere, TabletTypes
<1>6. k0 \in Kinds /\ ListOf(k0, queue[k0]) /\ ~Contains(queue[k0], i)
  BY <1>1, <1>5, KindType DEF TabletTypes, Queued
<1>. HIDE DEF k0
<1>7. /\ ListOf(k0, Append(queue[k0], i))
      /\ \A j \in Forms : Contains(Append(queue[k0], i), j) <=> Contains(queue[k0], j) \/ j = i
  BY <1>6, AppendList DEF k0
<1>8. /\ queue' \in [Kinds -> Seq(Forms)] /\ \A k \in Kinds : ListOf(k, queue'[k])
      /\ \A j \in Forms : Queued(j)' <=> Queued(j) \/ j = i
  <2>1. queue'[k0] = Append(queue[k0], i) /\ DOMAIN queue' = Kinds
        /\ \A k \in Kinds \ {k0} : queue'[k] = queue[k]
    BY <1>1, <1>3, <1>6 DEF TabletTypes
  <2>2. Append(queue[k0], i) \in Seq(Forms)
    BY <1>6 DEF ListOf
  <2>3. queue' \in [Kinds -> Seq(Forms)]
    BY <1>1, <1>3, <2>2 DEF TabletTypes
  <2>4. \A k \in Kinds : ListOf(k, queue'[k])
    BY <1>1, <1>7, <2>1 DEF TabletTypes
  <2>5. \A j \in Forms : Queued(j)' <=> Queued(j) \/ j = i
    BY <1>7, <2>1, KindType DEF Queued, k0
  <2>. QED  BY <2>3, <2>4, <2>5
<1>9. TabletTypes'
  BY <1>1, <1>2, <1>3, <1>4, <1>5, <1>8 DEF TabletTypes
<1>10. FreshForms'
  BY <1>1, <1>2, <1>5, <1>8 DEF FreshForms, Nowhere
<1>11. AnswersTrue'
  <2>. SUFFICES ASSUME NEW t \in Syncs, sync[t].pc = "answered", sync[t].answer = "ok"
                PROVE  rows'[Current(t)] > 0
    BY <1>2 DEF AnswersTrue, Current
  <2>1. rows[Current(t)] > 0
    BY <1>1 DEF AnswersTrue
  <2>2. Current(t) \in Forms
    BY <1>1 DEF TabletTypes, Working, SyncRecord, Current
  <2>. QED  BY <1>5, <2>1, <2>2
<1>12. \A j \in Forms \ doubted' : Once(j)'
  <2>. SUFFICES ASSUME NEW j \in Forms \ doubted' PROVE Once(j)'
    OBVIOUS
  <2>1. CASE j = i
    <3>1. rows'[i] = 0
      BY <1>4, <1>5, <2>1
    <3>. QED  BY <1>2, <1>5, <2>1, <3>1 DEF Once
  <2>2. CASE j # i
    <3>1. Once(j)
      BY <1>1, <1>4
    <3>. QED  BY <1>2, <1>5, <1>8, <2>2, <3>1 DEF Once
  <2>. QED  BY <2>1, <2>2
<1>13. \A j \in Pedidos : rows'[j] <= 1
  BY <1>1, <1>5 DEF Forms
<1>14. \A j \in promised' \ overlapped' : Safe(j)'
  <2>. SUFFICES ASSUME NEW j \in promised' \ overlapped' PROVE Safe(j)'
    OBVIOUS
  <2>1. j \in Forms /\ Writers(KindOf(j))' = Writers(KindOf(j)) /\
          Writers(KindOf(j)) \subseteq Syncs
    BY <1>1, <1>2, <1>3 DEF TabletTypes, Writers
  <2>2. CASE j = i
    <3>1. Writers(k0) = {}
      BY <1>3, <2>2
    <3>. QED  BY <1>8, <2>1, <2>2, <3>1 DEF Safe, k0
  <2>3. CASE j # i
    <3>1. Safe(j)
      BY <1>1, <1>3, <2>3
    <3>. QED  BY <1>2, <1>5, <1>8, <2>1, <2>3, <3>1 DEF Safe
  <2>. QED  BY <2>2, <2>3
<1>. QED  BY <1>9, <1>10, <1>11, <1>12, <1>13, <1>14 DEF TabletInv

-----------------------------------------------------------------------------
(* Runs that save the queue, or read it *)

\* What the queue is after the run of s saved what failed.
LEMMA SavedFacts ==
    ASSUME TabletInv, NEW s \in Syncs, sync[s].pc = "idle" \/ Drained(s), queue' = Saved(s)
    PROVE  /\ queue' \in [Kinds -> Seq(Forms)] /\ \A k \in Kinds : ListOf(k, queue'[k])
           /\ \A i \in Forms : Saves(sync[s], i) <=> Contains(sync[s].remaining, i)
           /\ \A i \in Forms : s \in Writers(KindOf(i)) =>
                 (Queued(i)' <=> Contains(sync[s].remaining, i))
           /\ \A i \in Forms : s \notin Writers(KindOf(i)) => (Queued(i)' <=> Queued(i))
<1>. DEFINE r == sync[s]
<1>1. TabletTypes /\ Working(r)
  BY DEF TabletInv, TabletTypes
<1>2. r \in SyncRecord
  BY <1>1 DEF Working
<1>3. r.next \in Nat /\ r.batch \in Seq(Forms) /\ Len(r.batch) \in Nat
  BY <1>2 DEF SyncRecord
<1>4. r.next > Len(r.batch)
  <2>1. CASE r.pc = "idle"
    BY <1>1, <2>1 DEF Working, IdleSync
  <2>2. CASE Drained(s)
    BY <1>3, <2>2 DEF Drained
  <2>. QED  BY <2>1, <2>2
<1>5. \A i \in Forms : Saves(r, i) <=> Contains(r.remaining, i)
  BY <1>3, <1>4 DEF Saves
<1>6. CASE r.batch = <<>>
  <2>1. queue' = queue /\ \A k : s \notin Writers(k)
    BY <1>6 DEF Saved, Writers
  <2>. QED  BY <1>1, <1>5, <2>1 DEF TabletTypes, Queued
<1>7. CASE r.batch # <<>>
  <2>1. r.pc # "idle"
    BY <1>1, <1>7 DEF Working, IdleSync
  <2>2. r.kind \in Kinds /\ ListOf(r.kind, r.remaining) /\ r.remaining \in Seq(Forms)
    BY <1>1, <1>2, <2>1 DEF Working, SyncRecord
  <2>3. queue' = [queue EXCEPT ![r.kind] = r.remaining]
    BY <1>7 DEF Saved
  <2>4. \A k : s \in Writers(k) <=> r.kind = k
    BY <1>7 DEF Writers
  <2>5. queue' \in [Kinds -> Seq(Forms)] /\ queue'[r.kind] = r.remaining
        /\ \A k \in Kinds \ {r.kind} : queue'[k] = queue[k]
    BY <1>1, <2>2, <2>3 DEF TabletTypes
  <2>6. \A k \in Kinds : ListOf(k, queue'[k])
    BY <1>1, <2>2, <2>5 DEF TabletTypes
  <2>. QED  BY <1>5, <2>4, <2>5, <2>6, KindType DEF Queued
<1>. QED  BY <1>6, <1>7

\* The run of s saves what failed and becomes x: one that holds nothing, or what it
\* finds in a queue and no other run holds, unless the form is doubted.
LEMMA TurnStep ==
    ASSUME TabletInv, NEW s \in Syncs, sync[s].pc = "idle" \/ Drained(s), queue' = Saved(s),
           NEW x, Working(x), x.pc # "answered", sync' = [sync EXCEPT ![s] = x],
           UNCHANGED <<filled, posting, rows, promised, overlapped>>,
           doubted \subseteq doubted', doubted' \subseteq Forms,
           \A i \in Forms : Holds(x, i) =>
              /\ Queued(i) /\ Queued(i)'
              /\ i \in doubted' \/ \A t \in Syncs : ~Holds(sync[t], i),
           \A i \in Forms : x.kind = KindOf(i) /\ x.batch # <<>> /\ Queued(i)' => Saves(x, i)
    PROVE  TabletInv'
<1>. DEFINE r == sync[s]
<1>1. TabletTypes /\ FreshForms /\ AnswersTrue /\ (\A j \in Forms \ doubted : Once(j))
      /\ (\A j \in Pedidos : rows[j] <= 1) /\ (\A j \in promised \ overlapped : Safe(j))
  BY DEF TabletInv
<1>2. /\ DOMAIN sync' = Syncs /\ sync' = [t \in Syncs |-> sync'[t]]
      /\ sync'[s] = x /\ \A t \in Syncs \ {s} : sync'[t] = sync[t]
  BY <1>1, SyncAt
<1>3. /\ queue' \in [Kinds -> Seq(Forms)] /\ \A k \in Kinds : ListOf(k, queue'[k])
      /\ \A i \in Forms : Saves(r, i) <=> Contains(r.remaining, i)
      /\ \A i \in Forms : s \in Writers(KindOf(i)) => (Queued(i)' <=> Contains(r.remaining, i))
      /\ \A i \in Forms : s \notin Writers(KindOf(i)) => (Queued(i)' <=> Queued(i))
  BY SavedFacts
<1>4. \A t \in Syncs, i \in Forms :
         /\ Holds(sync[t], i) => t \in Writers(KindOf(i))
         /\ Contains(sync[t].remaining, i) => Holds(sync[t], i)
  BY <1>1, HoldsFacts DEF TabletTypes, Writers
<1>5. TabletTypes'
  BY <1>1, <1>2, <1>3 DEF TabletTypes
<1>6. FreshForms'
  <2>. SUFFICES ASSUME NEW i \in Forms, i \notin filled \/ i \in posting PROVE Nowhere(i)'
    BY DEF FreshForms
  <2>1. Nowhere(i)
    BY <1>1 DEF FreshForms
  <2>2. rows'[i] = 0 /\ ~Queued(i) /\ \A t \in Syncs : ~Holds(sync[t], i)
    BY <2>1 DEF Nowhere
  <2>3. ~Queued(i)'
    BY <1>3, <1>4, <2>2
  <2>. QED  BY <1>2, <2>2, <2>3 DEF Nowhere
<1>7. AnswersTrue'
  BY <1>1, <1>2 DEF AnswersTrue, Current
<1>8. \A i \in Forms \ doubted' : Once(i)'
  <2>. SUFFICES ASSUME NEW i \in Forms \ doubted' PROVE Once(i)'
    OBVIOUS
  <2>1. Once(i)
    BY <1>1
  <2>2. /\ rows[i] <= 1
        /\ \A t, u \in Syncs : Holds(sync[t], i) /\ Holds(sync[u], i) => t = u
        /\ rows[i] = 1 => /\ \A t \in Syncs : Holds(sync[t], i) => Told(sync[t], i)
                          /\ Queued(i) => \E t \in Syncs : Holds(sync[t], i)
    BY <2>1 DEF Once
  <2>3. \A t, u \in Syncs : Holds(sync'[t], i) /\ Holds(sync'[u], i) => t = u
    BY <1>2, <2>2
  <2>4. ASSUME rows[i] = 1 PROVE ~Holds(x, i)
    BY <2>2, <2>4
  <2>5. ASSUME rows[i] = 1 PROVE \A t \in Syncs : Holds(sync'[t], i) => Told(sync'[t], i)
    BY <1>2, <2>2, <2>4, <2>5
  <2>6. ASSUME rows[i] = 1, Queued(i)' PROVE \E t \in Syncs : Holds(sync'[t], i)
    <3>1. s \notin Writers(KindOf(i))
      <4>1. SUFFICES ASSUME s \in Writers(KindOf(i)) PROVE FALSE
        OBVIOUS
      <4>2. Contains(r.remaining, i) /\ Holds(r, i)
        BY <1>3, <1>4, <2>6, <4>1
      <4>3. Told(r, i)
        BY <2>2, <2>6, <4>2
      <4>. QED  BY <4>2, <4>3 DEF Told
    <3>2. Queued(i) /\ ~Holds(r, i)
      BY <1>3, <1>4, <2>6, <3>1
    <3>3. PICK t \in Syncs : Holds(sync[t], i)
      BY <2>2, <2>6, <3>2
    <3>. QED  BY <1>2, <3>2, <3>3
  <2>. QED  BY <2>2, <2>3, <2>5, <2>6 DEF Once
<1>9. \A i \in promised' \ overlapped' : Safe(i)'
  <2>. SUFFICES ASSUME NEW i \in promised \ overlapped, ~(rows[i] > 0) PROVE Safe(i)'
    BY DEF Safe
  <2>1. i \in Forms /\ Safe(i)
    BY <1>1 DEF TabletTypes
  <2>2. Queued(i) /\ \A t \in Writers(KindOf(i)) : Saves(sync[t], i)
    BY <2>1 DEF Safe
  <2>3. Queued(i)'
    BY <1>3, <2>1, <2>2
  <2>4. ASSUME NEW t \in Writers(KindOf(i))' PROVE Saves(sync'[t], i)
    <3>1. t \in Syncs /\ sync'[t].kind = KindOf(i) /\ sync'[t].batch # <<>>
      BY <2>4 DEF Writers
    <3>2. CASE t = s
      BY <1>2, <2>1, <2>3, <3>1, <3>2
    <3>3. CASE t # s
      BY <1>2, <2>2, <3>1, <3>3 DEF Writers
    <3>. QED  BY <3>2, <3>3
  <2>. QED  BY <2>3, <2>4 DEF Safe
<1>. QED  BY <1>1, <1>5, <1>6, <1>7, <1>8, <1>9 DEF TabletInv

\* A run that reads the queue of k, which it does not write itself.
LEMMA ReadStep ==
    ASSUME TabletInv, NEW s \in Syncs, sync[s].pc = "idle" \/ Drained(s), queue' = Saved(s),
           NEW k \in Kinds, queue'[k] = queue[k], Reads(s, k),
           UNCHANGED <<filled, posting, rows, promised, overlapped>>
    PROVE  TabletInv'
<1>. DEFINE x == JustRead(k)
<1>1. TabletTypes /\ queue' \in [Kinds -> Seq(Forms)]
  BY SavedFacts DEF TabletInv
<1>2. sync' = [sync EXCEPT ![s] = x] /\ doubted' = doubted \cup Shared(queue[k], k)
  BY DEF Reads, JustRead
<1>3. /\ Working(x) /\ x.pc = "post" /\ x.kind = k /\ x.batch = queue[k]
      /\ \A i \in Forms : Holds(x, i) <=> KindOf(i) = k /\ Queued(i)
      /\ \A i \in Forms : KindOf(i) = k /\ Queued(i) => Saves(x, i)
  BY <1>1, ReadsRecord
<1>. HIDE DEF x
<1>4. \A i \in Forms : KindOf(i) = k => (Queued(i)' <=> Queued(i))
  BY DEF Queued
<1>5. Range(queue[k]) \subseteq Forms
      /\ \A i \in Forms : Contains(queue[k], i) => i \in Range(queue[k])
  <2>1. queue[k] \in Seq(Forms) /\ DOMAIN queue[k] = 1..Len(queue[k])
    BY <1>1 DEF TabletTypes
  <2>. QED  BY <2>1 DEF Range, Contains
<1>6. doubted \subseteq doubted' /\ doubted' \subseteq Forms
  BY <1>1, <1>2, <1>5 DEF Shared, TabletTypes
<1>7. ASSUME NEW i \in Forms, Holds(x, i)
      PROVE  /\ Queued(i) /\ Queued(i)'
             /\ i \in doubted' \/ \A t \in Syncs : ~Holds(sync[t], i)
  <2>1. KindOf(i) = k /\ Queued(i) /\ Queued(i)' /\ i \in Range(queue[k])
    BY <1>3, <1>4, <1>5, <1>7 DEF Queued
  <2>2. ASSUME NEW t \in Syncs, Holds(sync[t], i) PROVE i \in doubted'
    <3>1. t \in Writers(k) /\ Contains(sync[t].batch, i)
      BY <1>1, <2>1, <2>2, HoldsFacts DEF TabletTypes, Writers
    <3>. QED  BY <1>2, <2>1, <3>1 DEF Shared
  <2>. QED  BY <2>1, <2>2
<1>8. \A i \in Forms : x.kind = KindOf(i) /\ x.batch # <<>> /\ Queued(i)' => Saves(x, i)
  BY <1>3, <1>4
<1>9. x.pc # "answered"
  BY <1>3
<1>. QED  BY <1>2, <1>3, <1>6, <1>7, <1>8, <1>9, TurnStep

LEMMA SyncSteps ==
    ASSUME TabletInv, NEW s \in Syncs, PressSync(s) \/ GoOnline(s) \/ TurnToFuel(s) \/ EndSync(s)
    PROVE  TabletInv'
<1>1. TabletTypes /\ Working(sync[s])
  BY DEF TabletInv, TabletTypes
<1>2. CASE PressSync(s) \/ GoOnline(s)
  <2>1. sync[s].pc = "idle" /\ Reads(s, "pedidos") /\ queue' = queue
        /\ UNCHANGED <<filled, posting, rows, promised, overlapped>>
    BY <1>2 DEF PressSync, GoOnline, StartSync
  <2>2. queue' = Saved(s) /\ "pedidos" \in Kinds
    BY <1>1, <2>1 DEF Working, IdleSync, Saved, Kinds
  <2>. QED  BY <2>1, <2>2, ReadStep
<1>3. CASE TurnToFuel(s)
  <2>1. Drained(s) /\ sync[s].kind = "pedidos" /\ queue' = Saved(s) /\ Reads(s, "despachos")
        /\ UNCHANGED <<filled, posting, rows, promised, overlapped>>
    BY <1>3 DEF TurnToFuel
  <2>2. "despachos" \in Kinds /\ queue'["despachos"] = queue["despachos"]
    BY <1>1, <2>1 DEF Saved, Kinds, TabletTypes
  <2>. QED  BY <2>1, <2>2, ReadStep
<1>4. CASE EndSync(s)
  <2>1. Drained(s) /\ queue' = Saved(s) /\ sync' = [sync EXCEPT ![s] = IdleSync]
        /\ UNCHANGED <<filled, posting, rows, promised, overlapped>> /\ doubted' = doubted
    BY <1>4 DEF EndSync, marks
  <2>2. IdleSync.pc # "answered" /\ IdleSync.batch = <<>> /\ doubted \subseteq Forms
    BY <1>1 DEF IdleSync, TabletTypes
  <2>3. Working(IdleSync) /\ \A i : ~Holds(IdleSync, i)
    BY IdleRun
  <2>. HIDE DEF IdleSync
  <2>. QED  BY <2>1, <2>2, <2>3, TurnStep
<1>. QED  BY <1>2, <1>3, <1>4

\* The page is reloaded: every run is gone.
LEMMA ReloadStep ==
    ASSUME TabletInv, Reload
    PROVE  TabletInv'
<1>1. TabletTypes /\ FreshForms /\ (\A j \in Forms \ doubted : Once(j))
      /\ (\A j \in Pedidos : rows[j] <= 1) /\ (\A j \in promised \ overlapped : Safe(j))
  BY DEF TabletInv
<1>2. /\ posting' = {} /\ sync' = [s \in Syncs |-> IdleSync]
      /\ doubted' = doubted \cup UNION {Range(sync[s].batch) : s \in Syncs}
      /\ UNCHANGED <<filled, queue, rows, promised, overlapped>>
  BY DEF Reload
<1>3. \A s \in Syncs : sync'[s] = IdleSync
  BY <1>2
<1>4. /\ Working(IdleSync) /\ IdleSync.pc = "idle" /\ IdleSync.batch = <<>>
      /\ \A i : ~Holds(IdleSync, i)
  BY IdleRun DEF IdleSync
<1>5. \A s \in Syncs : Range(sync[s].batch) \subseteq Forms
         /\ \A i \in Forms : Holds(sync[s], i) => i \in Range(sync[s].batch)
  <2>. SUFFICES ASSUME NEW s \in Syncs
                PROVE  /\ Range(sync[s].batch) \subseteq Forms
                       /\ \A i \in Forms : Holds(sync[s], i) => i \in Range(sync[s].batch)
    OBVIOUS
  <2>1. sync[s].batch \in Seq(Forms)
    BY <1>1 DEF TabletTypes, Working, SyncRecord
  <2>2. DOMAIN sync[s].batch = 1..Len(sync[s].batch)
    BY <2>1
  <2>. QED  BY <2>1, <2>2 DEF Range, Holds, Contains
<1>6. \A i \in Forms \ doubted', s \in Syncs : i \notin doubted /\ ~Holds(sync[s], i)
  BY <1>2, <1>5
<1>7. doubted' \subseteq Forms
  BY <1>1, <1>2, <1>5 DEF TabletTypes
<1>8. \A i \in Forms : Queued(i)' <=> Queued(i)
  BY <1>2 DEF Queued
<1>. HIDE DEF IdleSync
<1>9. TabletTypes'
  BY <1>1, <1>2, <1>3, <1>4, <1>7 DEF TabletTypes
<1>10. FreshForms'
  BY <1>1, <1>2, <1>3, <1>4, <1>8 DEF FreshForms, Nowhere
<1>11. AnswersTrue'
  BY <1>3, <1>4 DEF AnswersTrue
<1>12. \A i \in Forms \ doubted' : Once(i)'
  <2>. SUFFICES ASSUME NEW i \in Forms \ doubted' PROVE Once(i)'
    OBVIOUS
  <2>1. i \notin doubted
    BY <1>2
  <2>2. rows[i] <= 1 /\ (rows[i] = 1 => ~Queued(i))
    BY <1>1, <1>6, <2>1 DEF Once
  <2>. QED  BY <1>2, <1>3, <1>4, <1>8, <2>2 DEF Once
<1>13. \A i \in promised' \ overlapped' : Safe(i)'
  <2>. SUFFICES ASSUME NEW i \in promised \ overlapped PROVE Safe(i)'
    BY <1>2
  <2>1. i \in Forms /\ (rows[i] > 0 \/ Queued(i))
    BY <1>1 DEF TabletTypes, Safe
  <2>2. Writers(KindOf(i))' = {}
    BY <1>3, <1>4 DEF Writers
  <2>. QED  BY <1>2, <1>8, <2>1, <2>2 DEF Safe
<1>. QED  BY <1>1, <1>2, <1>9, <1>10, <1>11, <1>12, <1>13 DEF TabletInv

-----------------------------------------------------------------------------
(* The theorems *)

\* What no row, queue or run shows.
LEMMA OutsideStep ==
    ASSUME TabletInv,
           UNCHANGED <<filled, posting, queue, sync, rows, promised, overlapped, doubted>>
    PROVE  TabletInv'
<1>1. (\A i : Queued(i)' <=> Queued(i)) /\ (\A k : Writers(k)' = Writers(k))
  BY DEF Queued, Writers
<1>2. TabletTypes' /\ FreshForms' /\ AnswersTrue'
  BY <1>1 DEF TabletInv, TabletTypes, FreshForms, Nowhere, AnswersTrue, Current
<1>3. \A i \in Forms \ doubted : Once(i) => Once(i)'
  BY <1>1 DEF Once
<1>4. \A i : Safe(i) => Safe(i)'
  BY <1>1 DEF Safe
<1>. QED  BY <1>2, <1>3, <1>4 DEF TabletInv

LEMMA NextTablet == TabletInv /\ [TabletNext]_tabletVars => TabletInv'
<1>. SUFFICES ASSUME TabletInv, [TabletNext]_tabletVars PROVE TabletInv'
  OBVIOUS
<1>1. ASSUME NEW i \in Forms,
             \/ SubmitOffline(i) \/ SubmitOnline(i)
             \/ FormAccepted(i) \/ FormFailed(i) \/ FormAnswerLost(i)
      PROVE  TabletInv'
  BY <1>1, PostStep, EnqueueStep
<1>2. CASE GoOffline
  BY <1>2, OutsideStep DEF GoOffline, marks
<1>3. CASE Reload
  BY <1>3, ReloadStep
<1>4. ASSUME NEW s \in Syncs,
             PressSync(s) \/ GoOnline(s) \/ LoseAnswer(s) \/ SyncStep(s)
      PROVE  TabletInv'
  BY <1>4, SyncSteps, RefuseStep, AcceptStep, AdvanceStep DEF SyncStep
<1>5. CASE UNCHANGED tabletVars
  BY <1>5, OutsideStep DEF tabletVars, client, marks
<1>. QED  BY <1>1, <1>2, <1>3, <1>4, <1>5 DEF TabletNext

LEMMA SpecTablet == TabletSpec => []TabletInv
  BY InitTablet, NextTablet, PTL DEF TabletSpec

\* The server makes one row of a field request, whatever is lost, reloaded or sent by
\* two runs at once; a fuel dispatch is posted twice only after an answer nobody saw,
\* or when two runs of handleSync held it.
THEOREM NoDoublePosting == TabletSpec => []MadeTwiceOnlyWhenDoubted
<1>1. TabletInv => MadeTwiceOnlyWhenDoubted
  <2>. SUFFICES ASSUME TabletInv, NEW i \in Forms, rows[i] > 1
                PROVE  i \in Despachos /\ i \in doubted
    BY DEF MadeTwiceOnlyWhenDoubted
  <2>1. rows[i] \in Nat
    BY DEF TabletInv, TabletTypes
  <2>2. i \notin Pedidos
    BY <2>1 DEF TabletInv
  <2>3. i \in doubted
    BY <2>1 DEF TabletInv, Once
  <2>. QED  BY <2>2, <2>3 DEF Forms
<1>. QED  BY <1>1, SpecTablet, PTL

\* A form the operator was told is kept is on the server or on the tablet, unless it
\* was queued while a run that will save the queue was under way.
THEOREM NothingLost == TabletSpec => []LostOnlyWhenOverlapped
<1>1. TabletInv => LostOnlyWhenOverlapped
  <2>. SUFFICES ASSUME TabletInv, NEW i \in promised \ overlapped PROVE Kept(i)
    BY DEF LostOnlyWhenOverlapped
  <2>1. Safe(i)
    BY DEF TabletInv
  <2>. QED  BY <2>1 DEF Safe, Queued, Kept
<1>. QED  BY <1>1, SpecTablet, PTL
=============================================================================
