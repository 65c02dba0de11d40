---------------------------- MODULE OfflineQueue ----------------------------
(* The field tablet: the form of TerrainRequestMobileView, the two queues it *)
(* keeps in localStorage when a request or a fuel dispatch cannot be sent,   *)
(* and handleSync, which sends what the queues hold.  Several handleSync may *)
(* run at once: the button looks at isSyncing, the "online" listener holds   *)
(* the handleSync of the first render and never sees it TRUE.                *)
(* Faults: answers that are lost, a page that is reloaded at any moment.     *)
EXTENDS Naturals, Sequences, SequencesExt, FiniteSets

CONSTANTS
    Pedidos,      \* request forms the operator fills in
    Despachos,    \* fuel forms
    Number,       \* requestNumber each request form is given: SOL-T- and six digits
    Syncs,        \* runs of handleSync that may be alive at once
    MaxFaults,    \* bound: lost answers and reloads
    MaxRows       \* bound: rows the server makes of one form

ASSUME NumberAssumption == DOMAIN Number = Pedidos
ASSUME KindsAreDisjoint == Pedidos \cap Despachos = {}

VARIABLES
    online,       \* navigator.onLine
    syncing,      \* isSyncing, as the button sees it
    filled,       \* forms already submitted
    posting,      \* forms whose POST is awaited, one of each kind at most
    queue,        \* localStorage: the queue of each kind
    sync,         \* the runs of handleSync
    rows,         \* rows the server has made of each form
    faults,
    promised,     \* history: forms the operator was told are kept in the queue
    overlapped,   \* history: forms queued while a sync of their kind was under way
    doubted       \* history: forms sent again after an answer nobody saw, or by two syncs

client == <<online, syncing, filled, posting, queue>>
marks == <<promised, overlapped, doubted>>
tabletVars == <<client, sync, rows, faults, marks>>

Forms == Pedidos \cup Despachos
Kinds == {"pedidos", "despachos"}
KindOf(i) == IF i \in Pedidos THEN "pedidos" ELSE "despachos"

IdleSync == [pc |-> "idle", kind |-> "none", batch |-> <<>>, next |-> 1, remaining |-> <<>>,
             answer |-> "none"]

TabletInit ==
    /\ online \in BOOLEAN
    /\ syncing = FALSE
    /\ filled = {}
    /\ posting = {}
    /\ queue = [k \in Kinds |-> <<>>]
    /\ sync = [s \in Syncs |-> IdleSync]
    /\ rows = [i \in Forms |-> 0]
    /\ faults = 0
    /\ promised = {} /\ overlapped = {} /\ doubted = {}

-----------------------------------------------------------------------------
(* The server *)

\* Creates without the unique index on requestNumber.
CreatesUnnumbered(i) == rows[i] < MaxRows

\* requestNumber is unique; a fuel dispatch carries nothing that names it.
Creates(i) ==
    IF i \in Pedidos THEN \A j \in Pedidos : Number[j] = Number[i] => rows[j] = 0
                     ELSE rows[i] < MaxRows

RowMade(i) == rows' = [rows EXCEPT ![i] = @ + 1]

-----------------------------------------------------------------------------
(* The form *)

\* The syncs that will write the queue of a kind: those that found it empty will not.
Writers(k) == {s \in Syncs : sync[s].kind = k /\ sync[s].batch # <<>>}

\* getOfflineQueue, push, saveOfflineQueue: one synchronous piece of script.
Enqueue(i) ==
    /\ queue' = [queue EXCEPT ![KindOf(i)] = Append(@, i)]
    /\ promised' = promised \cup {i}
    /\ overlapped' = IF Writers(KindOf(i)) # {} THEN overlapped \cup {i} ELSE overlapped

\* The submit button waits for the mutation of its own kind.
CanSubmit(i) == i \notin filled /\ \A j \in posting : KindOf(j) # KindOf(i)

\* handleSubmitRepuestos, handleSubmitFuel: kept at once when there is no network.
SubmitOffline(i) ==
    /\ ~online /\ CanSubmit(i)
    /\ filled' = filled \cup {i}
    /\ Enqueue(i)
    /\ UNCHANGED <<online, syncing, posting, sync, rows, faults, doubted>>

SubmitOnline(i) ==
    /\ online /\ CanSubmit(i)
    /\ filled' = filled \cup {i}
    /\ posting' = posting \cup {i}
    /\ UNCHANGED <<online, syncing, queue, sync, rows, faults, marks>>

FormAccepted(i) ==
    /\ i \in posting /\ Creates(i)
    /\ RowMade(i)
    /\ posting' = posting \ {i}
    /\ UNCHANGED <<online, syncing, filled, queue, sync, faults, marks>>

\* The catch branch: no connection, or any refusal of the server.
FormFailed(i) ==
    /\ i \in posting
    /\ Enqueue(i)
    /\ posting' = posting \ {i}
    /\ UNCHANGED <<online, syncing, filled, sync, rows, faults, doubted>>

\* The row is made and the answer lost: the catch branch queues the form.
FormAnswerLost(i) ==
    /\ i \in posting /\ Creates(i) /\ faults < MaxFaults
    /\ RowMade(i)
    /\ Enqueue(i)
    /\ posting' = posting \ {i}
    /\ faults' = faults + 1
    /\ doubted' = doubted \cup {i}
    /\ UNCHANGED <<online, syncing, filled, sync>>

-----------------------------------------------------------------------------
(* handleSync *)

\* The items two runs hold at once: getOfflineQueue finds what the other is sending.
Shared(batch, k) == {i \in Range(batch) : \E s \in Writers(k) : Contains(sync[s].batch, i)}

Reads(s, k) ==
    /\ sync' = [sync EXCEPT ![s] = [IdleSync EXCEPT !.pc = "post", !.kind = k, !.batch = queue[k]]]
    /\ doubted' = doubted \cup Shared(queue[k], k)

StartSync(s) == sync[s].pc = "idle" /\ syncing' = TRUE /\ Reads(s, "pedidos")

PressSync(s) ==
    /\ online /\ ~syncing
    /\ \E k \in Kinds : queue[k] # <<>>
    /\ StartSync(s)
    /\ UNCHANGED <<online, filled, posting, queue, rows, faults, promised, overlapped>>

\* The "online" event: handleSync runs whatever isSyncing says.
GoOnline(s) ==
    /\ ~online
    /\ online' = TRUE
    /\ StartSync(s)
    /\ UNCHANGED <<filled, posting, queue, rows, faults, promised, overlapped>>

GoOffline ==
    /\ online
    /\ online' = FALSE
    /\ UNCHANGED <<syncing, filled, posting, queue, sync, rows, faults, marks>>

Sending(s) == sync[s].pc = "post" /\ sync[s].next <= Len(sync[s].batch)
Current(s) == sync[s].batch[sync[s].next]
Answered(s, answer) == sync' = [sync EXCEPT ![s].pc = "answered", ![s].answer = answer]

\* POST /purchases/requests or /fuel: the row is made.
ServerAccepts(s) ==
    /\ Sending(s) /\ online /\ Creates(Current(s))
    /\ RowMade(Current(s))
    /\ Answered(s, "ok")
    /\ UNCHANGED <<client, faults, marks>>

\* No connection, or a refusal: 400 for the stock, 409 for the number.
ServerRefuses(s) ==
    /\ Sending(s)
    /\ Answered(s, "error")
    /\ UNCHANGED <<client, rows, faults, marks>>

LoseAnswer(s) ==
    /\ sync[s].pc = "answered" /\ sync[s].answer = "ok" /\ faults < MaxFaults
    /\ Answered(s, "error")
    /\ faults' = faults + 1
    /\ doubted' = doubted \cup {Current(s)}
    /\ UNCHANGED <<client, rows, promised, overlapped>>

\* Advance with a catch branch that only counts the failure.
AdvanceForgetting(s) ==
    /\ sync[s].pc = "answered"
    /\ sync' = [sync EXCEPT ![s].pc = "post", ![s].next = @ + 1, ![s].answer = "none"]
    /\ UNCHANGED <<client, rows, faults, marks>>

\* What failed goes to the list that will be saved, what was sent does not.
Advance(s) ==
    /\ sync[s].pc = "answered"
    /\ sync' = [sync EXCEPT ![s] =
                  [sync[s] EXCEPT !.pc = "post", !.next = @ + 1, !.answer = "none",
                                  !.remaining = IF sync[s].answer = "error"
                                                THEN Append(@, Current(s)) ELSE @]]
    /\ UNCHANGED <<client, rows, faults, marks>>

\* saveOfflineQueue(remaining), unless the queue was empty.
Saved(s) ==
    IF sync[s].batch = <<>> THEN queue
    ELSE [queue EXCEPT ![sync[s].kind] = sync[s].remaining]

Drained(s) == sync[s].pc = "post" /\ sync[s].next > Len(sync[s].batch)

\* After the requests handleSync reads and sends the fuel queue.
TurnToFuel(s) ==
    /\ Drained(s) /\ sync[s].kind = "pedidos"
    /\ queue' = Saved(s)
    /\ Reads(s, "despachos")
    /\ UNCHANGED <<online, syncing, filled, posting, rows, faults, promised, overlapped>>

\* The first run to end shows the button again, whichever still run.
EndSync(s) ==
    /\ Drained(s) /\ sync[s].kind = "despachos"
    /\ queue' = Saved(s)
    /\ syncing' = FALSE
    /\ sync' = [sync EXCEPT ![s] = IdleSync]
    /\ UNCHANGED <<online, filled, posting, rows, faults, marks>>

\* The page goes, localStorage stays; what was answered is not noted.
Reload ==
    /\ faults < MaxFaults
    /\ faults' = faults + 1
    /\ posting' = {}
    /\ syncing' = FALSE
    /\ sync' = [s \in Syncs |-> IdleSync]
    /\ doubted' = doubted \cup UNION {Range(sync[s].batch) : s \in Syncs}
    /\ UNCHANGED <<online, filled, queue, rows, promised, overlapped>>

SyncStep(s) == \/ ServerAccepts(s) \/ ServerRefuses(s) \/ Advance(s)
               \/ TurnToFuel(s) \/ EndSync(s)

TabletNext ==
    \/ \E i \in Forms : \/ SubmitOffline(i) \/ SubmitOnline(i)
                        \/ FormAccepted(i) \/ FormFailed(i) \/ FormAnswerLost(i)
    \/ GoOffline \/ Reload
    \/ \E s \in Syncs : PressSync(s) \/ GoOnline(s) \/ LoseAnswer(s) \/ SyncStep(s)

TabletSpec == TabletInit /\ [][TabletNext]_tabletVars

-----------------------------------------------------------------------------
(* Properties *)

\* Through the form, overlapping syncs, lost answers and reloads the server
\* makes one row of a field request, whose number is unique; a fuel dispatch is
\* posted to the stock twice only after an answer nobody saw or when two syncs
\* held it at once.
MadeTwiceOnlyWhenDoubted ==
    \A i \in Forms : rows[i] > 1 => i \in Despachos /\ i \in doubted

Unsent(s) == SubSeq(sync[s].batch, sync[s].next, Len(sync[s].batch))
Kept(i) ==
    \/ rows[i] > 0
    \/ Contains(queue[KindOf(i)], i)
    \/ \E s \in Syncs : Contains(Unsent(s), i) \/ Contains(sync[s].remaining, i)

\* A form the operator was told is kept is on the server or still on the
\* tablet, unless it was queued while a sync of its kind was under way:
\* saveOfflineQueue(remaining) then writes over it.
LostOnlyWhenOverlapped == \A i \in promised : Kept(i) \/ i \in overlapped
=============================================================================
