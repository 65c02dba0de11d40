------------------------------- MODULE Digest -------------------------------
(* NotificationSchedulerService: every two minutes a sweep looks at each     *)
(* active tenant and sends the digest of the day once its hour has come.     *)
(* Nothing keeps a sweep from starting while an earlier one still waits for  *)
(* the database; the date of the digest is stored after it was sent.         *)
(* Time is counted in slots of a day.  The hour is the local one             *)
(* (toLocaleTimeString), the date is that of UTC (toISOString).              *)
EXTENDS Integers, FiniteSets

CONSTANTS
    Tenants,
    Sweeps,       \* sweeps that may be under way at once
    SlotsPerDay,
    Target,       \* dailyDigestTime, as a slot of the local day
    Offset,       \* slots the local clock is ahead of UTC
    MaxTime,      \* bound: slots of time
    MaxFaults,    \* bound: crashes and failed queries
    MaxChanges,   \* bound: changes of the world around the scheduler
    MaxSent,      \* bound: digests counted
    Nobody        \* what a sweep has in hand between two tenants

ASSUME ClockAssumption ==
    /\ SlotsPerDay \in Nat \ {0} /\ Target \in 0..SlotsPerDay - 1
    /\ Offset \in Int /\ MaxTime \in Nat

VARIABLES
    now,
    up,           \* the process runs
    active,       \* tenants with status ACTIVO
    rules,        \* scheduleRules of each tenant
    alerting,     \* tenants whose radar shows something CRITICAL or HIGH
    lastSent,     \* LAST_DIGEST_SENT_DATE of each tenant; -1 is none
    sweep,
    sent,         \* digests of each UTC date sent to each tenant
    faults, changes,
    repeatable    \* history: tenant and UTC date whose digest something let be sent again

digestVars == <<now, up, active, rules, alerting, lastSent, sweep, sent, faults, changes,
                repeatable>>
scheduler == <<lastSent, sweep, sent, faults, repeatable>>
world == <<now, up, active, rules, alerting, changes>>

Dates == 0..(MaxTime \div SlotsPerDay)
UtcDate(t) == t \div SlotsPerDay
LocalTime(t) == (t + Offset) % SlotsPerDay

Frequency == {"DAILY", "REALTIME_ONLY"}
NoSweep == [pc |-> "idle", date |-> 0, time |-> 0, left |-> {}, tenant |-> Nobody]

DigestInit ==
    /\ now = 0 /\ up = TRUE
    /\ active = Tenants
    /\ rules = [t \in Tenants |-> [frequency |-> "DAILY", cooldown |-> TRUE]]
    /\ alerting \in SUBSET Tenants
    /\ lastSent = [t \in Tenants |-> -1]
    /\ sweep = [s \in Sweeps |-> NoSweep]
    /\ sent = [t \in Tenants |-> [d \in Dates |-> 0]]
    /\ faults = 0 /\ changes = 0
    /\ repeatable = {}

-----------------------------------------------------------------------------
(* The world around the scheduler *)

Tick ==
    /\ now < MaxTime
    /\ now' = now + 1
    /\ UNCHANGED <<up, active, rules, alerting, scheduler, changes>>

Changed == changes < MaxChanges /\ changes' = changes + 1

\* A request, an order, a stock row or an asset enters or leaves the radar.
RadarChanges(t) ==
    /\ alerting' = IF t \in alerting THEN alerting \ {t} ELSE alerting \cup {t}
    /\ Changed
    /\ UNCHANGED <<now, up, active, rules, scheduler>>

\* NotificationChannelsService.updateConfig.
UpdateConfig(t) ==
    /\ \E f \in Frequency, b \in BOOLEAN :
          rules' = [rules EXCEPT ![t] = [frequency |-> f, cooldown |-> b]]
    /\ Changed
    /\ UNCHANGED <<now, up, active, alerting, scheduler>>

\* The tenant is suspended, or active again.
ChangeStatus(t) ==
    /\ active' = IF t \in active THEN active \ {t} ELSE active \cup {t}
    /\ Changed
    /\ UNCHANGED <<now, up, rules, alerting, scheduler>>

-----------------------------------------------------------------------------
(* evaluateScheduledDispatch *)

\* Another sweep has checked t and not stored its date yet.
BusyWith(t, s) == \E r \in Sweeps \ {s} : sweep[r].tenant = t

BeginSweep(s) ==
    /\ up /\ sweep[s].pc = "idle"
    /\ sweep' = [sweep EXCEPT ![s] = [pc |-> "tenants", date |-> UtcDate(now),
                                      time |-> LocalTime(now), left |-> active, tenant |-> Nobody]]
    /\ UNCHANGED <<world, lastSent, sent, faults, repeatable>>

Goto(s, pc, t) == sweep' = [sweep EXCEPT ![s].pc = pc, ![s].tenant = t, ![s].left = @ \ {t}]

\* AlreadySent that looks for any date at all.
AlreadySentEver(s, t) == lastSent[t] # -1 /\ rules[t].cooldown

AlreadySent(s, t) == lastSent[t] = sweep[s].date /\ rules[t].cooldown

\* A tenant whose rules, hour or last digest ask for none now.
Skip(s, t) ==
    /\ sweep[s].pc = "tenants" /\ t \in sweep[s].left
    /\ \/ rules[t].frequency # "DAILY"
       \/ sweep[s].time < Target
       \/ AlreadySent(s, t)
    /\ sweep' = [sweep EXCEPT ![s].left = @ \ {t}]
    /\ UNCHANGED <<world, lastSent, sent, faults, repeatable>>

Check(s, t) ==
    /\ sweep[s].pc = "tenants" /\ t \in sweep[s].left
    /\ rules[t].frequency = "DAILY" /\ sweep[s].time >= Target
    /\ ~AlreadySent(s, t)
    /\ Goto(s, "radar", t)
    /\ repeatable' = IF lastSent[t] >= sweep[s].date \/ BusyWith(t, s)
                     THEN repeatable \cup {<<t, sweep[s].date>>} ELSE repeatable
    /\ UNCHANGED <<world, lastSent, sent, faults>>

\* runOperationalSweepForTenant: nothing urgent, nothing sent.
Quiet(s) ==
    /\ sweep[s].pc = "radar" /\ sweep[s].tenant \notin alerting
    /\ Goto(s, "tenants", Nobody)
    /\ UNCHANGED <<world, lastSent, sent, faults, repeatable>>

\* The messages leave; their failure is only logged.
Dispatch(s) ==
    /\ sweep[s].pc = "radar" /\ sweep[s].tenant \in alerting
    /\ sent' = [sent EXCEPT ![sweep[s].tenant][sweep[s].date] = IF @ < MaxSent THEN @ + 1 ELSE @]
    /\ sweep' = [sweep EXCEPT ![s].pc = "store"]
    /\ UNCHANGED <<world, lastSent, faults, repeatable>>

\* Store whose upsert updates nothing.
StoreOnce(s) ==
    /\ sweep[s].pc = "store"
    /\ lastSent' = [lastSent EXCEPT ![sweep[s].tenant] = IF @ = -1 THEN sweep[s].date ELSE @]
    /\ Goto(s, "tenants", Nobody)
    /\ UNCHANGED <<world, sent, faults, repeatable>>

\* A sweep slower than a day stores its date over a later one, and the digests of the
\* days between are forgotten.
Store(s) ==
    /\ sweep[s].pc = "store"
    /\ lastSent' = [lastSent EXCEPT ![sweep[s].tenant] = sweep[s].date]
    /\ repeatable' = repeatable \cup
           {<<sweep[s].tenant, d>> : d \in (sweep[s].date + 1)..lastSent[sweep[s].tenant]}
    /\ Goto(s, "tenants", Nobody)
    /\ UNCHANGED <<world, sent, faults>>

EndSweep(s) ==
    /\ sweep[s].pc = "tenants" /\ sweep[s].left = {}
    /\ sweep' = [sweep EXCEPT ![s] = NoSweep]
    /\ UNCHANGED <<world, lastSent, sent, faults, repeatable>>

Unstored(r) == IF sweep[r].pc = "store" THEN {<<sweep[r].tenant, sweep[r].date>>} ELSE {}

\* A failed query costs one tenant its turn, the sweep goes on.
QueryFails(s) ==
    /\ sweep[s].pc \in {"radar", "store"} /\ faults < MaxFaults
    /\ faults' = faults + 1
    /\ repeatable' = repeatable \cup Unstored(s)
    /\ Goto(s, "tenants", Nobody)
    /\ UNCHANGED <<world, lastSent, sent>>

Crash ==
    /\ up /\ faults < MaxFaults
    /\ faults' = faults + 1
    /\ up' = FALSE
    /\ repeatable' = repeatable \cup UNION {Unstored(s) : s \in Sweeps}
    /\ sweep' = [s \in Sweeps |-> NoSweep]
    /\ UNCHANGED <<now, active, rules, alerting, changes, lastSent, sent>>

Restart ==
    /\ ~up
    /\ up' = TRUE
    /\ UNCHANGED <<now, active, rules, alerting, scheduler, changes>>

SweepStep(s) ==
    \/ \E t \in Tenants : Skip(s, t) \/ Check(s, t)
    \/ Quiet(s) \/ Dispatch(s) \/ Store(s) \/ EndSweep(s)

DigestNext ==
    \/ Tick \/ Crash \/ Restart
    \/ \E t \in Tenants : RadarChanges(t) \/ UpdateConfig(t) \/ ChangeStatus(t)
    \/ \E s \in Sweeps : BeginSweep(s) \/ SweepStep(s) \/ QueryFails(s)

DigestSpec == DigestInit /\ [][DigestNext]_digestVars

\* The timer fires again and again, queries are answered, the container is restarted.
FairDigestSpec ==
    /\ DigestSpec
    /\ WF_digestVars(Restart)
    /\ \A s \in Sweeps : WF_digestVars(BeginSweep(s)) /\ WF_digestVars(SweepStep(s))

-----------------------------------------------------------------------------
(* Properties *)

\* The digest of a date is sent again only when the cooldown was switched off,
\* two sweeps had the tenant in hand at once, a sweep of yesterday was still
\* checking or storing, or a crash or a failed query came between the dispatch
\* and the store of its date.
RepeatedOnlyWhenExcused ==
    \A t \in Tenants, d \in Dates : sent[t][d] > 1 => <<t, d>> \in repeatable

\* A tenant that stays active, daily and alerting gets the digest of the date,
\* whatever crashed or failed before.
Steady(t) == t \in active /\ t \in alerting /\ rules[t].frequency = "DAILY"
Due == now = MaxTime /\ LocalTime(now) >= Target
EveryTenantIsServed ==
    \A t \in Tenants : Due /\ Steady(t) ~> sent[t][UtcDate(MaxTime)] > 0 \/ ~Steady(t)
=============================================================================
