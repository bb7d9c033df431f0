-------------------------- MODULE ReadinessAlerts --------------------------
(***************************************************************************)
(* Weekly summaries and risk alerts for one customer                       *)
(* (src/api/src/alerts/alerts.service.ts, alert-rules.ts and               *)
(* alerts.scheduler.ts).  Every API instance evaluates the customer once a *)
(* minute, one run at a time: it reads the preferences, the stability of   *)
(* the active goal and what it last told the customer, publishes what is   *)
(* due to the notification queue, and records that last.  Each of these is *)
(* a database statement of its own; a run that dies between publishing and *)
(* recording leaves the queued job as its only trace.                      *)
(*                                                                         *)
(* `now' is read once per run.  The observed status is a function of the   *)
(* score (src/api/src/dashboard/engine.ts); the lastObserved columns and   *)
(* lastWeeklySummaryAt, which nothing reads, are left out, and so is       *)
(* account deletion.                                                       *)
(***************************************************************************)
EXTENDS Integers, FiniteSets

CONSTANTS
    Process,      \* API instances, each with its scheduler
    Goal,
    Score,        \* the stability scores the goals may have
    None,
    RiskDrop,     \* RISK_SCORE_DROP
    Cooldown,     \* RISK_COOLDOWN_MS, in units of time
    Week,         \* units of time in a week
    DueAt,        \* the selected day and hour, from the start of the local week
    Zone,         \* time zones, as offsets from UTC
    Choices,      \* bound: the preferences the customer chooses among
    MaxTime,      \* bound: the clock
    MaxTrouble,   \* bound: runs that die, or start while another's is under way
    MaxEvents     \* bound: those, and changes the customer makes

Preference == [weekly : BOOLEAN, risk : BOOLEAN, zone : Zone]

ASSUME AlertsAssumption ==
    /\ Choices \subseteq Preference
    /\ Score \subseteq 0..100 /\ Zone \subseteq Nat /\ Zone # {}
    /\ {RiskDrop, Cooldown, Week, DueAt, MaxTime, MaxTrouble, MaxEvents} \subseteq Nat
    /\ Week > 0 /\ RiskDrop > 0 /\ Cooldown > 0
    /\ None \notin Goal \cup Int

VARIABLES
    clock,
    preference,   \* the AlertPreference row
    goal,         \* the active goal, if any
    score,        \* its stability score
    state,        \* AlertState rows, by goal
    job,          \* readiness jobs of the queue: deduplication key, and the run's `now'
    pc,           \* the statement each instance executes next
    now,          \* the time its run started
    seen,         \* what its run has read so far
    told,         \* history: per goal, the score of the last alert published
    recorded,     \* history: alerts whose publication was recorded, and the run's `now'
    changes,
    faults,       \* runs that died
    overlaps      \* runs that started while another instance's was under way

runVars == <<pc, now, seen>>
history == <<told, recorded, faults, overlaps>>
world == <<clock, preference, goal, score, changes>>
vars == <<world, state, job, runVars, history>>

Maybe(S) == S \cup {None}
Time == 0..MaxTime

State == [present : BOOLEAN, notified : Maybe(Score), risk : Maybe(Time),
          recovery : Maybe(Time), summary : Maybe(Nat)]
NoState == [present |-> FALSE, notified |-> None, risk |-> None,
            recovery |-> None, summary |-> None]

(* The parts of a dedupeKey.                                                *)
Key == [type : {"weekly", "risk", "recovery"}, goal : Goal, anchor : Maybe(Nat),
        previous : Maybe(Score), current : Maybe(Score)]

Blank == [preference |-> [weekly |-> FALSE, risk |-> FALSE, zone |-> 0], goal |-> None,
          score |-> None, state |-> NoState, summary |-> None]

TypeOK ==
    /\ clock \in Time
    /\ preference \in Preference
    /\ goal \in Maybe(Goal)
    /\ score \in Score
    /\ state \in [Goal -> State]
    /\ \A j \in job : j.key \in Key /\ j.at \in Time
    /\ pc \in [Process -> {"idle", "preference", "snapshot", "state", "weekly", "risk", "record"}]
    /\ now \in [Process -> Time]
    /\ \A p \in Process :
          /\ pc[p] \notin {"idle", "preference"} => seen[p].preference \in Preference
          /\ pc[p] \in {"state", "weekly", "risk", "record"} =>
                seen[p].goal \in Goal /\ seen[p].score \in Score
          /\ seen[p].state \in State /\ seen[p].summary \in Maybe(Nat)
    /\ told \in [Goal -> Maybe(Score)]
    /\ \A r \in recorded : r.key \in Key /\ r.at \in Time
    /\ {changes, faults, overlaps} \subseteq 0..MaxEvents

Init ==
    /\ clock = 0
    /\ preference \in Choices
    /\ goal \in Maybe(Goal)
    /\ score \in Score
    /\ state = [g \in Goal |-> NoState]
    /\ job = {}
    /\ pc = [p \in Process |-> "idle"]
    /\ now = [p \in Process |-> 0]
    /\ seen = [p \in Process |-> Blank]
    /\ told = [g \in Goal |-> None]
    /\ recorded = {}
    /\ changes = 0 /\ faults = 0 /\ overlaps = 0

MayChange == changes + faults + overlaps < MaxEvents
MayFail == faults + overlaps < MaxTrouble /\ MayChange

-----------------------------------------------------------------------------
(* The rules.                                                               *)

(* computeStability's bands: 0 stable, 1 warning, 2 critical.               *)
Severity(s) == IF s >= 70 THEN 0 ELSE IF s >= 40 THEN 1 ELSE 2

Enabled(pref) == pref.weekly \/ pref.risk

(* weeklySchedule.                                                          *)
WeekOf(t, zone) == (t + zone) \div Week
WeeklyDue(t, zone) == (t + zone) % Week >= DueAt

CoolingDown(st, t) == st.risk # None /\ t - st.risk < Cooldown

(* What makes a non-stable score worth an alert.                            *)
Material(before, s) ==
    \/ before = None
    \/ Severity(s) > Severity(before)
    \/ s <= before - RiskDrop

(* riskDecision.                                                            *)
RiskDecision(s, st, t) ==
    IF Severity(s) = 0
      THEN IF st.notified # None /\ Severity(st.notified) > 0 THEN "recovery" ELSE "none"
      ELSE IF ~CoolingDown(st, t) /\ Material(st.notified, s) THEN "risk" ELSE "none"

Either(first, second) == IF first # None THEN first ELSE second

(* Mutant of OccurrenceKey: it does not say which occurrence it belongs to. *)
BugKeyWithoutAnchor(type, g, st, s) ==
    [type |-> type, goal |-> g, anchor |-> None, previous |-> st.notified, current |-> s]

(* alertOccurrenceKey.                                                      *)
OccurrenceKey(type, g, st, s) ==
    [type |-> type, goal |-> g,
     anchor |-> IF type = "risk" THEN Either(st.recovery, st.risk)
                                 ELSE Either(st.risk, st.recovery),
     previous |-> st.notified, current |-> s]

WeeklyKey(g, week) ==
    [type |-> "weekly", goal |-> g, anchor |-> week, previous |-> None, current |-> None]

(* The decision and the key of the run of p, from what it has read.         *)
Decision(p) ==
    IF seen[p].preference.risk THEN RiskDecision(seen[p].score, seen[p].state, now[p])
                               ELSE "none"
KeyOf(p) == OccurrenceKey(Decision(p), seen[p].goal, seen[p].state, seen[p].score)

(* Mutant of Queued: one alert of a type per goal.                          *)
BugQueuedByType(k) == \E j \in job : j.key.type = k.type /\ j.key.goal = k.goal

Queued(k) == \E j \in job : j.key = k

(* publishReadinessAlert: a job whose key is taken is not queued again, and *)
(* the caller is not told apart.                                            *)
Publish(k, t) == job' = IF Queued(k) THEN job ELSE job \cup {[key |-> k, at |-> t]}

-----------------------------------------------------------------------------
(* The instances are alike: the one whose run finds no other under way may  *)
(* be taken to be the same one every time.                                  *)
First == CHOOSE p \in Process : TRUE

(* The scheduler's timer: a run starts unless the instance's last one is    *)
(* still under way, and evaluates the customer if anything is enabled.      *)
(* Nothing keeps the runs of two instances apart.                           *)
Start(p) ==
    /\ pc[p] = "idle"
    /\ Enabled(preference)
    /\ IF \A q \in Process : pc[q] = "idle" THEN p = First /\ UNCHANGED overlaps
       ELSE MayFail /\ overlaps' = overlaps + 1
    /\ pc' = [pc EXCEPT ![p] = "preference"]
    /\ now' = [now EXCEPT ![p] = clock]
    /\ UNCHANGED <<world, state, job, seen, told, recorded, faults>>

Leave(p) ==
    /\ pc' = [pc EXCEPT ![p] = "idle"]
    /\ seen' = [seen EXCEPT ![p] = Blank]
    /\ now' = [now EXCEPT ![p] = 0]

Go(p, step) == pc' = [pc EXCEPT ![p] = step]

ReadPreference(p) ==
    /\ pc[p] = "preference"
    /\ IF Enabled(preference)
         THEN Go(p, "snapshot") /\ seen' = [seen EXCEPT ![p].preference = preference] /\ UNCHANGED now
         ELSE Leave(p)
    /\ UNCHANGED <<world, state, job, history>>

ReadStability(p) ==
    /\ pc[p] = "snapshot"
    /\ IF goal # None
         THEN Go(p, "state") /\ seen' = [seen EXCEPT ![p].goal = goal, ![p].score = score]
              /\ UNCHANGED now
         ELSE Leave(p)
    /\ UNCHANGED <<world, state, job, history>>

ReadState(p) ==
    /\ pc[p] = "state"
    /\ seen' = [seen EXCEPT ![p].state = state[seen[p].goal]]
    /\ Go(p, "weekly")
    /\ UNCHANGED <<world, state, job, now, history>>

PublishWeekly(p) ==
    LET zone == seen[p].preference.zone
        week == WeekOf(now[p], zone)
    IN  /\ pc[p] = "weekly"
        /\ IF /\ seen[p].preference.weekly
              /\ WeeklyDue(now[p], zone)
              /\ seen[p].state.summary # week
             THEN /\ Publish(WeeklyKey(seen[p].goal, week), now[p])
                  /\ seen' = [seen EXCEPT ![p].summary = week]
             ELSE UNCHANGED <<job, seen>>
        /\ Go(p, "risk")
        /\ UNCHANGED <<world, state, now, history>>

PublishRisk(p) ==
    /\ pc[p] = "risk"
    /\ IF Decision(p) # "none"
         THEN /\ Publish(KeyOf(p), now[p])
              /\ told' = [told EXCEPT ![seen[p].goal] = seen[p].score]
         ELSE UNCHANGED <<job, told>>
    /\ Go(p, "record")
    /\ UNCHANGED <<world, state, now, seen, recorded, faults, overlaps>>

(* Mutants of Update: what was only observed becomes the baseline; a        *)
(* recovery forgets the last risk alert.                                    *)
BugObservedIsNotified(p, st) ==
    [present  |-> TRUE,
     notified |-> seen[p].score,
     risk     |-> IF Decision(p) = "risk" THEN now[p] ELSE st.risk,
     recovery |-> IF Decision(p) = "recovery" THEN now[p] ELSE st.recovery,
     summary  |-> Either(seen[p].summary, st.summary)]

BugRecoveryEndsCooldown(p, st) ==
    [present  |-> TRUE,
     notified |-> IF Decision(p) # "none" THEN seen[p].score ELSE st.notified,
     risk     |-> CASE Decision(p) = "risk" -> now[p]
                    [] Decision(p) = "recovery" -> None
                    [] OTHER -> st.risk,
     recovery |-> IF Decision(p) = "recovery" THEN now[p] ELSE st.recovery,
     summary  |-> Either(seen[p].summary, st.summary)]

(* The columns the upsert sets, over the row as it then is.                 *)
Update(p, st) ==
    LET d == Decision(p)
        baseline == d # "none" \/ (/\ seen[p].preference.risk
                                   /\ ~seen[p].state.present
                                   /\ Severity(seen[p].score) = 0)
    IN  [present  |-> TRUE,
         notified |-> IF baseline THEN seen[p].score ELSE st.notified,
         risk     |-> IF d = "risk" THEN now[p] ELSE st.risk,
         recovery |-> IF d = "recovery" THEN now[p] ELSE st.recovery,
         summary  |-> Either(seen[p].summary, st.summary)]

Record(p) ==
    /\ pc[p] = "record"
    /\ state' = [state EXCEPT ![seen[p].goal] = Update(p, @)]
    /\ recorded' = IF Decision(p) = "none" THEN recorded
                   ELSE recorded \cup {[key |-> KeyOf(p), at |-> now[p]]}
    /\ Leave(p)
    /\ UNCHANGED <<world, job, told, faults, overlaps>>

(* A statement fails, which ends the run, or the instance restarts.         *)
Fail(p) ==
    /\ pc[p] # "idle"
    /\ MayFail
    /\ faults' = faults + 1
    /\ Leave(p)
    /\ UNCHANGED <<world, state, job, told, recorded, overlaps>>

-----------------------------------------------------------------------------
(* The customer: updatePreferences, a new, replaced or ended goal, and      *)
(* transactions that change the score.                                      *)
Change ==
    /\ MayChange
    /\ changes' = changes + 1
    /\ UNCHANGED <<clock, state, job, runVars, history>>

UpdatePreferences ==
    /\ preference' \in Choices \ {preference}
    /\ UNCHANGED <<goal, score>>
    /\ Change

ChangeGoal ==
    /\ goal' \in Maybe(Goal) \ {goal}
    /\ UNCHANGED <<preference, score>>
    /\ Change

ChangeScore ==
    /\ score' \in Score \ {score}
    /\ UNCHANGED <<preference, goal>>
    /\ Change

Tick ==
    /\ clock < MaxTime
    /\ clock' = clock + 1
    /\ UNCHANGED <<preference, goal, score, changes, state, job, runVars, history>>

Evaluate(p) ==
    \/ Start(p) \/ ReadPreference(p) \/ ReadStability(p) \/ ReadState(p)
    \/ PublishWeekly(p) \/ PublishRisk(p) \/ Record(p)

Next ==
    \/ \E p \in Process : Evaluate(p) \/ Fail(p)
    \/ UpdatePreferences \/ ChangeGoal \/ ChangeScore
    \/ Tick

Spec == Init /\ [][Next]_vars

(* The timer fires for ever and a statement ends.                           *)
Fairness == \A p \in Process : WF_vars(Evaluate(p))
FairSpec == Spec /\ Fairness

-----------------------------------------------------------------------------
(* Correctness.                                                             *)

Alerts(type, g) == {j \in job : j.key.type = type /\ j.key.goal = g}

(* Whatever the state says the customer was told is in the queue: publishing*)
(* comes first, and a key that was taken belongs to the same message        *)
(* (evaluateUser).                                                          *)
StateBackedByJobs ==
    \A g \in Goal :
        /\ state[g].summary # None => Queued(WeeklyKey(g, state[g].summary))
        /\ state[g].notified # None /\ Severity(state[g].notified) > 0 =>
              \E j \in Alerts("risk", g) : j.key.current = state[g].notified
        /\ state[g].risk # None => Alerts("risk", g) # {}
        /\ state[g].recovery # None => Alerts("recovery", g) # {}

(* Nobody is told of a recovery from something they were not told of        *)
(* (riskDecision compares with the notified baseline, not the observed one).*)
RecoveryFollowsRisk ==
    \A g \in Goal : \A r \in Alerts("recovery", g) :
        \E j \in Alerts("risk", g) : j.key.current = r.key.previous

(* The customer's alerts and what is recorded of them agree.                *)
AlertsConsistent == TypeOK /\ StateBackedByJobs /\ RecoveryFollowsRisk

(* No two recoveries of a goal were found at the same instant.              *)
Recorded(type, g) == {r \in recorded : r.key.type = type /\ r.key.goal = g}
RecoveriesApart ==
    \A g \in Goal : \A q, r \in Recorded("recovery", g) : q.at = r.at => q = r

(* As long as runs do not overlap, the queue swallows an alert as a         *)
(* duplicate only if it repeats one whose record was lost: two occurrences  *)
(* never share a key (alertOccurrenceKey), so nobody misses an alert.       *)
DuplicatesAreRetries ==
    overlaps = 0 /\ RecoveriesApart => \A p \in Process :
        pc[p] = "risk" /\ Decision(p) # "none" /\ Queued(KeyOf(p)) =>
            \A r \in recorded : r.key # KeyOf(p)

(* As long as runs do not overlap, no risk alert is queued within the       *)
(* cooldown after one that was recorded, recovery or not, however often     *)
(* runs die.                                                                *)
CooldownKept ==
    overlaps = 0 => \A g \in Goal : \A j \in Alerts("risk", g) : \A r \in recorded :
        r.key.type = "risk" /\ r.key.goal = g /\ r.at < j.at => j.at - r.at >= Cooldown

RiskUnreported(g) ==
    /\ goal = g /\ preference.risk
    /\ Severity(score) > 0 /\ Material(told[g], score)
    /\ ~CoolingDown(state[g], clock)

RecoveryUnreported(g) ==
    /\ goal = g /\ preference.risk
    /\ Severity(score) = 0
    /\ told[g] # None /\ Severity(told[g]) > 0

SummaryUnqueued(g) ==
    /\ goal = g /\ preference.weekly
    /\ WeeklyDue(clock, preference.zone)
    /\ ~Queued(WeeklyKey(g, WeekOf(clock, preference.zone)))

(* A material risk is reported once the cooldown is over, unless it passes: *)
(* what a cooldown suppressed does not become the baseline (evaluateUser).  *)
(* Like the next one this needs runs that neither die nor overlap: after a  *)
(* publication that was not recorded, or was recorded over by another       *)
(* instance, the state is not what the customer was told.                   *)
Undisturbed == faults = 0 /\ overlaps = 0
RiskReported == \A g \in Goal : []<>~(RiskUnreported(g) /\ Undisturbed)

(* A customer who was told of a risk is told of the recovery, cooldown or   *)
(* not, unless it passes (riskDecision).                                    *)
RecoveryReported == \A g \in Goal : []<>~(RecoveryUnreported(g) /\ Undisturbed)

(* A week's summary is queued once its day and hour have come, although     *)
(* runs die after publishing or before, or overlap (weeklySchedule).        *)
SummaryReported == \A g \in Goal : []<>~SummaryUnqueued(g)

(* What lasts reaches the queue.                                            *)
AlertsReported == RiskReported /\ RecoveryReported /\ SummaryReported

-----------------------------------------------------------------------------
(* The inductive invariant behind AlertsConsistent, CooldownKept and        *)
(* DuplicatesAreRetries.                                                    *)
SeenTyped ==
    seen \in [Process -> [preference : Preference \cup {Blank.preference}, goal : Maybe(Goal),
                          score : Maybe(Score), state : State, summary : Maybe(Nat)]]

(* What a run has read of alerts, and what it is about to record, is in the *)
(* queue.                                                                   *)
Bad(s) == s # None /\ Severity(s) > 0
RunBacked(p) ==
    /\ pc[p] \in {"weekly", "risk", "record"} /\ Bad(seen[p].state.notified) =>
          \E j \in Alerts("risk", seen[p].goal) : j.key.current = seen[p].state.notified
    /\ seen[p].summary # None =>
          pc[p] \in {"risk", "record"} /\ Queued(WeeklyKey(seen[p].goal, seen[p].summary))
    /\ pc[p] = "record" /\ Decision(p) # "none" => Queued(KeyOf(p))

(* One run at a time works on the row it has read, later than all before.   *)
Serial ==
    /\ \A p, q \in Process : pc[p] # "idle" /\ pc[q] # "idle" => p = q
    /\ \A p \in Process : pc[p] \in {"weekly", "risk", "record"} => seen[p].state = state[seen[p].goal]
    /\ \A p \in Process : now[p] <= clock
    /\ \A x \in job \cup recorded :
          x.at <= clock /\ \A p \in Process : pc[p] # "idle" => x.at <= now[p]

(* The row of a goal against what was recorded: the last risk alert is the  *)
(* latest, and a recovery is anchored in a risk alert before the last one   *)
(* that is not over.                                                        *)
RowFollows(g) ==
    /\ Bad(state[g].notified) => state[g].risk # None
    /\ Recorded("risk", g) \cup Recorded("recovery", g) # {} => state[g].present /\ state[g].risk # None
    /\ \A r \in Recorded("risk", g) :
          /\ r.at <= state[g].risk
          /\ r.key.current # None
          /\ r.key.anchor # None => \/ r.key.anchor < r.at
                                    \/ \E q \in Recorded("recovery", g) : q.at = r.key.anchor
    /\ \A r \in Recorded("recovery", g) :
          /\ r.key.anchor # None /\ state[g].recovery # None
          /\ r.key.anchor <= state[g].risk
          /\ Bad(state[g].notified) => r.key.anchor < state[g].risk
    /\ state[g].recovery # None => \E r \in Recorded("recovery", g) : r.at = state[g].recovery

(* Since the last recovery alerts only got worse.                           *)
Worsening(g) ==
    \A r \in Recorded("risk", g) :
        r.key.anchor = Either(state[g].recovery, state[g].risk) =>
            Bad(state[g].notified) /\ state[g].notified <= r.key.current

IInv ==
    /\ AlertsConsistent /\ SeenTyped
    /\ \A p \in Process : RunBacked(p)
    /\ CooldownKept
    /\ overlaps = 0 => Serial /\ \A g \in Goal : RowFollows(g) /\ (RecoveriesApart => Worsening(g))
=============================================================================
