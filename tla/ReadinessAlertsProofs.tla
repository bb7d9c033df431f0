------------------------- MODULE ReadinessAlertsProofs -------------------------
(***************************************************************************)
(* Proofs about module ReadinessAlerts: what the state of a goal says the  *)
(* customer was told is in the queue, a recovery follows a risk alert, the *)
(* cooldown is kept and no alert is swallowed as a duplicate of another,   *)
(* for any number of instances, goals, changes and failures.               *)
(***************************************************************************)
EXTENDS ReadinessAlerts, TLAPS

Typed == TypeOK /\ SeenTyped
Working == {"state", "weekly", "risk", "record"}

-----------------------------------------------------------------------------
(* The values.                                                              *)
LEMMA Values ==
    /\ Score \subseteq Int /\ None \notin Score /\ None \notin Nat /\ None \notin Time
    /\ None \notin Goal /\ Time \subseteq Nat /\ NoState \in State /\ NoState.present = FALSE
    /\ NoState.notified = None /\ NoState.risk = None /\ NoState.recovery = None
    /\ NoState.summary = None
    /\ Blank.state = NoState /\ Blank.summary = None
    /\ Blank \in [preference : Preference \cup {Blank.preference}, goal : Maybe(Goal),
                  score : Maybe(Score), state : State, summary : Maybe(Nat)]
  <1>1. MaxTime \in Nat /\ Time \subseteq Nat /\ Score \subseteq Int /\ None \notin Goal /\ None \notin Int
    BY AlertsAssumption DEF Time
  <1>2. None \notin Score /\ None \notin Nat /\ None \notin Time
    <2>1. Nat \subseteq Int
      OBVIOUS
    <2> QED
      BY <1>1, <2>1, Zenon
  <1>3. /\ NoState \in State /\ NoState.present = FALSE /\ NoState.notified = None
        /\ NoState.risk = None /\ NoState.recovery = None /\ NoState.summary = None
    BY DEF NoState, State, Maybe
  <1>4. Blank.state = NoState /\ Blank.summary = None
    BY DEF Blank
  <1>5. Blank \in [preference : Preference \cup {Blank.preference}, goal : Maybe(Goal),
                   score : Maybe(Score), state : State, summary : Maybe(Nat)]
    BY <1>3 DEF Blank, Maybe
  <1> QED
    BY <1>1, <1>2, <1>3, <1>4, <1>5

(* A material score is worse than the one before it.                        *)
LEMMA Worse ==
    ASSUME NEW before \in Score, NEW s \in Score, Material(before, s)
    PROVE  s < before
  <1>1. before \in Int /\ s \in Int /\ before # None /\ RiskDrop \in Nat /\ RiskDrop > 0
    BY Values, AlertsAssumption
  <1>2. CASE Severity(s) > Severity(before)
    BY <1>1, <1>2 DEF Severity
  <1>3. CASE s <= before - RiskDrop
    BY <1>1, <1>3
  <1> QED
    BY <1>1, <1>2, <1>3 DEF Material

(* What a decision means.                                                   *)
LEMMA Decisions ==
    ASSUME NEW s \in Score, NEW st \in State, NEW t
    PROVE  /\ RiskDecision(s, st, t) \in {"none", "risk", "recovery"}
           /\ RiskDecision(s, st, t) = "risk" =>
                 Severity(s) > 0 /\ ~ CoolingDown(st, t) /\ Material(st.notified, s)
           /\ RiskDecision(s, st, t) = "recovery" => Severity(s) = 0 /\ Bad(st.notified)
  <1>1. Severity(s) \in {0, 1, 2}
    BY DEF Severity
  <1> QED
    BY <1>1 DEF RiskDecision, Bad

(* A week is a number.                                                      *)
LEMMA WeekNumber ==
    ASSUME NEW t \in Time, NEW zone \in Zone
    PROVE  WeekOf(t, zone) \in Nat
  <1>1. Week \in Nat /\ Week > 0 /\ t + zone \in Nat
    BY AlertsAssumption, Values
  <1>2. \A a \in Nat, b \in Nat : b > 0 => a \div b \in Nat
    OBVIOUS
  <1> QED
    BY <1>1, <1>2 DEF WeekOf

-----------------------------------------------------------------------------
(* Types.                                                                   *)

(* The types in parts: the customer, the rows and jobs, the runs.           *)
WorldTyped ==
    /\ clock \in Time /\ preference \in Preference /\ goal \in Maybe(Goal) /\ score \in Score
    /\ changes \in 0..MaxEvents
QueueTyped ==
    /\ state \in [Goal -> State]
    /\ \A j \in job : j.key \in Key /\ j.at \in Time
    /\ told \in [Goal -> Maybe(Score)]
    /\ \A r \in recorded : r.key \in Key /\ r.at \in Time
    /\ faults \in 0..MaxEvents /\ overlaps \in 0..MaxEvents
Steps == {"idle", "preference", "snapshot", "state", "weekly", "risk", "record"}
SeenSet == [preference : Preference \cup {Blank.preference}, goal : Maybe(Goal),
            score : Maybe(Score), state : State, summary : Maybe(Nat)]
RunTyped(p) ==
    /\ pc[p] \notin {"idle", "preference"} => seen[p].preference \in Preference
    /\ pc[p] \in Working => seen[p].goal \in Goal /\ seen[p].score \in Score
RunsTyped ==
    /\ pc \in [Process -> Steps] /\ now \in [Process -> Time] /\ seen \in [Process -> SeenSet]
    /\ \A p \in Process : RunTyped(p)

(* The type of the state, by world, queue and runs.                         *)
LEMMA TypesApart == Typed => WorldTyped /\ QueueTyped /\ RunsTyped
  BY DEF Typed, TypeOK, SeenTyped, WorldTyped, QueueTyped, RunsTyped, RunTyped, SeenSet, Steps,
     Working

(* The types of the parts make the type of the whole.                       *)
LEMMA TypesTogether ==
    ASSUME WorldTyped', QueueTyped', RunsTyped'
    PROVE  Typed'
  <1>1. \A p \in Process : seen'[p].state \in State /\ seen'[p].summary \in Maybe(Nat)
    BY DEF RunsTyped, SeenSet
  <1> QED
    BY <1>1 DEF Typed, TypeOK, SeenTyped, WorldTyped, QueueTyped, RunsTyped, RunTyped, SeenSet,
       Steps, Working

(* The state starts typed.                                                  *)
LEMMA InitTyped == Init => Typed
  <1> SUFFICES ASSUME Init PROVE Typed
    OBVIOUS
  <1>1. NoState \in State /\ Blank \in SeenSet /\ None \in Maybe(Score) /\ 0 \in Time
        /\ MaxEvents \in Nat /\ Blank.state \in State /\ Blank.summary \in Maybe(Nat)
        /\ Choices \subseteq Preference
    BY Values, AlertsAssumption DEF SeenSet, Maybe, Time
  <1>2. SeenTyped
    BY <1>1 DEF Init, SeenTyped, SeenSet
  <1>3. TypeOK
    BY <1>1 DEF Init, TypeOK
  <1> QED
    BY <1>2, <1>3 DEF Typed

(* What one run does to the runs.                                           *)
LEMMA RunMoves ==
    ASSUME RunsTyped, NEW p \in Process,
           NEW step \in Steps, NEW t \in Time, NEW s \in SeenSet,
           pc' = [pc EXCEPT ![p] = step], now' = [now EXCEPT ![p] = t], seen' = [seen EXCEPT ![p] = s],
           step \notin {"idle", "preference"} => s.preference \in Preference,
           step \in Working => s.goal \in Goal /\ s.score \in Score
    PROVE  RunsTyped'
  <1>1. pc' \in [Process -> Steps] /\ now' \in [Process -> Time] /\ seen' \in [Process -> SeenSet]
    BY DEF RunsTyped
  <1>2. ASSUME NEW q \in Process PROVE RunTyped(q)'
    <2>1. CASE q = p
      BY <2>1 DEF RunsTyped, RunTyped
    <2>2. CASE q # p
      BY <2>2 DEF RunsTyped, RunTyped
    <2> QED
      BY <2>1, <2>2
  <1> QED
    BY <1>1, <1>2 DEF RunsTyped

(* A run that ends forgets what it has read.                                *)
LEMMA RunLeaves ==
    ASSUME RunsTyped, NEW p \in Process, Leave(p)
    PROVE  RunsTyped'
  <1>1. "idle" \in Steps /\ 0 \in Time /\ Blank \in SeenSet /\ "idle" \notin Working
    BY Values, AlertsAssumption DEF Steps, SeenSet, Time, Working
  <1> QED
    BY <1>1, RunMoves DEF Leave

(* The keys of the messages.                                                *)
LEMMA Keys ==
    ASSUME Typed, NEW p \in Process, pc[p] \in {"weekly", "risk", "record"}
    PROVE  /\ now[p] \in Time /\ seen[p].score \in Score /\ seen[p].goal \in Goal
           /\ seen[p].state \in State
           /\ Decision(p) \in {"none", "risk", "recovery"}
           /\ Decision(p) = "risk" => RiskDecision(seen[p].score, seen[p].state, now[p]) = "risk"
           /\ Decision(p) = "recovery" => RiskDecision(seen[p].score, seen[p].state, now[p]) = "recovery"
           /\ Decision(p) # "none" => KeyOf(p) \in Key
           /\ WeekOf(now[p], seen[p].preference.zone) \in Nat
           /\ WeeklyKey(seen[p].goal, WeekOf(now[p], seen[p].preference.zone)) \in Key
  <1>1. /\ now[p] \in Time /\ seen[p] \in SeenSet /\ seen[p].preference \in Preference
        /\ seen[p].goal \in Goal /\ seen[p].score \in Score
    BY TypesApart DEF RunsTyped, RunTyped, Working
  <1>2. seen[p].state \in State /\ seen[p].preference.zone \in Zone
    BY <1>1 DEF SeenSet, Preference
  <1>3. Decision(p) \in {"none", "risk", "recovery"}
    BY <1>1, <1>2, Decisions DEF Decision
  <1>4. /\ seen[p].state.notified \in Maybe(Score) /\ seen[p].state.risk \in Maybe(Nat)
        /\ seen[p].state.recovery \in Maybe(Nat)
    BY <1>2, Values DEF State, Maybe
  <1>5. Decision(p) # "none" => KeyOf(p) \in Key
    BY <1>1, <1>3, <1>4 DEF KeyOf, OccurrenceKey, Either, Key, Maybe
  <1>6. WeekOf(now[p], seen[p].preference.zone) \in Nat
    BY <1>1, <1>2, WeekNumber
  <1>7. WeeklyKey(seen[p].goal, WeekOf(now[p], seen[p].preference.zone)) \in Key
    BY <1>1, <1>6 DEF WeeklyKey, Key, Maybe
  <1> QED
    BY <1>1, <1>2, <1>3, <1>5, <1>6, <1>7 DEF Decision

(* What Record writes is a row.                                             *)
LEMMA UpdateTyped ==
    ASSUME Typed, NEW p \in Process, pc[p] = "record", NEW st \in State
    PROVE  Update(p, st) \in State
  <1>1. now[p] \in Time /\ seen[p].score \in Score /\ seen[p].summary \in Maybe(Nat)
    BY Keys, TypesApart DEF RunsTyped, SeenSet
  <1>2. /\ st.notified \in Maybe(Score) /\ st.risk \in Maybe(Time) /\ st.recovery \in Maybe(Time)
        /\ st.summary \in Maybe(Nat)
    BY DEF State
  <1>3. Either(seen[p].summary, st.summary) \in Maybe(Nat)
    BY <1>1, <1>2 DEF Either
  <1> QED
    BY <1>1, <1>2, <1>3 DEF Update, State, Maybe

(* The reads of evaluateUser.                                               *)
LEMMA ReadTypes ==
    ASSUME Typed, NEW p \in Process,
           Start(p) \/ ReadPreference(p) \/ ReadStability(p) \/ ReadState(p) \/ Fail(p)
    PROVE  Typed'
  <1>1. WorldTyped /\ QueueTyped /\ RunsTyped /\ seen[p] \in SeenSet /\ RunTyped(p) /\ now[p] \in Time
    BY TypesApart DEF RunsTyped
  <1>2. WorldTyped'
    BY <1>1 DEF Start, ReadPreference, ReadStability, ReadState, Fail, world, WorldTyped
  <1>3. faults' \in 0..MaxEvents /\ overlaps' \in 0..MaxEvents
    <2>1. /\ faults' = faults \/ (faults' = faults + 1 /\ MayChange)
          /\ overlaps' = overlaps \/ (overlaps' = overlaps + 1 /\ MayChange)
      BY DEF Start, ReadPreference, ReadStability, ReadState, Fail, history, MayFail
    <2>2. faults \in Nat /\ overlaps \in Nat /\ changes \in Nat /\ MaxEvents \in Nat
      BY <1>1, AlertsAssumption DEF QueueTyped, WorldTyped
    <2> QED
      BY <1>1, <2>1, <2>2 DEF QueueTyped, MayChange
  <1>4. QueueTyped'
    BY <1>1, <1>3 DEF Start, ReadPreference, ReadStability, ReadState, Fail, history, QueueTyped
  <1>5. RunsTyped'
    <2>1. CASE Start(p)
      <3>1. "preference" \in Steps /\ clock \in Time /\ seen' = [seen EXCEPT ![p] = seen[p]]
        BY <1>1, <2>1 DEF Start, Steps, WorldTyped, RunsTyped
      <3> QED
        BY <1>1, <2>1, <3>1, RunMoves DEF Start, Working
    <2>2. CASE Leave(p)
      BY <1>1, <2>2, RunLeaves
    <2>3. CASE ReadPreference(p) /\ Enabled(preference)
      <3>1. PICK s : s = [seen[p] EXCEPT !.preference = preference]
        OBVIOUS
      <3>2. s \in SeenSet /\ s.preference \in Preference
        BY <1>1, <3>1 DEF SeenSet, WorldTyped
      <3>3. "snapshot" \in Steps /\ "snapshot" \notin Working /\ now' = [now EXCEPT ![p] = now[p]]
            /\ seen' = [seen EXCEPT ![p] = s] /\ pc' = [pc EXCEPT ![p] = "snapshot"]
        BY <1>1, <2>3, <3>1 DEF ReadPreference, Go, Steps, Working, RunsTyped
      <3> QED
        BY <1>1, <3>2, <3>3, RunMoves
    <2>4. CASE ReadStability(p) /\ goal # None
      <3>1. PICK s : s = [seen[p] EXCEPT !.goal = goal, !.score = score]
        OBVIOUS
      <3>2. s \in SeenSet /\ s.preference \in Preference /\ s.goal \in Goal /\ s.score \in Score
        BY <1>1, <2>4, <3>1 DEF SeenSet, WorldTyped, RunTyped, ReadStability, Maybe
      <3>3. "state" \in Steps /\ now' = [now EXCEPT ![p] = now[p]]
            /\ seen' = [seen EXCEPT ![p] = s] /\ pc' = [pc EXCEPT ![p] = "state"]
        BY <1>1, <2>4, <3>1 DEF ReadStability, Go, Steps, RunsTyped
      <3> QED
        BY <1>1, <3>2, <3>3, RunMoves
    <2>5. CASE ReadState(p)
      <3>1. seen[p].goal \in Goal /\ seen[p].score \in Score /\ seen[p].preference \in Preference
        BY <1>1, <2>5 DEF RunTyped, ReadState, Working
      <3>2. PICK s : s = [seen[p] EXCEPT !.state = state[seen[p].goal]]
        OBVIOUS
      <3>3. /\ s \in SeenSet /\ s.preference = seen[p].preference /\ s.goal = seen[p].goal
            /\ s.score = seen[p].score
        BY <1>1, <3>1, <3>2 DEF SeenSet, QueueTyped
      <3>4. "weekly" \in Steps /\ now' = [now EXCEPT ![p] = now[p]]
            /\ seen' = [seen EXCEPT ![p] = s] /\ pc' = [pc EXCEPT ![p] = "weekly"]
        BY <1>1, <2>5, <3>2 DEF ReadState, Go, Steps, RunsTyped
      <3> QED
        BY <1>1, <3>1, <3>3, <3>4, RunMoves
    <2> QED
      BY <2>1, <2>2, <2>3, <2>4, <2>5 DEF ReadPreference, ReadStability, Fail
  <1> QED
    BY <1>2, <1>4, <1>5, TypesTogether

(* Its jobs, weekly and alert.                                              *)
LEMMA PublishTypes ==
    ASSUME Typed, NEW p \in Process, PublishWeekly(p) \/ PublishRisk(p)
    PROVE  Typed'
  <1>1. WorldTyped /\ QueueTyped /\ RunsTyped /\ seen[p] \in SeenSet /\ RunTyped(p) /\ now[p] \in Time
    BY TypesApart DEF RunsTyped
  <1>2. WorldTyped'
    BY <1>1 DEF PublishWeekly, PublishRisk, world, WorldTyped
  <1>3. seen[p].goal \in Goal /\ seen[p].score \in Score /\ seen[p].preference \in Preference
    BY <1>1 DEF RunTyped, PublishWeekly, PublishRisk, Working
  <1>4. PICK k \in Key : job' = job \/ job' = job \cup {[key |-> k, at |-> now[p]]}
    <2>1. CASE PublishWeekly(p)
      BY <2>1, Keys DEF PublishWeekly, Publish
    <2>2. CASE PublishRisk(p)
      <3>1. CASE Decision(p) # "none"
        BY <2>2, <3>1, Keys DEF PublishRisk, Publish
      <3>2. CASE Decision(p) = "none"
        <4>1. WeeklyKey(seen[p].goal, WeekOf(now[p], seen[p].preference.zone)) \in Key
          BY <2>2, Keys DEF PublishRisk
        <4> QED
          BY <2>2, <3>2, <4>1 DEF PublishRisk
      <3> QED
        BY <3>1, <3>2
    <2> QED
      BY <2>1, <2>2
  <1>5. told' \in [Goal -> Maybe(Score)] /\ UNCHANGED <<state, recorded, faults, overlaps>>
    BY <1>1, <1>3 DEF PublishWeekly, PublishRisk, QueueTyped, Maybe, history
  <1>6. QueueTyped'
    BY <1>1, <1>4, <1>5 DEF QueueTyped
  <1>7. RunsTyped'
    <2>1. PICK s : /\ s = seen[p] \/ s = [seen[p] EXCEPT !.summary = WeekOf(now[p], seen[p].preference.zone)]
                   /\ seen' = [seen EXCEPT ![p] = s]
      BY <1>1 DEF PublishWeekly, PublishRisk, RunsTyped
    <2>2. pc[p] \in {"weekly", "risk", "record"}
      BY DEF PublishWeekly, PublishRisk
    <2>3. s \in SeenSet /\ s.preference = seen[p].preference /\ s.goal = seen[p].goal
          /\ s.score = seen[p].score
      BY <1>1, <2>1, <2>2, Keys DEF SeenSet, Maybe
    <2>4. PICK step \in Steps : pc' = [pc EXCEPT ![p] = step]
      BY DEF PublishWeekly, PublishRisk, Go, Steps
    <2>5. now' = [now EXCEPT ![p] = now[p]]
      BY <1>1 DEF PublishWeekly, PublishRisk, RunsTyped
    <2> QED
      BY <1>1, <1>3, <2>1, <2>3, <2>4, <2>5, RunMoves
  <1> QED
    BY <1>2, <1>6, <1>7, TypesTogether

(* The upsert of the state it ends with.                                    *)
LEMMA RecordTypes ==
    ASSUME Typed, NEW p \in Process, Record(p)
    PROVE  Typed'
  <1>1. WorldTyped /\ QueueTyped /\ RunsTyped
    BY TypesApart
  <1>2. seen[p].goal \in Goal /\ now[p] \in Time /\ (Decision(p) # "none" => KeyOf(p) \in Key)
    BY Keys DEF Record
  <1>3. state' \in [Goal -> State]
    BY <1>1, <1>2, UpdateTyped DEF Record, QueueTyped
  <1>4. QueueTyped'
    BY <1>1, <1>2, <1>3 DEF Record, QueueTyped
  <1>5. WorldTyped'
    BY <1>1 DEF Record, WorldTyped, world
  <1> QED
    BY <1>1, <1>4, <1>5, RunLeaves, TypesTogether DEF Record

(* Preferences, goals, scores and time.                                     *)
LEMMA WorldTypes ==
    ASSUME Typed, UpdatePreferences \/ ChangeGoal \/ ChangeScore \/ Tick \/ UNCHANGED vars
    PROVE  Typed'
  <1>1. WorldTyped /\ QueueTyped /\ RunsTyped
    BY TypesApart
  <1>2. UNCHANGED <<state, job, runVars, history>>
    BY DEF UpdatePreferences, ChangeGoal, ChangeScore, Change, Tick, vars
  <1>3. QueueTyped' /\ RunsTyped'
    BY <1>1, <1>2 DEF QueueTyped, RunsTyped, RunTyped, runVars, history
  <1>4. WorldTyped'
    <2>1. /\ faults \in Nat /\ overlaps \in Nat /\ changes \in Nat /\ MaxEvents \in Nat
          /\ MaxTime \in Nat /\ clock \in Nat
      BY <1>1, AlertsAssumption DEF QueueTyped, WorldTyped, Time
    <2>2. CASE UpdatePreferences \/ ChangeGoal \/ ChangeScore
      <3>1. changes' \in 0..MaxEvents /\ clock' = clock /\ Choices \subseteq Preference
        BY <2>1, <2>2, AlertsAssumption DEF UpdatePreferences, ChangeGoal, ChangeScore, Change, MayChange
      <3> QED
        BY <1>1, <2>2, <3>1 DEF UpdatePreferences, ChangeGoal, ChangeScore, WorldTyped
    <2>3. CASE Tick
      BY <1>1, <2>1, <2>3 DEF Tick, WorldTyped, Time
    <2>4. CASE UNCHANGED vars
      BY <1>1, <2>4 DEF vars, world, WorldTyped
    <2> QED
      BY <2>2, <2>3, <2>4
  <1> QED
    BY <1>3, <1>4, TypesTogether

(* Every step keeps the types.                                              *)
LEMMA TypesKept ==
    ASSUME Typed, [Next]_vars
    PROVE  Typed'
  <1>1. ASSUME NEW p \in Process, Evaluate(p) \/ Fail(p) PROVE Typed'
    BY <1>1, ReadTypes, PublishTypes, RecordTypes DEF Evaluate
  <1> QED
    BY <1>1, WorldTypes DEF Next

-----------------------------------------------------------------------------
(* AlertsConsistent: a row, and what a run has read and published, is in    *)
(* the queue, which only grows.                                             *)
RowBacked(J, g, st) ==
    /\ st.summary # None => \E j \in J : j.key = WeeklyKey(g, st.summary)
    /\ Bad(st.notified) =>
          \E j \in J : j.key.type = "risk" /\ j.key.goal = g /\ j.key.current = st.notified
    /\ st.risk # None => \E j \in J : j.key.type = "risk" /\ j.key.goal = g
    /\ st.recovery # None => \E j \in J : j.key.type = "recovery" /\ j.key.goal = g

Backed == StateBackedByJobs /\ RecoveryFollowsRisk /\ \A p \in Process : RunBacked(p)

(* What the state of each goal says, row by row.                            *)
LEMMA RowsBacked == StateBackedByJobs <=> \A g \in Goal : RowBacked(job, g, state[g])
  BY DEF StateBackedByJobs, RowBacked, Alerts, Queued, Bad

(* The same, after the step.                                                *)
LEMMA RowsBackedNext ==
    StateBackedByJobs' <=> \A g \in Goal : RowBacked(job', g, state'[g])
  BY DEF StateBackedByJobs, RowBacked, Alerts, Queued, Bad

(* No step takes a job out of the queue.                                    *)
LEMMA JobsGrow == [Next]_vars => job \subseteq job'
  BY DEF Next, Evaluate, Start, ReadPreference, ReadStability, ReadState, PublishWeekly,
     PublishRisk, Publish, Record, Fail, UpdatePreferences, ChangeGoal, ChangeScore, Change, Tick,
     vars

(* A run that does not move stays backed.                                   *)
LEMMA RunStays ==
    ASSUME NEW q \in Process, RunBacked(q), job \subseteq job',
           pc'[q] = pc[q], now'[q] = now[q], seen'[q] = seen[q]
    PROVE  RunBacked(q)'
  <1>1. Decision(q)' = Decision(q)
    BY DEF Decision
  <1>2. KeyOf(q)' = KeyOf(q)
    BY <1>1 DEF KeyOf
  <1>3. \A k : (\E j \in job : j.key = k) => \E j \in job' : j.key = k
    OBVIOUS
  <1>4. pc[q] \in {"weekly", "risk", "record"} /\ Bad(seen[q].state.notified) =>
            \E j \in Alerts("risk", seen[q].goal) : j.key.current = seen[q].state.notified
    BY DEF RunBacked
  <1>5. (pc[q] \in {"weekly", "risk", "record"} /\ Bad(seen[q].state.notified) =>
            \E j \in Alerts("risk", seen[q].goal) : j.key.current = seen[q].state.notified)'
    BY <1>4 DEF Alerts
  <1>6. (seen[q].summary # None =>
            pc[q] \in {"risk", "record"} /\ Queued(WeeklyKey(seen[q].goal, seen[q].summary)))'
    BY <1>3 DEF RunBacked, Queued
  <1>7. (pc[q] = "record" /\ Decision(q) # "none" => Queued(KeyOf(q)))'
    BY <1>1, <1>2, <1>3 DEF RunBacked, Queued
  <1> QED
    BY <1>5, <1>6, <1>7 DEF RunBacked

(* A run that is over, or has yet to read the row, claims nothing.          *)
LEMMA RunClaimsNothing ==
    ASSUME NEW q \in Process, pc'[q] \notin {"weekly", "risk", "record"}, seen'[q].summary = None
    PROVE  RunBacked(q)'
  BY DEF RunBacked

(* Growing the queue by anything but a recovery keeps recoveries backed.    *)
LEMMA RecoveriesFollow ==
    ASSUME RecoveryFollowsRisk, job \subseteq job',
           \A j \in job' \ job : j.key.type = "recovery" =>
               \E i \in job : i.key.type = "risk" /\ i.key.goal = j.key.goal
                              /\ i.key.current = j.key.previous
    PROVE  RecoveryFollowsRisk'
  <1> SUFFICES ASSUME NEW g \in Goal, NEW r \in job', r.key.type = "recovery", r.key.goal = g
               PROVE  \E j \in job' : j.key.type = "risk" /\ j.key.goal = g
                                      /\ j.key.current = r.key.previous
    BY DEF RecoveryFollowsRisk, Alerts
  <1>1. CASE r \in job
    BY <1>1 DEF RecoveryFollowsRisk, Alerts
  <1>2. CASE r \notin job
    BY <1>2
  <1> QED
    BY <1>1, <1>2

(* States that stay remain backed when the queue grows.                     *)
LEMMA RowsStay ==
    ASSUME StateBackedByJobs, job \subseteq job', state' = state
    PROVE  StateBackedByJobs'
  <1>1. \A g \in Goal : RowBacked(job, g, state[g])
    BY RowsBacked
  <1>2. \A g \in Goal : RowBacked(job', g, state'[g])
    BY <1>1 DEF RowBacked
  <1> QED
    BY <1>2, RowsBackedNext

(* A message that is published is in the queue.                             *)
LEMMA Published ==
    ASSUME NEW k, NEW t, Publish(k, t)
    PROVE  \E j \in job' : j.key = k
  <1>1. CASE Queued(k)
    BY <1>1 DEF Publish, Queued
  <1>2. CASE ~ Queued(k)
    <2>1. [key |-> k, at |-> t] \in job' /\ [key |-> k, at |-> t].key = k
      BY <1>2 DEF Publish
    <2> QED
      BY <2>1
  <1> QED
    BY <1>1, <1>2

(* The steps of one run, by what they do to the queue and to the row.       *)
LEMMA ReadBacked ==
    ASSUME Typed, Backed, NEW p \in Process,
           Start(p) \/ ReadPreference(p) \/ ReadStability(p) \/ ReadState(p) \/ Fail(p)
    PROVE  Backed'
  <1>1. RunsTyped /\ seen \in [Process -> SeenSet] /\ seen[p].state \in State
    BY TypesApart DEF RunsTyped, SeenSet
  <1>2. UNCHANGED <<state, job>>
    BY DEF Start, ReadPreference, ReadStability, ReadState, Fail
  <1>3. StateBackedByJobs' /\ RecoveryFollowsRisk'
    BY <1>2, RowsStay DEF Backed, RecoveryFollowsRisk, Alerts
  <1>4. ASSUME NEW q \in Process, q # p PROVE RunBacked(q)'
    <2>1. pc'[q] = pc[q] /\ now'[q] = now[q] /\ seen'[q] = seen[q]
      BY <1>1, <1>4 DEF RunsTyped, Start, ReadPreference, ReadStability, ReadState, Fail, Leave, Go
    <2> QED
      BY <1>2, <2>1, RunStays DEF Backed
  <1>5. RunBacked(p)'
    <2>1. pc[p] \in {"idle", "preference", "snapshot", "state"} => seen[p].summary = None
      BY DEF Backed, RunBacked
    <2>2. CASE Leave(p)
      <3>1. pc'[p] = "idle" /\ seen'[p] = Blank
        BY <1>1, <2>2 DEF Leave, RunsTyped
      <3> QED
        BY <3>1, Values, RunClaimsNothing
    <2>3. CASE ReadState(p)
      <3>1. /\ pc'[p] = "weekly" /\ seen'[p].state = state[seen[p].goal]
            /\ seen'[p].goal = seen[p].goal /\ seen'[p].summary = seen[p].summary
            /\ seen[p].goal \in Goal /\ seen[p].summary = None
        BY <1>1, <2>1, <2>3 DEF ReadState, Go, RunsTyped, SeenSet, RunTyped, Working
      <3>2. Bad(state[seen[p].goal].notified) =>
                \E j \in job : j.key.type = "risk" /\ j.key.goal = seen[p].goal
                               /\ j.key.current = state[seen[p].goal].notified
        BY <3>1, RowsBacked DEF Backed, RowBacked
      <3> QED
        BY <1>2, <3>1, <3>2 DEF RunBacked, Alerts
    <2>4. CASE Start(p) \/ (ReadPreference(p) /\ Enabled(preference)) \/ (ReadStability(p) /\ goal # None)
      <3>1. pc'[p] \in {"preference", "snapshot", "state"} /\ seen'[p].summary = seen[p].summary
        BY <1>1, <2>4 DEF Start, ReadPreference, ReadStability, Go, RunsTyped, SeenSet
      <3>2. seen[p].summary = None
        BY <2>1, <2>4 DEF Start, ReadPreference, ReadStability
      <3> QED
        BY <3>1, <3>2, RunClaimsNothing
    <2> QED
      BY <2>2, <2>3, <2>4 DEF ReadPreference, ReadStability, Fail
  <1> QED
    BY <1>3, <1>4, <1>5 DEF Backed

(* The weekly job is queued before it is recorded.                          *)
LEMMA WeeklyBacked ==
    ASSUME Typed, Backed, NEW p \in Process, PublishWeekly(p)
    PROVE  Backed'
  <1>1. RunsTyped /\ seen \in [Process -> SeenSet] /\ pc[p] = "weekly" /\ state' = state /\ now' = now
    BY TypesApart DEF RunsTyped, PublishWeekly
  <1> DEFINE week == WeekOf(now[p], seen[p].preference.zone)
             k == WeeklyKey(seen[p].goal, week)
             due == /\ seen[p].preference.weekly
                    /\ WeeklyDue(now[p], seen[p].preference.zone)
                    /\ seen[p].state.summary # week
  <1>2. job \subseteq job' /\ \A j \in job' \ job : j.key = k
    BY DEF PublishWeekly, Publish
  <1>3. due => \E j \in job' : j.key = k
    BY Published DEF PublishWeekly
  <1>4. k.type = "weekly"
    BY DEF WeeklyKey
  <1>5. StateBackedByJobs' /\ RecoveryFollowsRisk'
    BY <1>1, <1>2, <1>4, RowsStay, RecoveriesFollow DEF Backed
  <1>6. ASSUME NEW q \in Process, q # p PROVE RunBacked(q)'
    <2>1. pc'[q] = pc[q] /\ now'[q] = now[q] /\ seen'[q] = seen[q]
      BY <1>1, <1>6 DEF RunsTyped, PublishWeekly, Go
    <2> QED
      BY <1>2, <2>1, RunStays DEF Backed
  <1>7. RunBacked(p)'
    <2>1. /\ pc'[p] = "risk" /\ seen'[p].goal = seen[p].goal /\ seen'[p].state = seen[p].state
          /\ seen[p].summary = None
          /\ seen'[p].summary = IF due THEN week ELSE None
      BY <1>1 DEF PublishWeekly, Go, RunsTyped, SeenSet, Backed, RunBacked
    <2>2. Bad(seen[p].state.notified) =>
              \E j \in Alerts("risk", seen[p].goal) : j.key.current = seen[p].state.notified
      BY <1>1 DEF Backed, RunBacked
    <2>3. Bad(seen[p].state.notified) =>
              \E j \in job' : /\ j.key.type = "risk" /\ j.key.goal = seen[p].goal
                              /\ j.key.current = seen[p].state.notified
      BY <1>2, <2>2 DEF Alerts
    <2>4. seen'[p].summary # None =>
              \E j \in job' : j.key = WeeklyKey(seen'[p].goal, seen'[p].summary)
      BY <1>3, <2>1
    <2> QED
      BY <2>1, <2>3, <2>4 DEF RunBacked, Alerts, Queued
  <1> QED
    BY <1>5, <1>6, <1>7 DEF Backed

(* So is the alert.                                                         *)
LEMMA RiskBacked ==
    ASSUME Typed, Backed, NEW p \in Process, PublishRisk(p)
    PROVE  Backed'
  <1>1. /\ RunsTyped /\ seen \in [Process -> SeenSet] /\ pc[p] = "risk" /\ state' = state
        /\ now' = now /\ seen' = seen
    BY TypesApart DEF RunsTyped, PublishRisk
  <1>2. job \subseteq job' /\ \A j \in job' \ job : j.key = KeyOf(p) /\ Decision(p) # "none"
    BY DEF PublishRisk, Publish
  <1>3. Decision(p) # "none" => \E j \in job' : j.key = KeyOf(p)
    BY Published DEF PublishRisk
  <1>4. /\ KeyOf(p).type = Decision(p) /\ KeyOf(p).goal = seen[p].goal
        /\ KeyOf(p).previous = seen[p].state.notified
    BY DEF KeyOf, OccurrenceKey
  <1>5. Decision(p) = "recovery" => Bad(seen[p].state.notified)
    BY <1>1, Keys, Decisions
  <1>6. Bad(seen[p].state.notified) =>
              \E j \in Alerts("risk", seen[p].goal) : j.key.current = seen[p].state.notified
    BY <1>1 DEF Backed, RunBacked
  <1>7. StateBackedByJobs'
    BY <1>1, <1>2, RowsStay DEF Backed
  <1>8. RecoveryFollowsRisk'
    <2>1. \A j \in job' \ job : j.key.type = "recovery" =>
               \E i \in job : i.key.type = "risk" /\ i.key.goal = j.key.goal
                              /\ i.key.current = j.key.previous
      BY <1>2, <1>4, <1>5, <1>6 DEF Alerts
    <2> QED
      BY <1>2, <2>1, RecoveriesFollow DEF Backed
  <1>9. ASSUME NEW q \in Process, q # p PROVE RunBacked(q)'
    <2>1. pc'[q] = pc[q] /\ now'[q] = now[q] /\ seen'[q] = seen[q]
      BY <1>1, <1>9 DEF RunsTyped, PublishRisk, Go
    <2> QED
      BY <1>2, <2>1, RunStays DEF Backed
  <1>10. RunBacked(p)'
    <2>1. pc'[p] = "record" /\ Decision(p)' = Decision(p)
      BY <1>1 DEF PublishRisk, Go, RunsTyped, Decision
    <2>2. KeyOf(p)' = KeyOf(p)
      BY <1>1, <2>1 DEF KeyOf
    <2>3. Bad(seen[p].state.notified) =>
              \E j \in job' : /\ j.key.type = "risk" /\ j.key.goal = seen[p].goal
                              /\ j.key.current = seen[p].state.notified
      BY <1>2, <1>6 DEF Alerts
    <2>4. seen[p].summary # None => \E j \in job' : j.key = WeeklyKey(seen[p].goal, seen[p].summary)
      BY <1>1, <1>2 DEF Backed, RunBacked, Queued
    <2> QED
      BY <1>1, <1>3, <2>1, <2>2, <2>3, <2>4 DEF RunBacked, Alerts, Queued
  <1> QED
    BY <1>7, <1>8, <1>9, <1>10 DEF Backed

(* What is recorded was queued by the run that records it.                  *)
LEMMA RecordBacked ==
    ASSUME Typed, Backed, NEW p \in Process, Record(p)
    PROVE  Backed'
  <1>1. /\ RunsTyped /\ QueueTyped /\ seen \in [Process -> SeenSet] /\ pc[p] = "record" /\ job' = job
        /\ seen[p].goal \in Goal
    BY TypesApart, Keys DEF RunsTyped, Record
  <1> DEFINE g == seen[p].goal
             st == state[g]
  <1>2. RecoveryFollowsRisk'
    BY <1>1 DEF Backed, RecoveryFollowsRisk, Alerts
  <1>3. RowBacked(job, g, st)
    BY <1>1, RowsBacked DEF Backed
  <1>4. /\ seen[p].summary # None => \E j \in job : j.key = WeeklyKey(g, seen[p].summary)
        /\ Decision(p) # "none" => \E j \in job : j.key = KeyOf(p)
    BY <1>1 DEF Backed, RunBacked, Queued
  <1>5. /\ KeyOf(p).type = Decision(p) /\ KeyOf(p).goal = g /\ KeyOf(p).current = seen[p].score
        /\ Decision(p) \in {"none", "risk", "recovery"}
        /\ Decision(p) = "recovery" => Severity(seen[p].score) = 0
    BY <1>1, Keys, Decisions DEF KeyOf, OccurrenceKey
  <1>6. RowBacked(job, g, Update(p, st))
    <2>1. Update(p, st).summary = Either(seen[p].summary, st.summary)
      BY DEF Update
    <2>2. Update(p, st).summary # None => \E j \in job : j.key = WeeklyKey(g, Update(p, st).summary)
      BY <1>3, <1>4, <2>1 DEF RowBacked, Either
    <2>3. Bad(Update(p, st).notified) =>
              \E j \in job : j.key.type = "risk" /\ j.key.goal = g
                             /\ j.key.current = Update(p, st).notified
      <3>1. CASE Decision(p) = "risk"
        BY <1>4, <1>5, <3>1 DEF Update
      <3>2. CASE Decision(p) # "risk"
        <4>1. Update(p, st).notified = st.notified \/ ~ Bad(Update(p, st).notified)
          BY <1>5, <3>2 DEF Update, Bad
        <4> QED
          BY <1>3, <4>1 DEF RowBacked
      <3> QED
        BY <3>1, <3>2
    <2>4. Update(p, st).risk # None => \E j \in job : j.key.type = "risk" /\ j.key.goal = g
      BY <1>3, <1>4, <1>5 DEF RowBacked, Update
    <2>5. Update(p, st).recovery # None => \E j \in job : j.key.type = "recovery" /\ j.key.goal = g
      BY <1>3, <1>4, <1>5 DEF RowBacked, Update
    <2> QED
      BY <2>2, <2>3, <2>4, <2>5 DEF RowBacked
  <1>7. StateBackedByJobs'
    <2>1. ASSUME NEW h \in Goal PROVE RowBacked(job', h, state'[h])
      <3>1. state'[h] = IF h = g THEN Update(p, st) ELSE state[h]
        BY <1>1 DEF Record, QueueTyped
      <3>2. RowBacked(job, h, state[h])
        BY RowsBacked DEF Backed
      <3> QED
        BY <1>1, <1>6, <3>1, <3>2
    <2> QED
      BY <2>1, RowsBackedNext
  <1>8. ASSUME NEW q \in Process PROVE RunBacked(q)'
    <2>1. CASE q # p
      <3>1. pc'[q] = pc[q] /\ now'[q] = now[q] /\ seen'[q] = seen[q]
        BY <1>1, <2>1 DEF RunsTyped, Record, Leave
      <3> QED
        BY <1>1, <3>1, RunStays DEF Backed
    <2>2. CASE q = p
      <3>1. pc'[p] = "idle" /\ seen'[p] = Blank
        BY <1>1 DEF Record, Leave, RunsTyped
      <3> QED
        BY <2>2, <3>1, Values, RunClaimsNothing
    <2> QED
      BY <2>1, <2>2
  <1> QED
    BY <1>2, <1>7, <1>8 DEF Backed

(* Every step keeps the state backed.                                       *)
LEMMA BackedKept ==
    ASSUME Typed, Backed, [Next]_vars
    PROVE  Backed'
  <1>1. ASSUME NEW p \in Process, Evaluate(p) \/ Fail(p) PROVE Backed'
    BY <1>1, ReadBacked, WeeklyBacked, RiskBacked, RecordBacked DEF Evaluate
  <1>2. ASSUME UpdatePreferences \/ ChangeGoal \/ ChangeScore \/ Tick \/ UNCHANGED vars PROVE Backed'
    <2>1. UNCHANGED <<state, job, runVars>>
      BY <1>2 DEF UpdatePreferences, ChangeGoal, ChangeScore, Change, Tick, vars
    <2>2. StateBackedByJobs' /\ RecoveryFollowsRisk'
      BY <2>1, RowsStay DEF Backed, RecoveryFollowsRisk, Alerts
    <2>3. \A q \in Process : RunBacked(q)'
      BY <2>1, RunStays DEF Backed, runVars
    <2> QED
      BY <2>2, <2>3 DEF Backed
  <1> QED
    BY <1>1, <1>2 DEF Next

-----------------------------------------------------------------------------
(* As long as runs do not overlap: one run at a time, later than all before *)
(* it, on the row as it is.                                                 *)
Alone == \A p, q \in Process : pc[p] # "idle" /\ pc[q] # "idle" => p = q
Reading == {"weekly", "risk", "record"}
RowCurrent(p) == pc[p] \in Reading => seen[p].state = state[seen[p].goal]
Past(x) == x.at <= clock /\ \A p \in Process : pc[p] # "idle" => x.at <= now[p]

(* What one run at a time means, run by run.                                *)
LEMMA SerialParts ==
    /\ Serial <=> /\ Alone /\ \A p \in Process : RowCurrent(p) /\ now[p] <= clock
                  /\ \A x \in job \cup recorded : Past(x)
    /\ Serial' <=> /\ Alone' /\ \A p \in Process : RowCurrent(p)' /\ now'[p] <= clock'
                   /\ \A x \in job' \cup recorded' : Past(x)'
  BY DEF Serial, Alone, RowCurrent, Past, Reading

(* Times and scores are numbers.                                            *)
LEMMA Numbers ==
    ASSUME Typed
    PROVE  /\ clock \in Nat /\ overlaps \in Nat /\ \A p \in Process : now[p] \in Nat
           /\ \A x \in job \cup recorded : x.at \in Nat /\ x.at \in Time /\ x.key \in Key
           /\ \A g \in Goal : state[g] \in State
  <1>1. WorldTyped /\ QueueTyped /\ RunsTyped /\ Time \subseteq Nat
    BY TypesApart, Values
  <1>2. clock \in Nat /\ overlaps \in Nat /\ \A g \in Goal : state[g] \in State
    BY <1>1 DEF WorldTyped, QueueTyped
  <1>3. \A p \in Process : now[p] \in Nat
    BY <1>1 DEF RunsTyped
  <1>4. \A x \in job \cup recorded : x.at \in Nat /\ x.at \in Time /\ x.key \in Key
    BY <1>1 DEF QueueTyped
  <1> QED
    BY <1>2, <1>3, <1>4

(* Overlaps and records are not taken back.                                 *)
LEMMA HistoryGrows ==
    ASSUME Typed, [Next]_vars
    PROVE  /\ overlaps' = 0 => overlaps = 0
           /\ recorded \subseteq recorded'
           /\ RecoveriesApart' => RecoveriesApart
  <1>1. recorded \subseteq recorded' /\ (overlaps' = overlaps \/ overlaps' = overlaps + 1)
    BY DEF Next, Evaluate, Start, ReadPreference, ReadStability, ReadState, PublishWeekly,
       PublishRisk, Record, Fail, UpdatePreferences, ChangeGoal, ChangeScore, Change, Tick, vars,
       history
  <1>2. overlaps' = 0 => overlaps = 0
    BY <1>1, Numbers
  <1>3. RecoveriesApart' => RecoveriesApart
    BY <1>1 DEF RecoveriesApart, Recorded
  <1> QED
    BY <1>1, <1>2, <1>3

(* A run that starts is the only one.                                       *)
LEMMA StartSerial ==
    ASSUME Typed, Serial, overlaps = 0, overlaps' = 0, NEW p \in Process, Start(p)
    PROVE  Serial'
  <1>1. RunsTyped
    BY TypesApart
  <1>2. \A q \in Process : pc[q] = "idle"
    BY DEF Start
  <1>3. /\ pc' = [pc EXCEPT ![p] = "preference"] /\ now' = [now EXCEPT ![p] = clock]
        /\ UNCHANGED <<clock, seen, state, job, recorded>>
    BY DEF Start, world
  <1>4. \A q \in Process : /\ pc'[q] = IF q = p THEN "preference" ELSE "idle"
                           /\ now'[q] = IF q = p THEN clock ELSE now[q]
    BY <1>1, <1>2, <1>3 DEF RunsTyped
  <1>5. Alone'
    BY <1>4 DEF Alone
  <1>6. \A q \in Process : RowCurrent(q)' /\ now'[q] <= clock'
    BY <1>3, <1>4, Numbers, SerialParts DEF RowCurrent, Reading
  <1>7. \A x \in job' \cup recorded' : Past(x)'
    BY <1>3, <1>4, SerialParts DEF Past
  <1> QED
    BY <1>5, <1>6, <1>7, SerialParts

(* A run that is over leaves the others, and what it adds is as old as it.  *)
LEMMA LeaveSerial ==
    ASSUME Typed, Serial, NEW p \in Process, pc[p] # "idle", Leave(p), clock' = clock,
           \A x \in (job' \cup recorded') \ (job \cup recorded) : x.at = now[p]
    PROVE  Serial'
  <1>1. RunsTyped
    BY TypesApart
  <1>2. \A q \in Process : pc'[q] = "idle" /\ (now'[q] = 0 \/ now'[q] = now[q])
    BY <1>1, SerialParts DEF RunsTyped, Leave, Alone
  <1>3. Alone' /\ \A q \in Process : RowCurrent(q)' /\ now'[q] <= clock'
    BY <1>2, Numbers, SerialParts DEF Alone, RowCurrent, Reading
  <1>4. \A x \in job' \cup recorded' : Past(x)'
    BY <1>2, SerialParts DEF Past
  <1> QED
    BY <1>3, <1>4, SerialParts

(* A run that goes on, with the row as it is.                               *)
LEMMA StepSerial ==
    ASSUME Typed, Serial, NEW p \in Process, pc[p] # "idle", NEW step \in Steps, Go(p, step),
           UNCHANGED <<clock, now, state, recorded>>,
           \A q \in Process : q # p => seen'[q] = seen[q],
           RowCurrent(p)',
           \A x \in job' \ job : x.at = now[p]
    PROVE  Serial'
  <1>1. RunsTyped
    BY TypesApart
  <1>2. \A q \in Process : q # p => pc[q] = "idle" /\ pc'[q] = "idle"
    BY <1>1, SerialParts DEF RunsTyped, Go, Alone
  <1>3. Alone' /\ \A q \in Process : RowCurrent(q)' /\ now'[q] <= clock'
    BY <1>2, SerialParts DEF Alone, RowCurrent, Reading
  <1>4. now[p] <= now[p]
    BY Numbers
  <1>5. \A x \in job' \cup recorded' : Past(x)'
    BY <1>2, <1>4, SerialParts DEF Past
  <1> QED
    BY <1>3, <1>5, SerialParts

(* While no runs have overlapped, a run's reading is current and no job is  *)
(* of the future.                                                           *)
LEMMA SerialKept ==
    ASSUME Typed, Serial, overlaps = 0, overlaps' = 0, [Next]_vars
    PROVE  Serial'
  <1>1. RunsTyped /\ QueueTyped /\ WorldTyped
    BY TypesApart
  <1>2. ASSUME NEW p \in Process, Evaluate(p) \/ Fail(p) PROVE Serial'
    <2>1. CASE Start(p)
      BY <2>1, StartSerial
    <2>2. CASE Leave(p) /\ ~ Start(p)
      <3>1. pc[p] # "idle" /\ clock' = clock
            /\ \A x \in (job' \cup recorded') \ (job \cup recorded) : x.at = now[p]
        <4>1. CASE Record(p)
          BY <4>1 DEF Record, world
        <4>2. CASE Fail(p) \/ ReadPreference(p) \/ ReadStability(p)
          BY <4>2 DEF Fail, ReadPreference, ReadStability, world, history
        <4>3. CASE ReadState(p) \/ PublishWeekly(p) \/ PublishRisk(p)
          BY <1>1, <2>2, <4>3 DEF ReadState, PublishWeekly, PublishRisk, Leave, Go, RunsTyped
        <4> QED
          BY <1>2, <2>2, <4>1, <4>2, <4>3 DEF Evaluate
      <3> QED
        BY <2>2, <3>1, LeaveSerial
    <2>3. CASE ReadPreference(p) /\ ~ Leave(p)
      <3>1. /\ Go(p, "snapshot") /\ "snapshot" \in Steps /\ pc[p] # "idle"
            /\ UNCHANGED <<clock, now, state, recorded, job>>
            /\ \A q \in Process : q # p => seen'[q] = seen[q]
        BY <1>1, <2>3 DEF ReadPreference, Steps, world, history, RunsTyped
      <3>2. RowCurrent(p)'
        BY <1>1, <3>1 DEF RowCurrent, Reading, Go, RunsTyped
      <3> QED
        BY <3>1, <3>2, StepSerial
    <2>4. CASE ReadStability(p) /\ ~ Leave(p)
      <3>1. /\ Go(p, "state") /\ "state" \in Steps /\ pc[p] # "idle"
            /\ UNCHANGED <<clock, now, state, recorded, job>>
            /\ \A q \in Process : q # p => seen'[q] = seen[q]
        BY <1>1, <2>4 DEF ReadStability, Steps, world, history, RunsTyped
      <3>2. RowCurrent(p)'
        BY <1>1, <3>1 DEF RowCurrent, Reading, Go, RunsTyped
      <3> QED
        BY <3>1, <3>2, StepSerial
    <2>5. CASE ReadState(p)
      <3>1. /\ Go(p, "weekly") /\ "weekly" \in Steps /\ pc[p] # "idle"
            /\ UNCHANGED <<clock, now, state, recorded, job>>
            /\ \A q \in Process : q # p => seen'[q] = seen[q]
        BY <1>1, <2>5 DEF ReadState, Steps, world, history, RunsTyped
      <3>2. seen'[p].state = state[seen[p].goal] /\ seen'[p].goal = seen[p].goal
        BY <1>1, <2>5 DEF ReadState, RunsTyped, SeenSet
      <3>3. RowCurrent(p)'
        BY <3>1, <3>2 DEF RowCurrent
      <3> QED
        BY <3>1, <3>3, StepSerial
    <2>6. CASE PublishWeekly(p)
      <3>1. /\ Go(p, "risk") /\ "risk" \in Steps /\ pc[p] = "weekly"
            /\ UNCHANGED <<clock, now, state, recorded>>
            /\ \A q \in Process : q # p => seen'[q] = seen[q]
            /\ \A x \in job' \ job : x.at = now[p]
        BY <1>1, <2>6 DEF PublishWeekly, Publish, Steps, world, history, RunsTyped
      <3>2. seen'[p].state = seen[p].state /\ seen'[p].goal = seen[p].goal
        BY <1>1, <2>6 DEF PublishWeekly, RunsTyped, SeenSet
      <3>3. RowCurrent(p)'
        BY <3>1, <3>2, SerialParts DEF RowCurrent, Reading
      <3> QED
        BY <3>1, <3>3, StepSerial
    <2>7. CASE PublishRisk(p)
      <3>1. /\ Go(p, "record") /\ "record" \in Steps /\ pc[p] = "risk"
            /\ UNCHANGED <<clock, now, state, recorded, seen>>
            /\ \A x \in job' \ job : x.at = now[p]
        BY <1>1, <2>7 DEF PublishRisk, Publish, Steps, world
      <3>2. RowCurrent(p)'
        BY <3>1, SerialParts DEF RowCurrent, Reading
      <3> QED
        BY <3>1, <3>2, StepSerial
    <2> QED
      BY <1>2, <2>1, <2>2, <2>3, <2>4, <2>5, <2>6, <2>7 DEF Evaluate, Record, Fail
  <1>3. ASSUME UpdatePreferences \/ ChangeGoal \/ ChangeScore \/ Tick \/ UNCHANGED vars PROVE Serial'
    <2>1. UNCHANGED <<state, job, runVars, recorded>>
      BY <1>3 DEF UpdatePreferences, ChangeGoal, ChangeScore, Change, Tick, vars, history
    <2>2. clock' = clock \/ clock' = clock + 1
      BY <1>3 DEF UpdatePreferences, ChangeGoal, ChangeScore, Change, Tick, vars, world
    <2>3. Alone' /\ \A q \in Process : RowCurrent(q)'
      BY <2>1, SerialParts DEF Alone, RowCurrent, runVars
    <2>4. \A q \in Process : now'[q] <= clock'
      BY <2>1, <2>2, Numbers, SerialParts DEF runVars
    <2>5. \A x \in job \cup recorded : x.at <= clock'
      BY <2>2, Numbers, SerialParts DEF Past
    <2>6. \A x \in job' \cup recorded' : Past(x)'
      BY <2>1, <2>5, SerialParts DEF Past, runVars
    <2> QED
      BY <2>3, <2>4, <2>6, SerialParts
  <1> QED
    BY <1>2, <1>3 DEF Next

-----------------------------------------------------------------------------
(* The rows against what was recorded.                                      *)
Follow == \A g \in Goal : RowFollows(g)
Worsen == RecoveriesApart => \A g \in Goal : Worsening(g)

(* A step that records nothing and leaves the rows alone.                   *)
LEMMA RowsUntouched ==
    ASSUME UNCHANGED <<state, recorded>>
    PROVE  (Follow => Follow') /\ (Worsen => Worsen')
  BY DEF Follow, Worsen, RowFollows, Worsening, Recorded, RecoveriesApart

(* What a run records, with the row it has read.                            *)
LEMMA RecordedRow ==
    ASSUME Typed, Serial, NEW p \in Process, Record(p)
    PROVE  /\ seen[p].goal \in Goal /\ now[p] \in Nat /\ seen[p].score \in Score
           /\ seen[p].state = state[seen[p].goal] /\ state[seen[p].goal] \in State
           /\ Decision(p) \in {"none", "risk", "recovery"}
           /\ KeyOf(p) = OccurrenceKey(Decision(p), seen[p].goal, state[seen[p].goal], seen[p].score)
           /\ state' = [state EXCEPT ![seen[p].goal] = Update(p, state[seen[p].goal])]
           /\ recorded' = IF Decision(p) = "none" THEN recorded
                          ELSE recorded \cup {[key |-> KeyOf(p), at |-> now[p]]}
           /\ \A x \in recorded : x.at <= now[p]
           /\ \A h \in Goal : h # seen[p].goal =>
                 /\ state'[h] = state[h]
                 /\ \A type : Recorded(type, h)' = Recorded(type, h)
  <1>1. QueueTyped /\ pc[p] = "record" /\ state \in [Goal -> State]
    BY TypesApart DEF Record, QueueTyped
  <1>2. /\ seen[p].goal \in Goal /\ now[p] \in Nat /\ seen[p].score \in Score
        /\ Decision(p) \in {"none", "risk", "recovery"}
    BY <1>1, Keys, Numbers
  <1>3. seen[p].state = state[seen[p].goal] /\ \A x \in recorded : x.at <= now[p]
    BY <1>1, SerialParts DEF RowCurrent, Reading, Past
  <1>4. KeyOf(p) = OccurrenceKey(Decision(p), seen[p].goal, state[seen[p].goal], seen[p].score)
    BY <1>3 DEF KeyOf
  <1>5. /\ state' = [state EXCEPT ![seen[p].goal] = Update(p, state[seen[p].goal])]
        /\ recorded' = IF Decision(p) = "none" THEN recorded
                       ELSE recorded \cup {[key |-> KeyOf(p), at |-> now[p]]}
    BY DEF Record
  <1>6. KeyOf(p).goal = seen[p].goal
    BY DEF KeyOf, OccurrenceKey
  <1>7. ASSUME NEW h \in Goal, h # seen[p].goal
        PROVE  state'[h] = state[h] /\ \A type : Recorded(type, h)' = Recorded(type, h)
    BY <1>1, <1>5, <1>6, <1>7 DEF Recorded
  <1> QED
    BY <1>1, <1>2, <1>3, <1>4, <1>5, <1>7

(* A row on which nothing was decided: the baseline may be set, but only if *)
(* there was no row, and never to a risk.                                   *)
LEMMA UndecidedRow ==
    ASSUME NEW p \in Process, NEW st \in State, Decision(p) = "none", seen[p].state = st
    PROVE  LET u == Update(p, st) IN
           /\ u.present = TRUE /\ u.risk = st.risk /\ u.recovery = st.recovery
           /\ u.notified = st.notified \/ (st.present = FALSE /\ ~ Bad(u.notified))
  <1>1. st.present \in BOOLEAN
    BY DEF State
  <1> QED
    BY <1>1 DEF Update, Bad

(* What a risk alert makes of the state.                                    *)
LEMMA RiskRow ==
    ASSUME NEW p \in Process, NEW st, Decision(p) = "risk"
    PROVE  LET u == Update(p, st) IN
           /\ u.present = TRUE /\ u.risk = now[p] /\ u.recovery = st.recovery
           /\ u.notified = seen[p].score
  BY DEF Update

(* What a recovery makes of it.                                             *)
LEMMA RecoveryRow ==
    ASSUME NEW p \in Process, NEW st, Decision(p) = "recovery"
    PROVE  LET u == Update(p, st) IN
           /\ u.present = TRUE /\ u.risk = st.risk /\ u.recovery = now[p]
           /\ u.notified = seen[p].score
  BY DEF Update

(* The parts of RowFollows and Worsening over a row and sets of records.    *)
Follows(st, R, V) ==
    /\ Bad(st.notified) => st.risk # None
    /\ R \cup V # {} => st.present /\ st.risk # None
    /\ \A r \in R :
          /\ r.at <= st.risk
          /\ r.key.current # None
          /\ r.key.anchor # None => \/ r.key.anchor < r.at
                                    \/ \E q \in V : q.at = r.key.anchor
    /\ \A r \in V :
          /\ r.key.anchor # None /\ st.recovery # None
          /\ r.key.anchor <= st.risk
          /\ Bad(st.notified) => r.key.anchor < st.risk
    /\ st.recovery # None => \E r \in V : r.at = st.recovery

(* No other recovery was found at the same time.                            *)
Apart(V, new) == \A q \in V : q.at = new.at => q = new

Worsens(st, R) ==
    \A r \in R : r.key.anchor = Either(st.recovery, st.risk) =>
        Bad(st.notified) /\ st.notified <= r.key.current

(* The order of alerts of one goal, before and after a step.                *)
LEMMA FollowParts ==
    ASSUME NEW g \in Goal
    PROVE  /\ RowFollows(g) <=> Follows(state[g], Recorded("risk", g), Recorded("recovery", g))
           /\ RowFollows(g)' <=> Follows(state'[g], Recorded("risk", g)', Recorded("recovery", g)')
           /\ Worsening(g) <=> Worsens(state[g], Recorded("risk", g))
           /\ Worsening(g)' <=> Worsens(state'[g], Recorded("risk", g)')
  BY DEF RowFollows, Follows, Worsening, Worsens

(* The three ways a row moves on.                                           *)
LEMMA UndecidedFollows ==
    ASSUME NEW st, NEW u, NEW R, NEW V, Follows(st, R, V),
           u.present = TRUE, u.risk = st.risk, u.recovery = st.recovery,
           u.notified = st.notified \/ (st.present = FALSE /\ ~ Bad(u.notified))
    PROVE  Follows(u, R, V) /\ (Worsens(st, R) => Worsens(u, R))
  <1>1. CASE u.notified = st.notified
    BY <1>1 DEF Follows, Worsens
  <1>2. CASE st.present = FALSE /\ ~ Bad(u.notified)
    BY <1>2 DEF Follows, Worsens
  <1> QED
    BY <1>1, <1>2

(* A risk alert recorded now comes after all that went before.              *)
LEMMA RiskFollows ==
    ASSUME NEW st \in State, NEW u, NEW n \in Nat, NEW s \in Score, NEW R, NEW V, NEW new,
           \A r \in R \cup V : r.at \in Nat /\ r.at <= n /\ r.key \in Key,
           Follows(st, R, V), ~ CoolingDown(st, n), Severity(s) > 0, Material(st.notified, s),
           u.present = TRUE, u.risk = n, u.recovery = st.recovery, u.notified = s,
           new.at = n, new.key.current = s, new.key.anchor = Either(st.recovery, st.risk)
    PROVE  Follows(u, R \cup {new}, V) /\ (Worsens(st, R) => Worsens(u, R \cup {new}))
  <1>1. /\ n # None /\ s # None /\ s \in Int /\ Bad(s)
        /\ Cooldown \in Nat /\ Cooldown > 0
        /\ st.risk # None => st.risk \in Nat
        /\ st.recovery # None => st.recovery \in Nat
        /\ st.notified # None => st.notified \in Score /\ st.notified \in Int
    BY Values, AlertsAssumption DEF State, Maybe, Bad
  <1>2. st.risk # None => st.risk < n
    BY <1>1 DEF CoolingDown
  <1>3. Follows(u, R \cup {new}, V)
    <2>1. \A r \in R : /\ r.at <= n /\ r.key.current # None
                       /\ r.key.anchor # None => \/ r.key.anchor < r.at
                                                 \/ \E q \in V : q.at = r.key.anchor
      BY DEF Follows
    <2>2. new.key.anchor # None => \/ new.key.anchor < new.at
                                   \/ \E q \in V : q.at = new.key.anchor
      BY <1>1, <1>2 DEF Follows, Either
    <2>3. \A r \in V : r.key.anchor # None /\ st.recovery # None /\ r.key.anchor < n
      <3> SUFFICES ASSUME NEW r \in V
                   PROVE  r.key.anchor # None /\ st.recovery # None /\ r.key.anchor < n
        OBVIOUS
      <3>1. r.key.anchor # None /\ st.recovery # None /\ st.risk # None /\ r.key.anchor <= st.risk
        BY DEF Follows
      <3>2. r.key.anchor \in Nat
        BY <3>1 DEF Key, Maybe
      <3> QED
        BY <1>1, <1>2, <3>1, <3>2
    <2>4. \A r \in V : r.key.anchor <= n
      <3> SUFFICES ASSUME NEW r \in V PROVE r.key.anchor <= n
        OBVIOUS
      <3>1. r.key.anchor \in Nat
        BY <2>3 DEF Key, Maybe
      <3> QED
        BY <2>3, <3>1
    <2>5. n <= n
      OBVIOUS
    <2>6. st.recovery # None => \E r \in V : r.at = st.recovery
      BY DEF Follows
    <2> QED
      BY <1>1, <2>1, <2>2, <2>3, <2>4, <2>5, <2>6 DEF Follows
  <1>4. ASSUME Worsens(st, R) PROVE Worsens(u, R \cup {new})
    <2> SUFFICES ASSUME NEW r \in R \cup {new}, r.key.anchor = Either(st.recovery, n)
                 PROVE  s <= r.key.current
      BY <1>1 DEF Worsens
    <2>1. CASE r = new
      BY <1>1, <2>1
    <2>2. CASE r \in R /\ st.recovery # None
      <3>1. Bad(st.notified) /\ st.notified <= r.key.current
        BY <1>4, <2>2 DEF Worsens, Either
      <3>2. s < st.notified /\ st.notified \in Int
        BY <1>1, <3>1, Worse DEF Bad
      <3>3. r.key.current \in Int
        <4>1. r.key.current # None
          BY <2>2 DEF Follows
        <4> QED
          BY <2>2, <4>1, Values DEF Key, Maybe
      <3> QED
        BY <1>1, <3>1, <3>2, <3>3
    <2>3. CASE r \in R /\ st.recovery = None
      <3>1. r.key.anchor = n /\ r.at \in Nat /\ r.at <= n
        BY <2>3 DEF Either
      <3>2. r.key.anchor < r.at \/ V # {}
        BY <1>1, <2>3, <3>1 DEF Follows
      <3>3. V = {}
        BY <2>3 DEF Follows
      <3> QED
        BY <3>1, <3>2, <3>3
    <2> QED
      BY <2>1, <2>2, <2>3
  <1> QED
    BY <1>3, <1>4

(* A recovery recorded now follows the risk it answers.                     *)
LEMMA RecoveryFollows ==
    ASSUME NEW st \in State, NEW u, NEW n \in Nat, NEW s \in Score, NEW R, NEW V, NEW new,
           \A r \in R \cup V : r.at \in Nat /\ r.at <= n /\ r.key \in Key,
           Follows(st, R, V), Severity(s) = 0, Bad(st.notified),
           u.present = TRUE, u.risk = st.risk, u.recovery = n, u.notified = s,
           new.at = n, new.key.anchor = Either(st.risk, st.recovery)
    PROVE  /\ Follows(u, R, V \cup {new})
           /\ Worsens(st, R) /\ Apart(V, new) => Worsens(u, R)
  <1>1. /\ n # None /\ s # None /\ ~ Bad(s)
        /\ st.risk # None /\ st.risk \in Nat /\ st.risk <= st.risk
    <2>1. n # None /\ s # None /\ ~ Bad(s)
      BY Values DEF Bad
    <2>2. st.risk # None
      BY DEF Follows
    <2>3. st.risk \in Nat
      BY <2>2, Values DEF State, Maybe
    <2> QED
      BY <2>1, <2>2, <2>3
  <1>2. new.key.anchor = st.risk
    BY <1>1 DEF Either
  <1>3. Follows(u, R, V \cup {new})
    <2>1. \A r \in R : /\ r.at <= st.risk /\ r.key.current # None
                       /\ r.key.anchor # None => \/ r.key.anchor < r.at
                                                 \/ \E q \in V \cup {new} : q.at = r.key.anchor
      BY DEF Follows
    <2>2. \A r \in V \cup {new} : r.key.anchor # None /\ r.key.anchor <= st.risk
      BY <1>1, <1>2 DEF Follows
    <2> QED
      BY <1>1, <2>1, <2>2 DEF Follows
  <1>4. ASSUME Apart(V, new),
               NEW r \in R, r.key.anchor = n
        PROVE  FALSE
    <2>1. r.at \in Nat /\ r.at <= n /\ (r.key.anchor < r.at \/ \E q \in V : q.at = n)
      BY <1>1, <1>4 DEF Follows
    <2>2. PICK q \in V : q.at = n
      BY <1>4, <2>1
    <2>3. q.key.anchor = st.risk
      BY <1>2, <1>4, <2>2 DEF Apart
    <2>4. q.key.anchor < st.risk
      BY DEF Follows
    <2> QED
      BY <1>1, <2>3, <2>4
  <1> QED
    BY <1>1, <1>3, <1>4 DEF Worsens, Either

(* Recording keeps the order of alerts of every goal.                       *)
LEMMA FollowRecorded ==
    ASSUME Typed, Serial, Follow, NEW p \in Process, Record(p)
    PROVE  Follow' /\ (RecoveriesApart' /\ Worsen => \A g \in Goal : Worsening(g)')
  <1>0. PICK g \in Goal : g = seen[p].goal
    BY RecordedRow
  <1> DEFINE st == state[g]
             u == Update(p, st)
             R == Recorded("risk", g)
             V == Recorded("recovery", g)
             new == [key |-> KeyOf(p), at |-> now[p]]
  <1>1. /\ now[p] \in Nat /\ seen[p].score \in Score
        /\ seen[p].state = st /\ st \in State
        /\ Decision(p) \in {"none", "risk", "recovery"}
        /\ KeyOf(p) = OccurrenceKey(Decision(p), g, st, seen[p].score)
        /\ recorded' = IF Decision(p) = "none" THEN recorded ELSE recorded \cup {new}
    BY <1>0, RecordedRow
  <1>2. \A h \in Goal : h # g =>
            /\ state'[h] = state[h]
            /\ \A type : Recorded(type, h)' = Recorded(type, h)
    BY <1>0, RecordedRow
  <1>3. state'[g] = u
    BY <1>0, RecordedRow, TypesApart DEF QueueTyped
  <1>4. \A r \in R \cup V : r.at \in Nat /\ r.at <= now[p] /\ r.key \in Key
    BY RecordedRow, Numbers DEF Recorded
  <1>5. Follows(st, R, V) /\ (RecoveriesApart /\ Worsen => Worsens(st, R))
    BY <1>1, FollowParts DEF Follow, Worsen
  <1>6. RecoveriesApart' => RecoveriesApart
    BY <1>1 DEF RecoveriesApart, Recorded
  <1>7. /\ new.at = now[p] /\ new.key = KeyOf(p) /\ new.key.type = Decision(p)
        /\ new.key.goal = g /\ new.key.current = seen[p].score
        /\ Decision(p) = "risk" => new.key.anchor = Either(st.recovery, st.risk)
        /\ Decision(p) = "recovery" => new.key.anchor = Either(st.risk, st.recovery)
    BY <1>1 DEF OccurrenceKey
  <1>8. /\ pc[p] = "record"
        /\ Decision(p) = "risk" =>
              Severity(seen[p].score) > 0 /\ ~ CoolingDown(st, now[p]) /\ Material(st.notified, seen[p].score)
        /\ Decision(p) = "recovery" => Severity(seen[p].score) = 0 /\ Bad(st.notified)
    BY <1>1, Keys, Decisions DEF Record
  <1>9. /\ Follows(u, Recorded("risk", g)', Recorded("recovery", g)')
        /\ RecoveriesApart' /\ Worsen => Worsens(u, Recorded("risk", g)')
    <2>1. CASE Decision(p) = "none"
      <3>1. Recorded("risk", g)' = R /\ Recorded("recovery", g)' = V
        BY <1>1, <2>1 DEF Recorded
      <3>2. Follows(u, R, V) /\ (Worsens(st, R) => Worsens(u, R))
        BY <1>1, <1>5, <2>1, UndecidedRow, UndecidedFollows
      <3> QED
        BY <1>5, <1>6, <3>1, <3>2
    <2>2. CASE Decision(p) = "risk"
      <3>1. Recorded("risk", g)' = R \cup {new} /\ Recorded("recovery", g)' = V
        BY <1>1, <1>7, <2>2 DEF Recorded
      <3>2. /\ u.present = TRUE /\ u.risk = now[p] /\ u.recovery = st.recovery
            /\ u.notified = seen[p].score
        BY <2>2, RiskRow
      <3>3. Follows(u, R \cup {new}, V) /\ (Worsens(st, R) => Worsens(u, R \cup {new}))
        <4> HIDE DEF st, u, R, V, new
        <4> QED
          BY <1>1, <1>4, <1>5, <1>7, <1>8, <2>2, <3>2, RiskFollows
      <3> QED
        BY <1>5, <1>6, <3>1, <3>3
    <2>3. CASE Decision(p) = "recovery"
      <3>1. Recorded("risk", g)' = R /\ Recorded("recovery", g)' = V \cup {new}
        BY <1>1, <1>7, <2>3 DEF Recorded
      <3>2. /\ u.present = TRUE /\ u.risk = st.risk /\ u.recovery = now[p]
            /\ u.notified = seen[p].score
        BY <2>3, RecoveryRow
      <3>3. /\ Follows(u, R, V \cup {new})
            /\ Worsens(st, R) /\ Apart(V, new) => Worsens(u, R)
        <4>1. /\ new.at = now[p] /\ new.key.anchor = Either(st.risk, st.recovery)
              /\ Severity(seen[p].score) = 0 /\ Bad(st.notified)
          BY <1>7, <1>8, <2>3
        <4> HIDE DEF st, u, R, V, new
        <4> QED
          BY <1>1, <1>4, <1>5, <3>2, <4>1, RecoveryFollows
      <3>4. RecoveriesApart' => Apart(V, new)
        BY <1>1, <1>7, <3>1 DEF RecoveriesApart, Apart
      <3> QED
        BY <1>5, <1>6, <3>1, <3>3, <3>4
    <2> QED
      BY <1>1, <2>1, <2>2, <2>3
  <1>10. ASSUME NEW h \in Goal
         PROVE  RowFollows(h)' /\ (RecoveriesApart' /\ Worsen => Worsening(h)')
    <2>1. CASE h = g
      BY <1>3, <1>9, <2>1, FollowParts
    <2>2. CASE h # g
      <3>1. /\ Follows(state'[h], Recorded("risk", h)', Recorded("recovery", h)')
            /\ RecoveriesApart /\ Worsen => Worsens(state'[h], Recorded("risk", h)')
        BY <1>2, <2>2, FollowParts DEF Follow, Worsen
      <3> QED
        BY <1>6, <3>1, FollowParts
    <2> QED
      BY <2>1, <2>2
  <1> QED
    BY <1>10 DEF Follow

(* So does every step.                                                      *)
LEMMA FollowKept ==
    ASSUME Typed, Serial, Follow, Worsen, [Next]_vars
    PROVE  Follow' /\ Worsen'
  <1>1. CASE \E p \in Process : Record(p)
    BY <1>1, FollowRecorded DEF Worsen
  <1>2. CASE ~ \E p \in Process : Record(p)
    <2>1. UNCHANGED <<state, recorded>>
      BY <1>2 DEF Next, Evaluate, Start, ReadPreference, ReadStability, ReadState, PublishWeekly,
         PublishRisk, Fail, UpdatePreferences, ChangeGoal, ChangeScore, Change, Tick, vars, history
    <2> QED
      BY <2>1, RowsUntouched
  <1> QED
    BY <1>1, <1>2

(* A risk alert within the cooldown is not decided, and what is recorded is *)
(* as late as all that is queued.                                           *)
Cooled == \A g \in Goal : \A j \in Alerts("risk", g) : \A r \in Recorded("risk", g) :
              r.at < j.at => j.at - r.at >= Cooldown

(* The cooldown, over the alerts recorded.                                  *)
LEMMA CooledParts ==
    (CooldownKept <=> (overlaps = 0 => Cooled)) /\ (CooldownKept' <=> (overlaps' = 0 => Cooled'))
  BY DEF CooldownKept, Cooled, Recorded

(* What a step queues or records keeps the cooldown from the risk alerts    *)
(* recorded before.                                                         *)
LEMMA CooledStep ==
    ASSUME Typed, Serial, Follow, Cooled, [Next]_vars
    PROVE  Cooled'
  <1>1. CASE \E p \in Process : Record(p)
    <2>1. PICK p \in Process : Record(p)
      BY <1>1
    <2>2. job' = job /\ pc[p] = "record" /\ now[p] \in Nat
          /\ \A r \in recorded' \ recorded : r.at = now[p]
      BY <2>1, Numbers DEF Record
    <2>3. \A j \in job : j.at \in Nat /\ j.at <= now[p]
      BY <2>2, SerialParts, Numbers DEF Past
    <2>4. ASSUME NEW g \in Goal, NEW j \in Alerts("risk", g)', NEW r \in Recorded("risk", g)',
                 r.at < j.at
          PROVE  j.at - r.at >= Cooldown
      <3>1. j \in Alerts("risk", g) /\ j \in job
        BY <2>2, <2>4 DEF Alerts
      <3>2. CASE r \in recorded
        BY <2>4, <3>1, <3>2 DEF Cooled, Recorded
      <3>3. CASE r \notin recorded
        <4>1. r.at = now[p]
          BY <2>2, <2>4, <3>3 DEF Recorded
        <4> QED
          BY <2>2, <2>3, <2>4, <3>1, <4>1
      <3> QED
        BY <3>2, <3>3
    <2> QED
      BY <2>4 DEF Cooled
  <1>2. CASE ~ \E p \in Process : Record(p)
    <2>1. recorded' = recorded
      BY <1>2 DEF Next, Evaluate, Start, ReadPreference, ReadStability, ReadState, PublishWeekly,
         PublishRisk, Fail, UpdatePreferences, ChangeGoal, ChangeScore, Change, Tick, vars, history
    <2>2. ASSUME NEW j \in job' \ job, j.key.type = "risk"
          PROVE  \E p \in Process : PublishRisk(p) /\ Decision(p) = "risk" /\ j.at = now[p]
                                    /\ j.key.goal = seen[p].goal
      <3>1. PICK p \in Process : PublishWeekly(p) \/ PublishRisk(p)
        BY <2>2 DEF Next, Evaluate, Start, ReadPreference, ReadStability, ReadState,
           Record, Fail, UpdatePreferences, ChangeGoal, ChangeScore, Change, Tick, vars
      <3>2. ~ PublishWeekly(p)
        BY <2>2 DEF PublishWeekly, Publish, WeeklyKey
      <3>3. PublishRisk(p) /\ j = [key |-> KeyOf(p), at |-> now[p]]
        BY <2>2, <3>1, <3>2 DEF PublishRisk, Publish
      <3>4. KeyOf(p).type = Decision(p) /\ KeyOf(p).goal = seen[p].goal
        BY DEF KeyOf, OccurrenceKey
      <3> QED
        BY <2>2, <3>3, <3>4
    <2>3. ASSUME NEW g \in Goal, NEW j \in Alerts("risk", g)', NEW r \in Recorded("risk", g)',
                 r.at < j.at
          PROVE  j.at - r.at >= Cooldown
      <3>1. r \in Recorded("risk", g) /\ j \in job' /\ j.key.type = "risk" /\ j.key.goal = g
        BY <2>1, <2>3 DEF Recorded, Alerts
      <3>2. CASE j \in job
        BY <2>3, <3>1, <3>2 DEF Cooled, Alerts
      <3>3. CASE j \notin job
        <4>1. PICK p \in Process : PublishRisk(p) /\ Decision(p) = "risk" /\ j.at = now[p]
                                   /\ seen[p].goal = g
          BY <2>2, <3>1, <3>3
        <4>2. pc[p] = "risk" /\ seen[p].state = state[g]
          BY <4>1, SerialParts DEF PublishRisk, RowCurrent, Reading
        <4>3. ~ CoolingDown(state[g], now[p])
          BY <4>1, <4>2, Keys, Decisions
        <4>4. r.at <= state[g].risk /\ state[g].risk # None
          BY <3>1 DEF Follow, RowFollows
        <4>5. now[p] - state[g].risk >= Cooldown
          <5>1. state[g].risk \in Nat /\ now[p] \in Nat /\ Cooldown \in Nat
            BY <4>4, Numbers, Values, AlertsAssumption DEF State, Maybe
          <5> QED
            BY <4>3, <4>4, <5>1 DEF CoolingDown
        <4>6. state[g].risk \in Nat /\ now[p] \in Nat /\ r.at \in Nat /\ Cooldown \in Nat
          BY <3>1, <4>4, Numbers, Values, AlertsAssumption DEF State, Maybe, Recorded
        <4> QED
          BY <4>1, <4>4, <4>5, <4>6
      <3> QED
        BY <3>2, <3>3
    <2> QED
      BY <2>3 DEF Cooled
  <1> QED
    BY <1>1, <1>2

-----------------------------------------------------------------------------
(* The invariant, taken apart.                                              *)
LEMMA InvariantParts ==
    /\ IInv <=> /\ Typed /\ Backed /\ CooldownKept
                /\ overlaps = 0 => Serial /\ Follow /\ Worsen
    /\ IInv' <=> /\ Typed' /\ Backed' /\ CooldownKept'
                 /\ overlaps' = 0 => Serial' /\ Follow' /\ Worsen'
  BY DEF IInv, Typed, Backed, AlertsConsistent, Follow, Worsen

(* Nothing queued, recorded or under way.                                   *)
LEMMA InitInvariant == Init => IInv
  <1> SUFFICES ASSUME Init PROVE IInv
    OBVIOUS
  <1>1. Typed
    BY InitTyped
  <1>2. /\ job = {} /\ recorded = {} /\ clock = 0 /\ \A g \in Goal : state[g] = NoState
        /\ \A p \in Process : pc[p] = "idle" /\ now[p] = 0 /\ seen[p].summary = None
    BY Values DEF Init
  <1>3. Backed
    BY <1>2, Values DEF Backed, StateBackedByJobs, RecoveryFollowsRisk, RunBacked, Alerts, Bad
  <1>4. CooldownKept
    BY <1>2 DEF CooldownKept, Alerts
  <1>5. Serial
    <2>1. 0 <= 0
      OBVIOUS
    <2> QED
      BY <1>2, <2>1, SerialParts DEF Alone, RowCurrent, Reading
  <1>6. Follow /\ Worsen
    BY <1>2, Values DEF Follow, Worsen, RowFollows, Worsening, Recorded, Bad
  <1> QED
    BY <1>1, <1>3, <1>4, <1>5, <1>6, InvariantParts

(* The invariant of evaluateUser and its scheduler, for every number of     *)
(* instances, goals, changes, deaths and overlaps of runs.                  *)
THEOREM Invariance == Spec => []IInv
  <1>1. ASSUME IInv, [Next]_vars PROVE IInv'
    <2>1. Typed /\ Backed /\ CooldownKept /\ (overlaps = 0 => Serial /\ Follow /\ Worsen)
      BY <1>1, InvariantParts
    <2>2. Typed' /\ Backed'
      BY <1>1, <2>1, TypesKept, BackedKept
    <2>3. ASSUME overlaps' = 0 PROVE Serial' /\ Follow' /\ Worsen' /\ Cooled'
      <3>1. overlaps = 0
        BY <1>1, <2>1, <2>3, HistoryGrows
      <3>2. Serial /\ Follow /\ Worsen /\ Cooled
        BY <2>1, <3>1, CooledParts
      <3> QED
        BY <1>1, <2>1, <2>3, <3>1, <3>2, SerialKept, FollowKept, CooledStep
    <2> QED
      BY <2>2, <2>3, CooledParts, InvariantParts
  <1> QED
    BY <1>1, InitInvariant, PTL DEF Spec

(* What the state of a goal says the customer was told is in the queue, and *)
(* nobody is told of a recovery from something they were not told of:       *)
(* evaluateUser publishes before it records, and riskDecision compares with *)
(* the notified baseline.  Runs may overlap and die anywhere.               *)
THEOREM AlertsStayConsistent == Spec => []AlertsConsistent
  <1>1. IInv => AlertsConsistent
    BY DEF IInv
  <1> QED
    BY <1>1, Invariance, PTL

(* Without overlapping runs no risk alert is queued within the cooldown     *)
(* after one that was recorded (riskDecision reads lastRiskAlertAt, which   *)
(* nothing but a later risk alert changes), however often runs die.         *)
THEOREM CooldownStaysKept == Spec => []CooldownKept
  <1>1. IInv => CooldownKept
    BY DEF IInv
  <1> QED
    BY <1>1, Invariance, PTL

(* Without overlapping runs, and with recoveries found at times of their    *)
(* own, the queue takes an alert for a duplicate only if the record of the  *)
(* earlier one was lost: the key alertOccurrenceKey gives to an alert that  *)
(* was recorded is not given again, because a recovery is anchored in a     *)
(* risk alert before the last one and risk alerts with the same anchor only *)
(* get worse.                                                               *)
THEOREM DuplicatesStayRetries == Spec => []DuplicatesAreRetries
  <1>1. IInv => DuplicatesAreRetries
    <2> SUFFICES ASSUME IInv, overlaps = 0, RecoveriesApart,
                        NEW p \in Process, pc[p] = "risk", Decision(p) # "none",
                        NEW r \in recorded, r.key = KeyOf(p)
                 PROVE  FALSE
      BY DEF DuplicatesAreRetries
    <2>1. PICK g : g = seen[p].goal
      OBVIOUS
    <2>2. PICK st : st = state[g]
      OBVIOUS
    <2>3. /\ Typed /\ g \in Goal /\ seen[p].state = st /\ st \in State /\ seen[p].score \in Score
          /\ RowFollows(g) /\ Worsening(g)
          /\ Decision(p) \in {"none", "risk", "recovery"}
      <3>1. Typed /\ Serial /\ Follow /\ Worsen
        BY InvariantParts
      <3>2. g \in Goal /\ seen[p].score \in Score /\ Decision(p) \in {"none", "risk", "recovery"}
        BY <2>1, <3>1, Keys
      <3>3. seen[p].state = st
        BY <2>1, <2>2, <3>1, SerialParts DEF RowCurrent, Reading
      <3> QED
        BY <2>2, <3>1, <3>2, <3>3, Numbers DEF Follow, Worsen
    <2>4. /\ r.key.type = Decision(p) /\ r.key.goal = g /\ r.key.current = seen[p].score
          /\ Decision(p) = "risk" => r.key.anchor = Either(st.recovery, st.risk)
          /\ Decision(p) = "recovery" => r.key.anchor = Either(st.risk, st.recovery)
      BY <2>1, <2>3 DEF KeyOf, OccurrenceKey
    <2>5. /\ Decision(p) = "risk" => Material(st.notified, seen[p].score)
          /\ Decision(p) = "recovery" => Bad(st.notified)
      BY <2>3, Keys, Decisions
    <2>6. CASE Decision(p) = "risk"
      <3>1. Bad(st.notified) /\ st.notified <= seen[p].score
        BY <2>2, <2>3, <2>4, <2>6 DEF Worsening, Recorded
      <3>2. st.notified \in Score
        BY <2>3, <3>1 DEF Bad, State, Maybe
      <3>3. seen[p].score < st.notified
        BY <2>3, <2>5, <2>6, <3>2, Worse
      <3>4. st.notified \in Int /\ seen[p].score \in Int
        BY <2>3, <3>2, Values
      <3> QED
        BY <3>1, <3>3, <3>4
    <2>7. CASE Decision(p) = "recovery"
      <3>1. st.risk # None /\ r.key.anchor = st.risk
        BY <2>2, <2>3, <2>4, <2>5, <2>7 DEF RowFollows, Either
      <3>2. r.key.anchor < st.risk
        BY <2>2, <2>3, <2>4, <2>5, <2>7 DEF RowFollows, Recorded
      <3>3. st.risk \in Nat
        BY <2>3, <3>1, Values DEF State, Maybe
      <3> QED
        BY <3>1, <3>2, <3>3
    <2> QED
      BY <2>3, <2>6, <2>7
  <1> QED
    BY <1>1, Invariance, PTL
=============================================================================
