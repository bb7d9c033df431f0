---------------------- MODULE NotificationQueueProofs ----------------------
(***************************************************************************)
(* Proofs about module NotificationQueue: the inductive invariant, and     *)
(* that whatever consumers, expiring leases, deletions and crashes do to   *)
(* each other, an undisturbed job goes out once and the rows and the log   *)
(* of all jobs are in order, and an instance that is up can send, for any  *)
(* number of consumers and jobs.                                           *)
(***************************************************************************)
EXTENDS NotificationQueue, FiniteSetTheorems, TLAPS

(* Jobs are numbers, and no job is none of them.                            *)
LEMMA JobsNamed == NoJob \notin Job /\ Job \subseteq Nat
  <1>1. NoJob \notin Job
    BY QueueAssumption
  <1>2. Job \subseteq Nat
    BY QueueAssumption DEF Job
  <1> QED
    BY <1>1, <1>2

(* An absent row, a legacy row and an empty copy are rows and copies.       *)
LEMMA NothingTyped == NoRow \in Row /\ NoCopy \in Copy /\ LegacyRow \in Row
  <1>1. NoRow \in Row /\ NoCopy \in Copy
    BY QueueAssumption DEF NoRow, NoCopy, Row, Copy, Statuses, Payloads
  <1>2. [NoRow EXCEPT !.status = "sent"] \in Row
    BY <1>1 DEF Row, Statuses
  <1>3. LegacyRow = [[NoRow EXCEPT !.status = "sent"] EXCEPT !.payload = "plain"]
    BY DEF LegacyRow
  <1> QED
    BY <1>1, <1>2, <1>3 DEF Row, Payloads

(* backoffMs stays within its bound.                                        *)
LEMMA BackoffTyped == ASSUME NEW n PROVE Backoff(n) \in 0..MaxBackoff
  BY QueueAssumption DEF Backoff

(* A set whose members are all the same has at most one.                    *)
LEMMA AtMostOne ==
    ASSUME NEW S, \A v, w \in S : v = w
    PROVE  Cardinality(S) <= 1
  <1>1. CASE S = {}
    BY <1>1, FS_EmptySet
  <1>2. ASSUME NEW v \in S PROVE Cardinality(S) <= 1
    <2>1. S = {v}
      BY <1>2
    <2> QED
      BY <2>1, FS_Singleton
  <1> QED
    BY <1>1, <1>2

(* The queue starts empty or with rows of an earlier version.               *)
LEMMA InitInvariant == Init => IInv
  <1> SUFFICES ASSUME Init PROVE IInv
    OBVIOUS
  <1>1. \A j \in Job : row[j] = NoRow \/ row[j] = LegacyRow
    BY DEF Init
  <1>2. \A j \in Job : delivered[j] = (IF row[j] = LegacyRow THEN 1 ELSE 0) /\ failures[j] = 0
    BY DEF Init
  <1>3. NoRow.status = "absent" /\ LegacyRow.status = "sent" /\ NoRow.attempts = 0
        /\ LegacyRow.attempts = 0
    BY DEF NoRow, LegacyRow
  <1>4. TypeOK
    <2>1. row \in [Job -> Row]
      BY <1>1, NothingTyped DEF Init
    <2>2. delivered \in [Job -> 0..Many]
      BY DEF Init, Many
    <2> QED
      BY <2>1, <2>2, NothingTyped, QueueAssumption DEF Init, TypeOK
  <1>5. TerminalRedacted
    BY DEF Init, TerminalRedacted
  <1>6. \A w \in Worker : Knows(w)
    BY JobsNamed DEF Init, Knows
  <1>7. ASSUME NEW j \in Job PROVE Recorded(j) /\ Undisturbed(j)
    <2>1. WorkingOn(j) = {}
      BY DEF Init, WorkingOn
    <2> QED
      BY <1>1, <1>2, <1>3, <2>1, QueueAssumption DEF Recorded, Undisturbed
  <1> QED
    BY <1>4, <1>5, <1>6, <1>7 DEF IInv

-----------------------------------------------------------------------------
(* Steps of one consumer on one job.                                        *)

Same(v) == pc'[v] = pc[v] /\ job'[v] = job[v] /\ copy'[v] = copy[v]

(* Only consumer w acts, and only on job j.                                 *)
Concerns(w, j) ==
    /\ \A v \in Worker \ {w} : Same(v)
    /\ \A k \in Job \ {j} : row'[k] = row[k] /\ failures'[k] = failures[k]
                                            /\ delivered'[k] = delivered[k]
    /\ troubled \subseteq troubled'
    /\ job[w] \in {j, NoJob}
    /\ job'[w] \in {j, NoJob}

(* Nothing other consumers know of the job is taken back.                   *)
Kept(j) ==
    /\ row'[j].status = "absent" => row[j].status = "absent"
    /\ delivered[j] <= delivered'[j]
    /\ Exists(j)' => Exists(j) /\ failures[j] <= failures'[j]

JobInv(j) == Recorded(j) /\ (j \notin troubled => Undisturbed(j))

(* Jobs and consumers that a step leaves alone.                             *)
LEMMA JobAlone ==
    ASSUME NEW k \in Job, JobInv(k), row'[k].status = row[k].status,
           row'[k].attempts = row[k].attempts, row'[k].lease = row[k].lease,
           failures'[k] = failures[k],
           delivered'[k] = delivered[k], troubled \subseteq troubled',
           WorkingOn(k)' = WorkingOn(k), \A v \in WorkingOn(k) : Same(v)
    PROVE  JobInv(k)'
  <1>1. Recorded(k)'
    BY DEF JobInv, Recorded
  <1>2. ASSUME k \notin troubled' PROVE Undisturbed(k)'
    <2>1. Undisturbed(k)
      BY <1>2 DEF JobInv
    <2>2. ASSUME NEW v \in WorkingOn(k)' PROVE InHand(k, v)'
      <3>1. v \in WorkingOn(k) /\ Same(v)
        BY <2>2
      <3> QED
        BY <2>1, <3>1 DEF Undisturbed, InHand, Same, Exists
    <2> QED
      BY <2>1, <2>2 DEF Undisturbed
  <1> QED
    BY <1>1, <1>2 DEF JobInv

(* A step about one job leaves what is said of the others.                  *)
LEMMA JobsApart ==
    ASSUME IInv, NEW w \in Worker, NEW j \in Job, Concerns(w, j), NEW k \in Job \ {j}
    PROVE  JobInv(k)'
  <1>1. JobInv(k) /\ k # NoJob /\ k \in Job
    BY JobsNamed DEF IInv, JobInv
  <1>2. WorkingOn(k)' = WorkingOn(k) /\ w \notin WorkingOn(k)
    BY <1>1 DEF WorkingOn, Concerns, Same
  <1> QED
    BY <1>1, <1>2, JobAlone DEF Concerns, WorkingOn

(* The other consumers still know what they know of their jobs.             *)
LEMMA OthersKnow ==
    ASSUME IInv, NEW w \in Worker, NEW j \in Job, Concerns(w, j), Kept(j), TypeOK',
           NEW v \in Worker \ {w}
    PROVE  Knows(v)'
  <1>1. Knows(v) /\ Same(v)
    BY DEF IInv, Concerns
  <1>2. ASSUME NEW k \in Job, job'[v] = k
        PROVE  /\ row'[k].status # "absent"
               /\ pc'[v] = "sent" => delivered'[k] > 0
               /\ Exists(k)' => copy'[v].attempts <= failures'[k]
    <2>1. /\ row[k].status # "absent"
          /\ pc[v] = "sent" => delivered[k] > 0
          /\ Exists(k) => copy[v].attempts <= failures[k]
      BY <1>1, <1>2 DEF Knows, Same
    <2>2. CASE k = j
      <3>1. /\ delivered[k] <= delivered'[k] /\ delivered[k] \in Int /\ delivered'[k] \in Int
            /\ failures[k] \in Int /\ failures'[k] \in Int /\ copy[v] \in Copy
        BY <2>2 DEF IInv, TypeOK, Kept, Many
      <3>2. PICK n \in Nat : n = copy[v].attempts
        BY <3>1 DEF Copy
      <3> QED
        BY <1>1, <2>1, <2>2, <3>1, <3>2 DEF Kept, Same
    <2>3. CASE k # j
      BY <1>1, <2>1, <2>3 DEF Concerns, Same, Exists
    <2> QED
      BY <2>2, <2>3
  <1> QED
    BY <1>1, <1>2 DEF Knows, Same

(* What is left to show of a step of one consumer.                          *)
LEMMA WorkerStep ==
    ASSUME IInv, NEW w \in Worker, NEW j \in Job, Concerns(w, j), Kept(j), pc[w] # "down",
           TypeOK', Terminal(j)' => row'[j].payload = "redacted",
           Recorded(j)', j \notin troubled' => Undisturbed(j)', Knows(w)'
    PROVE  IInv'
  <1>1. \A k \in Job : JobInv(k)'
    BY JobsApart DEF JobInv
  <1>2. \A v \in Worker : Knows(v)'
    BY OthersKnow
  <1>3. TerminalRedacted'
    <2>1. \A k \in Job : Terminal(k) => row[k].payload = "redacted"
      BY DEF IInv, TerminalRedacted
    <2>2. \A k \in Job : Terminal(k)' => row'[k].payload = "redacted"
      BY <2>1 DEF Concerns, Terminal
    <2> QED
      BY <2>2 DEF TerminalRedacted
  <1> QED
    BY <1>1, <1>2, <1>3 DEF IInv, JobInv

-----------------------------------------------------------------------------
(* The statements of a consumer.                                            *)

(* A consumer beyond its poll has a job, of which it knows what it read.    *)
LEMMA Working ==
    ASSUME IInv, NEW w \in Worker, pc[w] \notin {"down", "idle"}
    PROVE  /\ TypeOK /\ Knows(w)
           /\ job[w] \in Job /\ row[job[w]] \in Row /\ JobInv(job[w])
           /\ row[job[w]].status # "absent"
           /\ pc[w] # "picked" => w \in WorkingOn(job[w])
  <1>1. TypeOK /\ Knows(w) /\ job[w] \in Job
    BY DEF IInv, Knows, TypeOK
  <1> QED
    BY <1>1 DEF IInv, Knows, TypeOK, WorkingOn, JobInv

(* The counters of a job's row are numbers.                                 *)
LEMMA NatsOf ==
    ASSUME TypeOK, NEW j \in Job
    PROVE  /\ row[j].attempts \in Nat /\ row[j].lease \in Nat /\ row[j].wait \in Nat
           /\ failures[j] \in Nat /\ delivered[j] \in 0..Many
  BY QueueAssumption DEF TypeOK, Row

(* The job of an undisturbed consumer is in nobody else's hands.            *)
LEMMA Alone ==
    ASSUME NEW j \in Job, Undisturbed(j), NEW w \in WorkingOn(j)
    PROVE  WorkingOn(j) = {w} /\ InHand(j, w)
  BY DEF Undisturbed

(* claimReadyJob, first statement: a job that looked ready.                 *)
LEMMA PollStep ==
    ASSUME IInv, NEW w \in Worker, Poll(w)
    PROVE  IInv'
  <1>1. /\ TypeOK /\ Knows(w) /\ pc[w] = "idle" /\ pc' = [pc EXCEPT ![w] = "picked"]
        /\ UNCHANGED <<row, failures, copy, history>>
    BY DEF Poll, IInv
  <1>2. PICK j \in Job : Ready(j) /\ job' = [job EXCEPT ![w] = j]
    BY DEF Poll
  <1>3. job[w] = NoJob /\ copy[w] = NoCopy /\ j # NoJob
    BY <1>1, JobsNamed DEF Knows
  <1>4. TypeOK'
    BY <1>1, <1>2 DEF TypeOK, history
  <1>5. Concerns(w, j)
    BY <1>1, <1>2, <1>3 DEF Concerns, Same, history, TypeOK
  <1>6. Kept(j)
    BY <1>1, NatsOf DEF Kept, Exists, history, Many
  <1>7. WorkingOn(j)' = WorkingOn(j) /\ w \notin WorkingOn(j)
    BY <1>1, <1>2, <1>3 DEF WorkingOn, TypeOK
  <1>8. JobInv(j)'
    <2>1. JobInv(j) /\ \A v \in WorkingOn(j) : v \in Worker /\ v # w
      BY <1>7 DEF IInv, JobInv, WorkingOn
    <2> QED
      BY <1>1, <1>5, <1>7, <2>1, JobAlone DEF Concerns, history
  <1>9. Knows(w)'
    <2>1. row[j].status # "absent"
      BY <1>2 DEF Ready
    <2>2. copy[w].attempts = 0 /\ failures[j] \in Nat
      BY <1>1, <1>3, NatsOf DEF NoCopy
    <2> QED
      BY <1>1, <1>2, <1>3, <2>1, <2>2 DEF Knows, TypeOK, history
  <1>10. Terminal(j)' => row'[j].payload = "redacted"
    BY <1>1 DEF IInv, TerminalRedacted, Terminal, history
  <1> QED
    BY <1>1, <1>4, <1>5, <1>6, <1>8, <1>9, <1>10, WorkerStep DEF JobInv

(* A ready job that is undisturbed is in nobody's hands.                    *)
LEMMA ReadyFree ==
    ASSUME TypeOK, NEW j \in Job, Undisturbed(j), Ready(j)
    PROVE  WorkingOn(j) = {} /\ delivered[j] = 0
  <1>1. WorkingOn(j) = {}
    BY NatsOf DEF Undisturbed, Ready, InHand
  <1> QED
    BY <1>1, NatsOf DEF Undisturbed, Ready, Many

(* claimReadyJob, second statement: the conditional update takes it.        *)
LEMMA ClaimStep ==
    ASSUME IInv, NEW w \in Worker, Claim(w)
    PROVE  IInv'
  <1> PICK j \in Job : j = job[w]
    BY Working DEF Claim
  <1>1. /\ pc[w] = "picked" /\ Ready(j) /\ UNCHANGED <<failures, history>>
        /\ row' = [row EXCEPT ![j].status = "processing", ![j].lease = LeaseTicks]
        /\ pc' = [pc EXCEPT ![w] = "load"] /\ job' = job /\ copy' = copy
    BY DEF Claim, Goto
  <1>2. /\ TypeOK /\ Knows(w) /\ j \in Job /\ row[j] \in Row /\ JobInv(j)
        /\ row[j].status # "absent" /\ j # NoJob
    BY <1>1, Working, JobsNamed
  <1>3. job[w] = j
    OBVIOUS
  <1>4. /\ row'[j] \in Row /\ row'[j].status = "processing" /\ row'[j].lease = LeaseTicks
        /\ row'[j].attempts = row[j].attempts
        /\ row' = [k \in Job |-> IF k = j THEN row'[j] ELSE row[k]]
    <2> DEFINE r == [row[j] EXCEPT !.status = "processing"]
    <2>1. r \in Row /\ r.status = "processing" /\ r.attempts = row[j].attempts
      BY <1>2 DEF Row, Statuses
    <2>2. row'[j] = [r EXCEPT !.lease = LeaseTicks]
          /\ row' = [k \in Job |-> IF k = j THEN row'[j] ELSE row[k]]
      BY <1>1, <1>2 DEF TypeOK
    <2> HIDE DEF r
    <2> QED
      BY <2>1, <2>2, QueueAssumption DEF Row
  <1>5. TypeOK'
    BY <1>1, <1>2, <1>4 DEF TypeOK, history
  <1>6. Concerns(w, j)
    BY <1>1, <1>2, <1>3, <1>4 DEF Concerns, Same, history, TypeOK
  <1>7. Kept(j)
    BY <1>1, <1>2, <1>4, NatsOf DEF Kept, Exists, history, Many, Ready
  <1>8. Recorded(j)'
    BY <1>1, <1>2, <1>4 DEF JobInv, Recorded, Ready
  <1>9. ASSUME j \notin troubled' PROVE Undisturbed(j)'
    <2>1. Undisturbed(j) /\ WorkingOn(j) = {} /\ delivered[j] = 0
      BY <1>1, <1>2, <1>9, ReadyFree DEF JobInv, history
    <2>2. WorkingOn(j)' = {w}
      BY <1>1, <1>2, <1>3, <2>1 DEF WorkingOn, TypeOK
    <2>3. InHand(j, w)'
      BY <1>1, <1>2, <1>4, <2>1 DEF InHand, TypeOK, history
    <2> QED
      BY <1>1, <1>2, <1>4, <2>1, <2>2, <2>3, QueueAssumption DEF Undisturbed, history
  <1>10. Knows(w)'
    BY <1>1, <1>2, <1>3, <1>4 DEF Knows, Exists, TypeOK, history, Ready
  <1> QED
    BY <1>1, <1>2, <1>4, <1>5, <1>6, <1>7, <1>8, <1>9, <1>10, WorkerStep DEF Terminal

(* A step that leaves every row and record alone.                           *)
RecordsAlone == UNCHANGED <<row, failures, delivered, env>>

(* A step that changes no row of the queue.                                 *)
LEMMA QuietStep ==
    ASSUME IInv, NEW w \in Worker, NEW j \in Job, Concerns(w, j), RecordsAlone, pc[w] # "down",
           faults' \in 0..MaxFaults, troubled' \in SUBSET Job,
           pc' \in [Worker -> {"down", "idle", "picked", "load", "check", "send", "sent", "failed"}],
           job' \in [Worker -> Job \cup {NoJob}], copy' \in [Worker -> Copy],
           j \notin troubled' => Undisturbed(j)', Knows(w)'
    PROVE  IInv'
  <1>1. TypeOK /\ TypeOK'
    BY DEF IInv, TypeOK, RecordsAlone
  <1>2. Kept(j)
    BY <1>1, NatsOf DEF Kept, RecordsAlone, Exists, Many
  <1>3. Recorded(j)'
    BY DEF IInv, Recorded, RecordsAlone
  <1>4. Terminal(j)' => row'[j].payload = "redacted"
    BY DEF IInv, TerminalRedacted, Terminal, RecordsAlone
  <1> QED
    BY <1>1, <1>2, <1>3, <1>4, WorkerStep

(* The consumer drops a job that it only found, that is gone or whose       *)
(* delivery is called off.                                                  *)
LEMMA LeaveStep ==
    ASSUME IInv, NEW w \in Worker, pc[w] \notin {"down", "idle"}, GoIdle(w), RecordsAlone,
           UNCHANGED troubled, faults' \in 0..MaxFaults,
           pc[w] \in {"picked", "check"} \/ ~ Exists(job[w])
    PROVE  IInv'
  <1> PICK j \in Job : j = job[w]
    BY Working
  <1>1. /\ TypeOK /\ Knows(w) /\ JobInv(j) /\ job[w] = j /\ j # NoJob
        /\ row[j].status # "absent" /\ (pc[w] # "picked" => w \in WorkingOn(j))
    BY Working, JobsNamed
  <1>2. /\ pc' = [pc EXCEPT ![w] = "idle"] /\ job' = [job EXCEPT ![w] = NoJob]
        /\ copy' = [copy EXCEPT ![w] = NoCopy]
    BY DEF GoIdle
  <1>3. Concerns(w, j)
    BY <1>1, <1>2 DEF Concerns, Same, RecordsAlone, TypeOK
  <1>4. Knows(w)'
    BY <1>1, <1>2, JobsNamed DEF Knows, TypeOK
  <1>5. WorkingOn(j)' = WorkingOn(j) \ {w}
    BY <1>1, <1>2 DEF WorkingOn, TypeOK
  <1>6. ASSUME j \notin troubled' PROVE Undisturbed(j)'
    <2>1. Undisturbed(j)
      BY <1>1, <1>6 DEF JobInv
    <2>2. CASE pc[w] = "picked"
      <3>1. WorkingOn(j)' = WorkingOn(j) /\ \A v \in WorkingOn(j) : v \in Worker \ {w}
        BY <1>5, <2>2 DEF WorkingOn
      <3> QED
        BY <1>1, <1>3, <3>1, JobAlone, <1>6 DEF Concerns, RecordsAlone, JobInv
    <2>3. CASE pc[w] # "picked"
      <3>1. WorkingOn(j)' = {}
        BY <1>1, <1>5, <2>1, <2>3, Alone
      <3>2. row[j].status = "deleted" \/ delivered[j] = 0
        BY <1>1, <2>1, <2>3, Alone DEF Exists, InHand
      <3> QED
        BY <2>1, <3>1, <3>2 DEF Undisturbed, RecordsAlone
    <2> QED
      BY <2>2, <2>3
  <1> QED
    BY <1>1, <1>2, <1>3, <1>4, <1>6, NothingTyped, QuietStep DEF TypeOK

(* The consumer goes on with the job in its hands.                          *)
LEMMA MoveStep ==
    ASSUME IInv, NEW w \in Worker, NEW s \in {"send", "failed"}, pc[w] \in {"check", "send"},
           Goto(w, s), RecordsAlone, UNCHANGED <<troubled, faults>>
    PROVE  IInv'
  <1> PICK j \in Job : j = job[w]
    BY Working
  <1>1. /\ TypeOK /\ Knows(w) /\ JobInv(j) /\ job[w] = j /\ j # NoJob /\ w \in WorkingOn(j)
    BY Working, JobsNamed
  <1>2. pc' = [pc EXCEPT ![w] = s] /\ job' = job /\ copy' = copy
    BY DEF Goto
  <1>3. Concerns(w, j)
    BY <1>1, <1>2 DEF Concerns, Same, RecordsAlone, TypeOK
  <1>4. Knows(w)'
    BY <1>1, <1>2 DEF Knows, TypeOK, RecordsAlone, Exists
  <1>5. WorkingOn(j)' = WorkingOn(j)
    BY <1>1, <1>2 DEF WorkingOn, TypeOK
  <1>6. ASSUME j \notin troubled' PROVE Undisturbed(j)'
    <2>1. Undisturbed(j) /\ WorkingOn(j) = {w} /\ InHand(j, w)
      BY <1>1, <1>6, Alone DEF JobInv
    <2>2. InHand(j, w)'
      BY <1>1, <1>2, <2>1 DEF InHand, Exists, RecordsAlone, TypeOK
    <2> QED
      BY <1>5, <2>1, <2>2 DEF Undisturbed, RecordsAlone
  <1> QED
    BY <1>1, <1>2, <1>3, <1>4, <1>6, QuietStep DEF TypeOK

(* The consumer reads the row it has claimed.                               *)
LEMMA LoadStep ==
    ASSUME IInv, NEW w \in Worker, Load(w)
    PROVE  IInv'
  <1> PICK j \in Job : j = job[w]
    BY Working DEF Load
  <1>1. /\ TypeOK /\ Knows(w) /\ JobInv(j) /\ job[w] = j /\ j # NoJob /\ w \in WorkingOn(j)
        /\ pc[w] = "load" /\ RecordsAlone /\ UNCHANGED <<troubled, faults>> /\ job' = job
    BY Working, JobsNamed DEF Load, RecordsAlone, history
  <1>2. PICK s \in {"failed", "check"} : pc' = [pc EXCEPT ![w] = s]
    BY DEF Load
  <1>3. /\ copy' = [copy EXCEPT ![w] = [attempts |-> row[j].attempts, payload |-> row[j].payload]]
        /\ [attempts |-> row[j].attempts, payload |-> row[j].payload] \in Copy
    BY <1>1 DEF Load, TypeOK, Row, Copy
  <1>4. copy' \in [Worker -> Copy] /\ copy'[w].attempts = row[j].attempts
    BY <1>1, <1>3 DEF TypeOK
  <1>5. Concerns(w, j)
    BY <1>1, <1>2, <1>3 DEF Concerns, Same, RecordsAlone, TypeOK
  <1>6. Knows(w)'
    BY <1>1, <1>2, <1>4 DEF Knows, TypeOK, RecordsAlone, Exists, JobInv, Recorded
  <1>7. WorkingOn(j)' = WorkingOn(j)
    BY <1>1, <1>2 DEF WorkingOn, TypeOK
  <1>8. ASSUME j \notin troubled' PROVE Undisturbed(j)'
    <2>1. Undisturbed(j) /\ WorkingOn(j) = {w} /\ InHand(j, w)
      BY <1>1, <1>8, Alone DEF JobInv
    <2>2. InHand(j, w)'
      BY <1>1, <1>2, <1>4, <2>1 DEF InHand, Exists, RecordsAlone, TypeOK
    <2> QED
      BY <1>1, <1>7, <2>1, <2>2 DEF Undisturbed, RecordsAlone
  <1> QED
    BY <1>1, <1>2, <1>4, <1>5, <1>6, <1>8, QuietStep DEF TypeOK

(* What the job's message count becomes when the provider takes one more.   *)
LEMMA TakenOnce ==
    ASSUME TypeOK, NEW w \in Worker, NEW j \in Job, job[w] = j, Taken(w)
    PROVE  /\ delivered' \in [Job -> 0..Many] /\ \A k \in Job \ {j} : delivered'[k] = delivered[k]
           /\ delivered'[j] > 0 /\ delivered[j] <= delivered'[j]
           /\ delivered[j] = 0 => delivered'[j] = 1
  BY DEF Taken, TypeOK, Many

(* The provider takes the message, and may not be heard of.                 *)
LEMMA AcceptedStep ==
    ASSUME IInv, NEW w \in Worker, SendAccepted(w) \/ SendUnanswered(w)
    PROVE  IInv'
  <1>1. /\ pc[w] = "send" /\ Taken(w) /\ UNCHANGED <<row, failures, env, job, copy>>
        /\ \/ /\ pc' = [pc EXCEPT ![w] = "sent"] /\ UNCHANGED <<troubled, faults>>
           \/ /\ pc' = [pc EXCEPT ![w] = "failed"] /\ troubled' = troubled \cup {job[w]}
              /\ faults < MaxFaults /\ faults' = faults + 1
    BY DEF SendAccepted, SendUnanswered, Goto
  <1> PICK j \in Job : j = job[w]
    BY <1>1, Working
  <1>2. /\ TypeOK /\ Knows(w) /\ JobInv(j) /\ job[w] = j /\ j # NoJob /\ w \in WorkingOn(j)
    BY <1>1, Working, JobsNamed
  <1>3. /\ delivered' \in [Job -> 0..Many] /\ \A k \in Job \ {j} : delivered'[k] = delivered[k]
        /\ delivered'[j] > 0 /\ delivered[j] <= delivered'[j]
        /\ delivered[j] = 0 => delivered'[j] = 1
    BY <1>1, <1>2, TakenOnce
  <1>4. TypeOK'
    BY <1>1, <1>2, <1>3, QueueAssumption DEF TypeOK
  <1>5. Concerns(w, j) /\ Kept(j)
    BY <1>1, <1>2, <1>3, NatsOf DEF Concerns, Same, TypeOK, Kept, Exists
  <1>6. Knows(w)'
    BY <1>1, <1>2, <1>3 DEF Knows, TypeOK, Exists
  <1>7. Recorded(j)'
    BY <1>1, <1>2, <1>3 DEF JobInv, Recorded
  <1>8. ASSUME j \notin troubled' PROVE Undisturbed(j)'
    <2>1. pc' = [pc EXCEPT ![w] = "sent"] /\ UNCHANGED <<troubled, faults>>
      BY <1>1, <1>2, <1>8
    <2>2. Undisturbed(j) /\ WorkingOn(j) = {w} /\ InHand(j, w)
      BY <1>2, <1>8, <2>1, Alone DEF JobInv
    <2>3. WorkingOn(j)' = {w}
      BY <1>1, <1>2, <2>1, <2>2 DEF WorkingOn, TypeOK
    <2>4. delivered'[j] = 1 /\ row[j].status \in {"processing", "deleted"}
      BY <1>1, <1>3, <2>2 DEF InHand
    <2>5. InHand(j, w)'
      BY <1>1, <1>2, <2>1, <2>2, <2>4 DEF InHand, Exists, TypeOK
    <2> QED
      BY <1>1, <2>2, <2>3, <2>4, <2>5 DEF Undisturbed
  <1>9. Terminal(j)' => row'[j].payload = "redacted"
    BY <1>1 DEF IInv, TerminalRedacted, Terminal
  <1> QED
    BY <1>1, <1>4, <1>5, <1>6, <1>7, <1>8, <1>9, WorkerStep

(* A job that a fault takes out of the consumer's hands is disturbed.       *)
LEMMA TroubleStep ==
    ASSUME IInv, NEW w \in Worker, MarkSucceededFails(w) \/ PollFailed(w) \/ Crash(w)
    PROVE  IInv'
  <1>1. /\ pc[w] \notin {"down", "idle"} /\ RecordsAlone /\ troubled' = troubled \cup {job[w]}
        /\ faults < MaxFaults /\ faults' = faults + 1
        /\ \/ /\ pc[w] = "sent" /\ pc' = [pc EXCEPT ![w] = "failed"] /\ UNCHANGED <<job, copy>>
           \/ /\ pc' = [pc EXCEPT ![w] = "idle"] \/ pc' = [pc EXCEPT ![w] = "down"]
              /\ job' = [job EXCEPT ![w] = NoJob] /\ copy' = [copy EXCEPT ![w] = NoCopy]
    BY DEF MarkSucceededFails, PollFailed, Crash, Abandon, Goto, RecordsAlone
  <1> PICK j \in Job : j = job[w]
    BY <1>1, Working
  <1>2. /\ TypeOK /\ Knows(w) /\ JobInv(j) /\ job[w] = j /\ j # NoJob
    BY <1>1, Working, JobsNamed
  <1>3. Concerns(w, j)
    BY <1>1, <1>2 DEF Concerns, Same, RecordsAlone, TypeOK
  <1>4. Knows(w)'
    BY <1>1, <1>2, JobsNamed DEF Knows, TypeOK, RecordsAlone, Exists
  <1>5. faults' \in 0..MaxFaults
    BY <1>1, <1>2, QueueAssumption DEF TypeOK
  <1> QED
    BY <1>1, <1>2, <1>3, <1>4, <1>5, NothingTyped, QuietStep DEF TypeOK

-----------------------------------------------------------------------------
(* The outcome is recorded by id, whatever has happened to the row.         *)

(* A consumer records an outcome and goes idle.                             *)
LEMMA FinishStep ==
    ASSUME IInv, NEW w \in Worker, NEW j \in Job, job[w] = j, pc[w] \in {"sent", "failed"},
           GoIdle(w), row' \in [Job -> Row], failures' \in [Job -> Nat], UNCHANGED history,
           \A k \in Job \ {j} : row'[k] = row[k] /\ failures'[k] = failures[k],
           Kept(j), Recorded(j)', Terminal(j)' => row'[j].payload = "redacted",
           j \notin troubled =>
              /\ row'[j].status # "processing"
              /\ delivered[j] = 1 => row'[j].status \in {"sent", "deleted"}
              /\ row'[j].status = "pending" => delivered[j] = 0
              /\ failures'[j] = row'[j].attempts /\ row'[j].attempts <= MaxAttempts
    PROVE  IInv'
  <1>1. /\ TypeOK /\ Knows(w) /\ JobInv(j) /\ w \in WorkingOn(j) /\ j # NoJob
        /\ row[j].status # "absent"
    BY Working, JobsNamed
  <1>2. /\ pc' = [pc EXCEPT ![w] = "idle"] /\ job' = [job EXCEPT ![w] = NoJob]
        /\ copy' = [copy EXCEPT ![w] = NoCopy]
    BY DEF GoIdle
  <1>3. TypeOK'
    BY <1>1, <1>2, NothingTyped DEF TypeOK, history
  <1>4. Concerns(w, j)
    BY <1>1, <1>2 DEF Concerns, Same, history, TypeOK
  <1>5. Knows(w)'
    BY <1>1, <1>2, JobsNamed DEF Knows, TypeOK
  <1>6. ASSUME j \notin troubled' PROVE Undisturbed(j)'
    <2>1. Undisturbed(j) /\ WorkingOn(j) = {w} /\ j \notin troubled
      BY <1>1, <1>6, Alone DEF JobInv, history
    <2>2. WorkingOn(j)' = {}
      BY <1>1, <1>2, <2>1 DEF WorkingOn, TypeOK
    <2>3. row'[j].status # "absent" /\ delivered' = delivered
      BY <1>1 DEF Kept, history
    <2> QED
      BY <2>1, <2>2, <2>3 DEF Undisturbed
  <1> QED
    BY <1>3, <1>4, <1>5, <1>6, WorkerStep

(* markSucceeded, by id whatever has become of the row.                     *)
LEMMA MarkSucceededStep ==
    ASSUME IInv, NEW w \in Worker, MarkSucceeded(w)
    PROVE  IInv'
  <1> PICK j \in Job : j = job[w]
    BY Working DEF MarkSucceeded
  <1>1. /\ TypeOK /\ Knows(w) /\ JobInv(j) /\ job[w] = j /\ w \in WorkingOn(j) /\ pc[w] = "sent"
        /\ row[j].status # "absent" /\ row[j] \in Row /\ delivered[j] > 0
        /\ failures' = failures /\ UNCHANGED history /\ GoIdle(w)
    BY Working DEF MarkSucceeded, Knows
  <1>2. j \notin troubled =>
           /\ row[j].status \in {"processing", "deleted"} /\ delivered[j] = 1
           /\ failures[j] = row[j].attempts /\ row[j].attempts <= MaxAttempts
    BY <1>1, Alone DEF JobInv, InHand, Undisturbed
  <1>3. CASE Exists(j)
    <2> DEFINE r1 == [row[j] EXCEPT !.status = "sent"]
               r2 == [r1 EXCEPT !.payload = "redacted"]
               r3 == [r2 EXCEPT !.lease = 0]
    <2>1. row' = [row EXCEPT ![j] = r3]
      <3>1. row' = [row EXCEPT ![j].status = "sent", ![j].payload = "redacted", ![j].lease = 0]
        BY <1>1, <1>3 DEF MarkSucceeded
      <3> QED
        BY <1>1, <3>1 DEF TypeOK
    <2>2. r1 \in Row /\ r1.status = "sent" /\ r1.attempts = row[j].attempts
      BY <1>1 DEF Row, Statuses
    <2> HIDE DEF r1
    <2>3. r2 \in Row /\ r2.status = "sent" /\ r2.attempts = row[j].attempts /\ r2.payload = "redacted"
      BY <2>2 DEF Row, Payloads
    <2> HIDE DEF r2
    <2>4. r3 \in Row /\ r3.status = "sent" /\ r3.attempts = row[j].attempts /\ r3.payload = "redacted"
      BY <2>3, QueueAssumption DEF Row
    <2> HIDE DEF r3
    <2>5. /\ row' \in [Job -> Row] /\ \A k \in Job \ {j} : row'[k] = row[k]
          /\ row'[j] \in Row /\ row'[j].status = "sent" /\ row'[j].attempts = row[j].attempts
          /\ row'[j].payload = "redacted"
      BY <1>1, <2>1, <2>4 DEF TypeOK
    <2>6. Kept(j)
      BY <1>1, <1>3, <2>5, NatsOf DEF Kept, Exists, history, Many
    <2>7. Recorded(j)'
      BY <1>1, <2>5 DEF JobInv, Recorded, history
    <2> QED
      BY <1>1, <1>2, <2>5, <2>6, <2>7, FinishStep DEF TypeOK
  <1>4. CASE ~ Exists(j)
    <2>1. row' = row /\ row[j].status = "deleted"
      BY <1>1, <1>4 DEF MarkSucceeded, Exists
    <2>2. Kept(j) /\ Recorded(j)'
      BY <1>1, <1>4, <2>1, NatsOf DEF Kept, Exists, history, Many, JobInv, Recorded
    <2> QED
      BY <1>1, <1>2, <2>1, <2>2, FinishStep DEF TypeOK, Terminal
  <1> QED
    BY <1>3, <1>4

(* What markFailed writes.                                                  *)
LEMMA FailedRow ==
    ASSUME NEW r \in Row, NEW n \in Nat
    PROVE  /\ Failed(r, n) \in Row /\ Failed(r, n).attempts = n
           /\ \/ n >= MaxAttempts /\ Failed(r, n).status = "dead_letter"
                 /\ Failed(r, n).payload = "redacted"
              \/ n < MaxAttempts /\ Failed(r, n).status = "pending"
  <1>1. CASE n >= MaxAttempts
    <2> DEFINE r1 == [r EXCEPT !.status = "dead_letter"]
               r2 == [r1 EXCEPT !.attempts = n]
               r3 == [r2 EXCEPT !.payload = "redacted"]
               r4 == [r3 EXCEPT !.lease = 0]
    <2>1. Failed(r, n) = r4
      BY <1>1 DEF Failed
    <2>2. r1 \in Row /\ r1.status = "dead_letter"
      BY DEF Row, Statuses
    <2> HIDE DEF r1
    <2>3. r2 \in Row /\ r2.status = "dead_letter" /\ r2.attempts = n
      BY <2>2 DEF Row
    <2> HIDE DEF r2
    <2>4. r3 \in Row /\ r3.status = "dead_letter" /\ r3.attempts = n /\ r3.payload = "redacted"
      BY <2>3 DEF Row, Payloads
    <2> HIDE DEF r3
    <2>5. r4 \in Row /\ r4.status = "dead_letter" /\ r4.attempts = n /\ r4.payload = "redacted"
      BY <2>4, QueueAssumption DEF Row
    <2> HIDE DEF r4
    <2> QED
      BY <1>1, <2>1, <2>5
  <1>2. CASE n < MaxAttempts
    <2> DEFINE r1 == [r EXCEPT !.status = "pending"]
               r2 == [r1 EXCEPT !.attempts = n]
               r3 == [r2 EXCEPT !.wait = Backoff(n)]
               r4 == [r3 EXCEPT !.lease = 0]
    <2>1. Failed(r, n) = r4
      BY <1>2, QueueAssumption DEF Failed
    <2>2. r1 \in Row /\ r1.status = "pending"
      BY DEF Row, Statuses
    <2> HIDE DEF r1
    <2>3. r2 \in Row /\ r2.status = "pending" /\ r2.attempts = n
      BY <2>2 DEF Row
    <2> HIDE DEF r2
    <2>4. r3 \in Row /\ r3.status = "pending" /\ r3.attempts = n
      BY <2>3, BackoffTyped DEF Row
    <2> HIDE DEF r3
    <2>5. r4 \in Row /\ r4.status = "pending" /\ r4.attempts = n
      BY <2>4, QueueAssumption DEF Row
    <2> HIDE DEF r4
    <2> QED
      BY <1>2, <2>1, <2>5
  <1> QED
    BY <1>1, <1>2, QueueAssumption

(* markFailed, with the attempts read at the claim.                         *)
LEMMA MarkFailedStep ==
    ASSUME IInv, NEW w \in Worker, MarkFailed(w)
    PROVE  IInv'
  <1> PICK j \in Job : j = job[w]
    BY Working DEF MarkFailed
  <1>1. /\ TypeOK /\ Knows(w) /\ JobInv(j) /\ job[w] = j /\ w \in WorkingOn(j) /\ pc[w] = "failed"
        /\ row[j].status # "absent" /\ row[j] \in Row /\ UNCHANGED history /\ GoIdle(w)
        /\ copy[w] \in Copy
    BY Working DEF MarkFailed, TypeOK
  <1>2. PICK a \in Nat : a = copy[w].attempts
    BY <1>1 DEF Copy
  <1>3. /\ Exists(j) => a <= failures[j]
        /\ failures[j] \in Nat
    BY <1>1, <1>2, NatsOf DEF Knows
  <1>4. j \notin troubled =>
           /\ row[j].status \in {"processing", "deleted"} /\ delivered[j] = 0
           /\ Exists(j) => a = row[j].attempts
           /\ failures[j] = row[j].attempts /\ row[j].attempts <= MaxAttempts
           /\ row[j].status = "processing" => row[j].attempts < MaxAttempts
    BY <1>1, <1>2, Alone DEF JobInv, InHand, Undisturbed, Recorded
  <1>5. CASE Exists(j)
    <2> DEFINE f == Failed(row[j], a + 1)
    <2>1. row' = [row EXCEPT ![j] = f] /\ failures' = [failures EXCEPT ![j] = failures[j] + 1]
      BY <1>1, <1>2, <1>5 DEF MarkFailed
    <2>2. /\ f \in Row /\ f.attempts = a + 1
          /\ \/ a + 1 >= MaxAttempts /\ f.status = "dead_letter" /\ f.payload = "redacted"
             \/ a + 1 < MaxAttempts /\ f.status = "pending"
      <3>1. PICK n \in Nat : n = a + 1
        OBVIOUS
      <3>2. f = Failed(row[j], n)
        BY <3>1
      <3> HIDE DEF f
      <3> QED
        BY <1>1, <3>1, <3>2, FailedRow
    <2> HIDE DEF f
    <2>3. /\ row' \in [Job -> Row] /\ row'[j] = f /\ \A k \in Job \ {j} : row'[k] = row[k]
          /\ failures' \in [Job -> Nat] /\ failures'[j] = failures[j] + 1
          /\ \A k \in Job \ {j} : failures'[k] = failures[k]
      BY <1>1, <1>3, <2>1, <2>2 DEF TypeOK
    <2>4. Kept(j)
      BY <1>1, <1>3, <1>5, <2>2, <2>3, NatsOf DEF Kept, Exists, history, Many
    <2>5. Recorded(j)'
      BY <1>3, <1>5, <2>2, <2>3 DEF Recorded
    <2>6. Terminal(j)' => row'[j].payload = "redacted"
      BY <2>2, <2>3 DEF Terminal
    <2>7. j \notin troubled => /\ failures'[j] = row'[j].attempts /\ row'[j].attempts <= MaxAttempts
                               /\ row'[j].status # "processing" /\ delivered[j] = 0
      BY <1>3, <1>4, <1>5, <2>2, <2>3, QueueAssumption DEF Exists
    <2> QED
      BY <1>1, <2>3, <2>4, <2>5, <2>6, <2>7, FinishStep
  <1>6. CASE ~ Exists(j)
    <2>1. row' = row /\ row[j].status = "deleted" /\ failures' = failures
      BY <1>1, <1>6 DEF MarkFailed, Exists, TypeOK
    <2>2. Kept(j) /\ Recorded(j)'
      BY <1>1, <1>6, <2>1, NatsOf DEF Kept, Exists, history, Many, JobInv, Recorded
    <2> QED
      BY <1>1, <1>4, <2>1, <2>2, FinishStep DEF TypeOK, Terminal
  <1> QED
    BY <1>5, <1>6

-----------------------------------------------------------------------------
(* Steps of the deployment, of publishers and of time.                      *)

(* What is left to show of a step that moves no consumer's work.            *)
LEMMA OutsideStep ==
    ASSUME IInv, TypeOK', TerminalRedacted', UNCHANGED <<job, copy>>,
           \A w \in Worker : pc'[w] = pc[w] \/ {pc[w], pc'[w]} = {"down", "idle"},
           \A k \in Job : JobInv(k)',
           \A k \in Job : row[k].status # "absent" => Kept(k)
    PROVE  IInv'
  <1>1. ASSUME NEW w \in Worker PROVE Knows(w)'
    <2>1. Knows(w) /\ TypeOK
      BY DEF IInv
    <2>2. ASSUME NEW k \in Job, job[w] = k
          PROVE  /\ row'[k].status # "absent"
                 /\ pc'[w] = "sent" => delivered'[k] > 0
                 /\ Exists(k)' => copy[w].attempts <= failures'[k]
      <3>1. row[k].status # "absent" /\ Kept(k) /\ pc'[w] = pc[w]
        <4>1. k # NoJob
          BY JobsNamed
        <4> QED
          BY <2>1, <2>2, <4>1 DEF Knows
      <3>2. /\ delivered[k] \in Int /\ delivered'[k] \in Int
            /\ failures[k] \in Int /\ failures'[k] \in Int /\ copy[w] \in Copy
        BY <2>1 DEF TypeOK, Many
      <3>3. PICK n \in Nat : n = copy[w].attempts
        BY <3>2 DEF Copy
      <3> QED
        BY <2>1, <2>2, <3>1, <3>2, <3>3 DEF Kept, Knows
    <2>3. /\ pc'[w] \in {"down", "idle"} <=> pc[w] \in {"down", "idle"}
      OBVIOUS
    <2> QED
      BY <2>1, <2>2, <2>3 DEF Knows
  <1> QED
    BY <1>1 DEF IInv, JobInv

(* A process starts, with its redaction, or stops.                          *)
LEMMA LifeStep ==
    ASSUME IInv, NEW w \in Worker, Start(w) \/ Shutdown(w)
    PROVE  IInv'
  <1>1. TypeOK /\ UNCHANGED <<failures, job, copy, delivered, troubled>> /\ faults' \in 0..MaxFaults
        /\ env' \in Environments
        /\ \/ pc[w] = "down" /\ pc' = [pc EXCEPT ![w] = "idle"] /\ RedactTerminalPayloads
           \/ pc[w] = "idle" /\ pc' = [pc EXCEPT ![w] = "down"] /\ row' = row
    BY QueueAssumption DEF IInv, Start, Shutdown, Goto, history, TypeOK
  <1>2. \A j \in Job : /\ row'[j] \in Row /\ row'[j].status = row[j].status
                       /\ row'[j].attempts = row[j].attempts /\ row'[j].lease = row[j].lease
    <2> TAKE j \in Job
    <2>1. row[j] \in Row
      BY <1>1 DEF TypeOK
    <2>2. row'[j] = row[j] \/ row'[j] = [row[j] EXCEPT !.payload = "redacted"]
      BY <1>1 DEF RedactTerminalPayloads
    <2> QED
      BY <2>1, <2>2 DEF Row, Payloads
  <1>3. TypeOK'
    <2>1. row' \in [Job -> Row]
      BY <1>1, <1>2 DEF RedactTerminalPayloads, TypeOK
    <2> QED
      BY <1>1, <2>1 DEF TypeOK
  <1>4. TerminalRedacted'
    <2>1. CASE RedactTerminalPayloads
      <3> SUFFICES ASSUME NEW j \in Job, Terminal(j)' PROVE row'[j].payload = "redacted"
        BY DEF TerminalRedacted
      <3>1. row[j] \in Row /\ Terminal(j)
        BY <1>1, <1>2 DEF TypeOK, Terminal
      <3>2. row'[j] = [row[j] EXCEPT !.payload = "redacted"]
        BY <2>1, <3>1 DEF RedactTerminalPayloads
      <3> QED
        BY <3>1, <3>2 DEF Row
    <2>2. CASE pc[w] = "idle" /\ row' = row
      BY <2>2 DEF IInv, TerminalRedacted, Terminal
    <2> QED
      BY <1>1, <2>1, <2>2
  <1>5. \A v \in Worker : pc'[v] = pc[v] \/ {pc[v], pc'[v]} = {"down", "idle"}
    BY <1>1 DEF TypeOK
  <1>6. ASSUME NEW k \in Job PROVE JobInv(k)' /\ Kept(k)
    <2>1. WorkingOn(k)' = WorkingOn(k) /\ \A v \in WorkingOn(k) : v \in Worker \ {w}
      BY <1>1 DEF WorkingOn, TypeOK
    <2>2. \A v \in WorkingOn(k) : Same(v)
      BY <1>1, <2>1 DEF Same, TypeOK
    <2>3. JobInv(k) /\ failures[k] \in Nat /\ delivered[k] \in Nat
      BY <1>1, NatsOf DEF IInv, JobInv, Many
    <2>4. Kept(k)
      BY <1>1, <1>2, <2>3 DEF Kept, Exists
    <2> QED
      BY <1>1, <1>2, <2>1, <2>2, <2>3, <2>4, JobAlone
  <1> QED
    BY <1>1, <1>3, <1>4, <1>5, <1>6, OutsideStep

(* A job is enqueued under a key that was free.                             *)
LEMMA EnqueueStep ==
    ASSUME IInv, NEW j \in Job, Enqueue(j)
    PROVE  IInv'
  <1>1. /\ TypeOK /\ row[j].status = "absent" /\ UNCHANGED <<failures, workerVars, history>>
        /\ JobInv(j)
    BY DEF IInv, Enqueue, JobInv
  <1>2. /\ row' \in [Job -> Row] /\ \A k \in Job \ {j} : row'[k] = row[k]
        /\ row'[j].status = "pending" /\ row'[j].attempts = 0
    <2>1. PICK p \in EncryptPayload :
             row' = [row EXCEPT ![j] = [NoRow EXCEPT !.status = "pending", !.payload = p]]
      BY DEF Enqueue
    <2> DEFINE r1 == [NoRow EXCEPT !.status = "pending"]
               r2 == [r1 EXCEPT !.payload = p]
    <2>2. row' = [row EXCEPT ![j] = r2]
      BY <2>1
    <2>3. r1 \in Row /\ r1.status = "pending" /\ r1.attempts = 0
      BY NothingTyped DEF Row, Statuses, NoRow
    <2> HIDE DEF r1
    <2>4. r2 \in Row /\ r2.status = "pending" /\ r2.attempts = 0
      BY <2>3 DEF Row, Payloads, EncryptPayload
    <2> HIDE DEF r2
    <2> QED
      BY <1>1, <2>2, <2>4 DEF TypeOK
  <1>3. TypeOK'
    BY <1>1, <1>2 DEF TypeOK, workerVars, history
  <1>4. TerminalRedacted'
    BY <1>1, <1>2 DEF IInv, TerminalRedacted, Terminal, workerVars
  <1>5. WorkingOn(j) = {} /\ \A k \in Job : WorkingOn(k)' = WorkingOn(k)
    <2>1. \A w \in Worker : job[w] # j
      BY <1>1 DEF IInv, Knows
    <2> QED
      BY <1>1, <2>1 DEF WorkingOn, workerVars
  <1>6. JobInv(j)'
    <2>1. failures[j] = 0
      BY <1>1 DEF JobInv, Recorded
    <2> QED
      BY <1>1, <1>2, <1>5, <2>1, QueueAssumption DEF JobInv, Recorded, Undisturbed, history
  <1>7. ASSUME NEW k \in Job \ {j} PROVE JobInv(k)' /\ Kept(k)
    <2>1. /\ JobInv(k) /\ \A v \in WorkingOn(k) : Same(v)
          /\ failures[k] \in Nat /\ delivered[k] \in Nat
      BY <1>1, NatsOf DEF IInv, JobInv, Same, workerVars, Many
    <2> QED
      BY <1>1, <1>2, <1>5, <2>1, JobAlone DEF history, Kept, Exists
  <1>8. \A k \in Job : JobInv(k)'
    BY <1>6, <1>7
  <1> QED
    BY <1>1, <1>3, <1>4, <1>7, <1>8, OutsideStep DEF workerVars

(* A job and its failure log are deleted with the account.                  *)
LEMMA DeleteStep ==
    ASSUME IInv, NEW j \in Job, DeleteJob(j)
    PROVE  IInv'
  <1>1. /\ TypeOK /\ Exists(j) /\ UNCHANGED <<workerVars, history>> /\ JobInv(j)
        /\ failures' = [failures EXCEPT ![j] = 0]
        /\ row' = [row EXCEPT ![j] = [NoRow EXCEPT !.status = "deleted"]]
    BY DEF IInv, DeleteJob, JobInv
  <1>2. /\ row' \in [Job -> Row] /\ \A k \in Job \ {j} : row'[k] = row[k]
        /\ row'[j].status = "deleted" /\ row'[j].attempts = 0
    <2>1. LET r == [NoRow EXCEPT !.status = "deleted"] IN
            r \in Row /\ r.status = "deleted" /\ r.attempts = 0
      BY NothingTyped DEF Row, Statuses, NoRow
    <2> QED
      BY <1>1, <2>1 DEF TypeOK
  <1>3. TypeOK'
    BY <1>1, <1>2 DEF TypeOK, workerVars, history
  <1>4. TerminalRedacted'
    BY <1>1, <1>2 DEF IInv, TerminalRedacted, Terminal, workerVars
  <1>5. \A k \in Job : WorkingOn(k)' = WorkingOn(k)
    BY <1>1 DEF WorkingOn, workerVars
  <1>6. JobInv(j)'
    <2>1. failures'[j] = 0
      BY <1>1 DEF TypeOK
    <2>2. Recorded(j)'
      BY <1>2, <2>1 DEF Recorded
    <2>3. ASSUME j \notin troubled' PROVE Undisturbed(j)'
      <3>1. Undisturbed(j)
        BY <1>1, <2>3 DEF JobInv, history
      <3>2. \A w \in WorkingOn(j) : InHand(j, w)'
        BY <1>1, <1>2, <3>1 DEF Undisturbed, InHand, Exists, workerVars, history
      <3> QED
        BY <1>1, <1>2, <1>5, <2>1, <3>1, <3>2, QueueAssumption DEF Undisturbed, history
    <2> QED
      BY <2>2, <2>3 DEF JobInv
  <1>7. ASSUME NEW k \in Job \ {j} PROVE JobInv(k)' /\ Kept(k)
    <2>1. /\ JobInv(k) /\ (\A v \in WorkingOn(k) : Same(v)) /\ failures'[k] = failures[k]
          /\ failures[k] \in Nat /\ delivered[k] \in Nat
      BY <1>1, NatsOf DEF IInv, JobInv, Same, workerVars, Many, TypeOK
    <2> QED
      BY <1>1, <1>2, <1>5, <2>1, JobAlone DEF history, Kept, Exists
  <1>8. Kept(j)
    <2>1. delivered[j] \in Nat
      BY <1>1, NatsOf DEF Many
    <2> QED
      BY <1>1, <1>2, <2>1 DEF Kept, Exists, history
  <1>9. \A k \in Job : JobInv(k)' /\ Kept(k)
    BY <1>6, <1>7, <1>8
  <1> QED
    BY <1>1, <1>3, <1>4, <1>9, OutsideStep DEF workerVars

(* Time passes: waits and leases run down.                                  *)
LEMMA TickStep ==
    ASSUME IInv, Tick
    PROVE  IInv'
  <1>1. TypeOK /\ UNCHANGED <<failures, workerVars, delivered, faults, env>>
        /\ troubled' = troubled \cup {j \in Job : row[j].lease = 1 /\ WorkingOn(j) # {}}
    BY DEF IInv, Tick
  <1>2. \A j \in Job : /\ row'[j] \in Row /\ row'[j].status = row[j].status
                       /\ row'[j].attempts = row[j].attempts /\ row'[j].payload = row[j].payload
                       /\ row'[j].lease = IF row[j].lease > 0 THEN row[j].lease - 1 ELSE 0
    <2> TAKE j \in Job
    <2>1. row[j] \in Row
      BY <1>1 DEF TypeOK
    <2> DEFINE a == IF row[j].wait > 0 THEN row[j].wait - 1 ELSE 0
               b == IF row[j].lease > 0 THEN row[j].lease - 1 ELSE 0
               r == [row[j] EXCEPT !.wait = a]
    <2>2. row'[j] = [r EXCEPT !.lease = b]
      BY DEF Tick
    <2>3. a \in 0..MaxBackoff /\ b \in 0..LeaseTicks
      <3>1. PICK m \in 0..MaxBackoff : m = row[j].wait
        BY <2>1 DEF Row
      <3>2. PICK n \in 0..LeaseTicks : n = row[j].lease
        BY <2>1 DEF Row
      <3> QED
        BY <3>1, <3>2, QueueAssumption
    <2>4. b = IF row[j].lease > 0 THEN row[j].lease - 1 ELSE 0
      OBVIOUS
    <2> HIDE DEF a, b
    <2>5. r \in Row /\ r.status = row[j].status /\ r.attempts = row[j].attempts
          /\ r.payload = row[j].payload
      BY <2>1, <2>3 DEF Row
    <2> HIDE DEF r
    <2>6. /\ row'[j] \in Row /\ row'[j].status = row[j].status /\ row'[j].lease = b
          /\ row'[j].attempts = row[j].attempts /\ row'[j].payload = row[j].payload
      BY <2>2, <2>3, <2>5 DEF Row
    <2> QED
      BY <2>4, <2>6
  <1>3. TypeOK'
    <2>1. row' \in [Job -> Row]
      BY <1>2 DEF Tick
    <2>2. troubled' \in SUBSET Job
      BY <1>1 DEF TypeOK
    <2> QED
      BY <1>1, <2>1, <2>2 DEF TypeOK, workerVars
  <1>4. TerminalRedacted'
    BY <1>1, <1>2 DEF IInv, TerminalRedacted, Terminal, workerVars
  <1>5. \A k \in Job : WorkingOn(k)' = WorkingOn(k)
    BY <1>1 DEF WorkingOn, workerVars
  <1>6. ASSUME NEW k \in Job PROVE JobInv(k)' /\ Kept(k)
    <2>1. /\ JobInv(k) /\ failures[k] \in Nat /\ delivered[k] \in Nat /\ row[k].lease \in Nat
      BY <1>1, NatsOf DEF IInv, JobInv, Many
    <2>2. Recorded(k)'
      BY <1>1, <1>2, <2>1 DEF JobInv, Recorded
    <2>3. ASSUME k \notin troubled' PROVE Undisturbed(k)'
      <3>1. Undisturbed(k) /\ ~ (row[k].lease = 1 /\ WorkingOn(k) # {})
        BY <1>1, <2>1, <2>3 DEF JobInv
      <3>2. \A w \in WorkingOn(k) : InHand(k, w)'
        BY <1>1, <1>2, <3>1 DEF Undisturbed, InHand, Exists, workerVars
      <3>3. row'[k].status = "processing" /\ WorkingOn(k) # {} => row'[k].lease > 0
        <4>1. PICK n \in Nat : n = row[k].lease
          BY <2>1
        <4> QED
          BY <1>2, <3>1, <4>1 DEF Undisturbed
      <3> QED
        BY <1>1, <1>2, <1>5, <3>1, <3>2, <3>3 DEF Undisturbed
    <2>4. Kept(k)
      BY <1>1, <1>2, <2>1 DEF Kept, Exists
    <2> QED
      BY <2>2, <2>3, <2>4 DEF JobInv
  <1> QED
    BY <1>1, <1>3, <1>4, <1>6, OutsideStep DEF workerVars

-----------------------------------------------------------------------------
(* Every step keeps the invariant.                                          *)
LEMMA NextInvariant == IInv /\ [Next]_vars => IInv'
  <1> SUFFICES ASSUME IInv, [Next]_vars PROVE IInv'
    OBVIOUS
  <1>1. ASSUME NEW w \in Worker, Acquire(w) PROVE IInv'
    <2>1. CASE ClaimMissed(w) \/ LoadMissing(w)
      BY <2>1, LeaveStep DEF ClaimMissed, LoadMissing, RecordsAlone, history, IInv, TypeOK
    <2> QED
      BY <1>1, <2>1, PollStep, ClaimStep, LoadStep DEF Acquire
  <1>2. ASSUME NEW w \in Worker, Deliver(w) PROVE IInv'
    <2>1. CASE Check(w)
      BY <2>1, LeaveStep, MoveStep DEF Check, RecordsAlone, history, IInv, TypeOK
    <2>3. CASE Cancelled(w)
      <3>1. faults' \in 0..MaxFaults
        BY <2>3, QueueAssumption DEF Cancelled, IInv, TypeOK
      <3> QED
        BY <2>3, <3>1, LeaveStep DEF Cancelled, RecordsAlone
    <2>2. CASE SendRefused(w)
      BY <2>2, MoveStep DEF SendRefused, RecordsAlone, history
    <2> QED
      BY <1>2, <2>1, <2>2, <2>3, AcceptedStep DEF Deliver
  <1>3. CASE UNCHANGED vars
    <2>1. TypeOK' /\ TerminalRedacted' /\ (\A k \in Job : JobInv(k)') /\ \A w \in Worker : Knows(w)'
      BY <1>3 DEF IInv, TypeOK, TerminalRedacted, Terminal, JobInv, Recorded, Undisturbed, InHand,
                  WorkingOn, Exists, Knows, vars, workerVars, history
    <2> QED
      BY <2>1 DEF IInv, JobInv
  <1> QED
    BY <1>1, <1>2, <1>3, TroubleStep, MarkSucceededStep, MarkFailedStep, LifeStep, EnqueueStep,
       DeleteStep, TickStep
    DEF Next, Work, Record

(* The inductive invariant holds in every reachable state.                  *)
THEOREM Invariance == Spec => []IInv
  <1> QED
    BY InitInvariant, NextInvariant, PTL DEF Spec

-----------------------------------------------------------------------------
(* An instance that runs was started with a provider.                       *)
Deployed == (\E w \in Worker : pc[w] # "down") => AssertProviderConfiguration(env)

(* Only an instance that starts comes up, and it has its provider.          *)
LEMMA DeployedStep ==
    ASSUME TypeOK, Deployed, [Next]_vars
    PROVE  Deployed'
  <1>1. ASSUME NEW w \in Worker, pc[w] # "down", UNCHANGED env PROVE Deployed'
    BY <1>1 DEF Deployed
  <1>2. ASSUME NEW w \in Worker, Work(w) PROVE Deployed'
    <2>1. pc[w] # "down" /\ UNCHANGED env
      BY <1>2 DEF Work, Acquire, Deliver, Record, Poll, Claim, ClaimMissed, Load, LoadMissing, Check,
                  Cancelled, SendAccepted, SendRefused, SendUnanswered, MarkSucceeded, MarkSucceededFails, MarkFailed,
                  history
    <2> QED
      BY <1>1, <2>1
  <1>3. ASSUME NEW w \in Worker, Shutdown(w) \/ PollFailed(w) \/ Crash(w) PROVE Deployed'
    <2>1. pc[w] # "down" /\ UNCHANGED env
      BY <1>3 DEF Shutdown, PollFailed, Crash, Abandon
    <2> QED
      BY <1>1, <2>1
  <1>4. ASSUME NEW w \in Worker, Start(w) PROVE Deployed'
    BY <1>4 DEF Start, Deployed, history
  <1>5. ASSUME UNCHANGED <<pc, env>> PROVE Deployed'
    BY <1>5 DEF Deployed
  <1>6. ASSUME NEW j \in Job, Enqueue(j) \/ DeleteJob(j) PROVE Deployed'
    BY <1>5, <1>6 DEF Enqueue, DeleteJob, workerVars, history
  <1>7. ASSUME Tick PROVE Deployed'
    BY <1>5, <1>7 DEF Tick, workerVars
  <1>8. ASSUME UNCHANGED vars PROVE Deployed'
    BY <1>5, <1>8 DEF vars, workerVars, history
  <1> QED
    BY <1>2, <1>3, <1>4, <1>6, <1>7, <1>8 DEF Next

(* An instance starts only with a provider that can take a message.         *)
LEMMA ProviderTakes == AssertProviderConfiguration(env) => "accepted" \in SendMessage(env)
  <1> SUFFICES ASSUME AssertProviderConfiguration(env) PROVE "accepted" \in SendMessage(env)
    OBVIOUS
  <1>1. "accepted" \in {PostForm(s) : s \in Status} /\ "accepted" \in {PostJson(s) : s \in Status}
    <2>1. 200 \in Status /\ PostForm(200) = "accepted" /\ PostJson(200) = "accepted"
      BY DEF Status, PostForm, PostJson, NoStatus
    <2> QED
      BY <2>1
  <1>2. ProviderName(env) \in {"dev", "termii", "twilio"}
    BY DEF ProviderName
  <1>3. CASE ProviderName(env) = "dev"
    BY <1>3 DEF SendMessage
  <1>4. CASE ProviderName(env) = "twilio"
    BY <1>1, <1>4 DEF SendMessage, Twilio, AssertProviderConfiguration
  <1>5. CASE ProviderName(env) = "termii"
    BY <1>1, <1>5 DEF SendMessage, Termii, AssertProviderConfiguration
  <1> QED
    BY <1>2, <1>3, <1>4, <1>5

(* An undisturbed job goes out at most once, in the hands of one consumer,  *)
(* and is recorded as sent; and whatever late consumers write, every job    *)
(* keeps to its attempts, is redacted when it is over and has each counted  *)
(* failure in the log; and an instance that is up has a provider that can   *)
(* take messages (claimReadyJob, processClaimedJob, markSucceeded,          *)
(* markFailed and assertProviderConfiguration).                             *)
THEOREM QueueStaysSound == Spec => []QueueSound
  <1>1. IInv /\ Deployed => QueueSound
    <2> SUFFICES ASSUME IInv, Deployed PROVE QueueSound
      OBVIOUS
    <2>1. UntroubledOnce
      <3> SUFFICES ASSUME NEW j \in Job \ troubled
                   PROVE  /\ Cardinality(WorkingOn(j)) <= 1
                          /\ delivered[j] <= 1
                          /\ delivered[j] = 1 /\ WorkingOn(j) = {} =>
                                row[j].status \in {"sent", "deleted"}
        BY DEF UntroubledOnce
      <3>1. Undisturbed(j)
        BY DEF IInv
      <3>2. Cardinality(WorkingOn(j)) <= 1
        BY <3>1, AtMostOne DEF Undisturbed
      <3> QED
        BY <3>1, <3>2 DEF Undisturbed
    <2>2. TypeOK /\ TerminalRedacted /\ SentWasDelivered
      BY DEF IInv, Recorded, SentWasDelivered
    <2>3. AttemptsBounded
      BY DEF IInv, AttemptsBounded, Recorded, Undisturbed
    <2>4. FailuresLogged
      <3> SUFFICES ASSUME NEW j \in Job
                   PROVE  /\ row[j].attempts <= failures[j]
                          /\ row[j].status = "dead_letter" => failures[j] >= MaxAttempts
                          /\ j \notin troubled => failures[j] = row[j].attempts
        BY DEF FailuresLogged
      <3>1. Recorded(j) /\ (j \notin troubled => Undisturbed(j))
        BY DEF IInv
      <3>2. PICK a \in Nat, f \in Nat : a = row[j].attempts /\ f = failures[j]
        BY <2>2, NatsOf
      <3> QED
        BY <3>1, <3>2, QueueAssumption DEF Recorded, Undisturbed
    <2>5. StartedCanSend
      BY ProviderTakes DEF Deployed, StartedCanSend
    <2> QED
      BY <2>1, <2>2, <2>3, <2>4, <2>5 DEF QueueSound, JobRecordsSound
  <1>2. Init => Deployed
    BY DEF Init, Deployed
  <1>3. IInv /\ Deployed /\ [Next]_vars => Deployed'
    BY DeployedStep DEF IInv
  <1> QED
    BY <1>1, <1>2, <1>3, Invariance, PTL DEF Spec
=============================================================================
