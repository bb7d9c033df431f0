------------------------- MODULE NotificationQueue -------------------------
(***************************************************************************)
(* The database-backed notification queue and its consumers               *)
(* (src/api/src/notifications): a consumer per API instance polls the      *)
(* oldest ready job, claims it with a conditional UPDATE that starts a     *)
(* lease, sends it to the SMS provider and records the outcome.  Every     *)
(* database statement and every provider call is a step of its own, so     *)
(* that consumers, expiring leases, deletions and crashes interleave.      *)
(*                                                                         *)
(* Time is relative: `wait' is how many ticks nextRunAt lies ahead and     *)
(* `lease' how many ticks are left before lockedAt is stale.               *)
(***************************************************************************)
EXTENDS Integers, FiniteSets, SmsProviders

CONSTANTS
    Worker,       \* notification consumers, one per API instance
    MaxJobs,      \* bound: jobs enqueued; a job is named by its creation order
    MaxAttempts,  \* NotificationJob.maxAttempts
    LeaseTicks,   \* JOB_LOCK_TIMEOUT_MS
    MaxBackoff,   \* the cap of backoffMs
    MaxFaults,    \* bound: crashes, shutdowns, database errors, lost answers and
                  \* deliveries called off
    Environments, \* environments an API may be deployed with
    NoJob

Job == 1..MaxJobs

ASSUME QueueAssumption ==
    /\ MaxJobs \in Nat /\ MaxAttempts \in Nat \ {0}
    /\ LeaseTicks \in Nat \ {0} /\ MaxBackoff \in Nat /\ MaxFaults \in Nat
    /\ NoJob \notin Job

VARIABLES
    row,        \* NotificationJob rows
    failures,   \* NotificationFailureAttempt rows of each job
    pc,         \* the statement each consumer executes next
    job,        \* the job it works on
    copy,       \* attempts and payload it read after its claim
    delivered,  \* messages the provider accepted, per job (saturates at Many)
    troubled,   \* history: jobs hit by a crash, an error after acceptance or a lost lease
    faults,     \* faults so far
    env         \* the environment of the deployment

workerVars == <<pc, job, copy>>
history == <<delivered, troubled, faults, env>>
vars == <<row, failures, workerVars, history>>

Statuses == {"absent", "pending", "processing", "sent", "dead_letter", "deleted"}

(* A stored payload: sealed under the key the consumers have or under      *)
(* another one, in plain text by an earlier version, or redacted.          *)
Payloads == {"sealed", "foreign", "plain", "redacted"}
EncryptPayload == {"sealed", "foreign"}
Readable == {"sealed", "plain"}
Many == 2

Row == [status : Statuses, attempts : Nat, wait : 0..MaxBackoff,
        lease : 0..LeaseTicks, payload : Payloads]
Copy == [attempts : Nat, payload : Payloads]

NoRow == [status |-> "absent", attempts |-> 0, wait |-> 0, lease |-> 0,
          payload |-> "sealed"]
NoCopy == [attempts |-> 0, payload |-> "sealed"]

(* A message that an earlier version sent and kept.                        *)
LegacyRow == [NoRow EXCEPT !.status = "sent", !.payload = "plain"]

TypeOK ==
    /\ row \in [Job -> Row]
    /\ failures \in [Job -> Nat]
    /\ pc \in [Worker -> {"down", "idle", "picked", "load", "check", "send", "sent", "failed"}]
    /\ job \in [Worker -> Job \cup {NoJob}]
    /\ copy \in [Worker -> Copy]
    /\ delivered \in [Job -> 0..Many]
    /\ troubled \in SUBSET Job
    /\ faults \in 0..MaxFaults
    /\ env \in Environments

Init ==
    /\ \E first \in {NoRow, LegacyRow} : row = [j \in Job |-> IF j = 1 THEN first ELSE NoRow]
    /\ env \in Environments
    /\ failures = [j \in Job |-> 0]
    /\ pc = [w \in Worker |-> "down"]
    /\ job = [w \in Worker |-> NoJob]
    /\ copy = [w \in Worker |-> NoCopy]
    /\ delivered = [j \in Job |-> IF row[j] = LegacyRow THEN 1 ELSE 0]
    /\ troubled = {}
    /\ faults = 0

-----------------------------------------------------------------------------
Exists(j) == row[j].status \notin {"absent", "deleted"}
Terminal(j) == row[j].status \in {"sent", "dead_letter"}
WorkingOn(j) == {w \in Worker : job[w] = j /\ pc[w] \notin {"down", "idle", "picked"}}

(* backoffMs: 2^attempt seconds, capped.                                    *)
Backoff(n) == IF 2^n \in 0..MaxBackoff THEN 2^n ELSE MaxBackoff

(* Mutant of Ready: a job whose consumer died is never taken over.          *)
BugLeaseForever(j) == row[j].status = "pending" /\ row[j].wait = 0

(* readyWhere: due, or in a consumer's hands for longer than the lease.     *)
Ready(j) ==
    \/ row[j].status = "pending" /\ row[j].wait = 0
    \/ row[j].status = "processing" /\ row[j].lease = 0

Goto(w, step) ==
    /\ pc' = [pc EXCEPT ![w] = step]
    /\ UNCHANGED <<job, copy>>

GoIdle(w) ==
    /\ pc' = [pc EXCEPT ![w] = "idle"]
    /\ job' = [job EXCEPT ![w] = NoJob]
    /\ copy' = [copy EXCEPT ![w] = NoCopy]

-----------------------------------------------------------------------------
(* An API instance starts, if its provider is configured; its consumer     *)
(* redacts what is left of finished jobs and then polls.                   *)
RedactTerminalPayloads ==
    row' = [j \in Job |-> IF Terminal(j) THEN [row[j] EXCEPT !.payload = "redacted"] ELSE row[j]]
Start(w) ==
    /\ pc[w] = "down" /\ AssertProviderConfiguration(env)
    /\ RedactTerminalPayloads
    /\ Goto(w, "idle")
    /\ UNCHANGED <<failures, history>>

(* onModuleDestroy, between two polls.                                     *)
Shutdown(w) ==
    /\ pc[w] = "idle"
    /\ faults < MaxFaults /\ faults' = faults + 1
    /\ Goto(w, "down")
    /\ UNCHANGED <<row, failures, delivered, troubled, env>>

-----------------------------------------------------------------------------
(* A publisher inserts the next job; a job with the same dedupeKey is the   *)
(* same job here, so publishing it again changes nothing.  The payload may  *)
(* turn out to be unreadable (the encryption key has changed).              *)
Enqueue(j) ==
    /\ \E w \in Worker : pc[w] # "down"
    /\ row[j].status = "absent"
    /\ \A k \in 1..(j - 1) : row[k].status # "absent"
    /\ \E payload \in EncryptPayload :
          row' = [row EXCEPT ![j] = [NoRow EXCEPT !.status = "pending", !.payload = payload]]
    /\ UNCHANGED <<failures, workerVars, history>>

(* Account deletion removes the account's jobs, whatever their state, and   *)
(* with them their failures.                                                *)
DeleteJob(j) ==
    /\ Exists(j)
    /\ row' = [row EXCEPT ![j] = [NoRow EXCEPT !.status = "deleted"]]
    /\ failures' = [failures EXCEPT ![j] = 0]
    /\ UNCHANGED <<workerVars, history>>

-----------------------------------------------------------------------------
(* claimReadyJob: find the oldest ready job ...                             *)
Poll(w) ==
    /\ pc[w] = "idle"
    /\ \E j \in Job :
          /\ Ready(j)
          /\ \A k \in 1..(j - 1) : ~Ready(k)
          /\ job' = [job EXCEPT ![w] = j]
    /\ pc' = [pc EXCEPT ![w] = "picked"]
    /\ UNCHANGED <<row, failures, copy, history>>

(* Mutant of Claim: the UPDATE names the id only.                           *)
BugClaimById(w) ==
    /\ pc[w] = "picked"
    /\ row' = IF Exists(job[w])
                THEN [row EXCEPT ![job[w]].status = "processing",
                                 ![job[w]].lease = LeaseTicks]
                ELSE row
    /\ Goto(w, "load")
    /\ UNCHANGED <<failures, history>>

(* ... take it if it is still ready ...                                     *)
Claim(w) ==
    /\ pc[w] = "picked"
    /\ Ready(job[w])
    /\ row' = [row EXCEPT ![job[w]].status = "processing", ![job[w]].lease = LeaseTicks]
    /\ Goto(w, "load")
    /\ UNCHANGED <<failures, history>>

ClaimMissed(w) ==
    /\ pc[w] = "picked"
    /\ ~Ready(job[w])
    /\ GoIdle(w)
    /\ UNCHANGED <<row, failures, history>>

(* ... and read it: a job whose payload cannot be decrypted is failed.      *)
Load(w) ==
    /\ pc[w] = "load"
    /\ Exists(job[w])
    /\ copy' = [copy EXCEPT ![w] = [attempts |-> row[job[w]].attempts,
                                    payload |-> row[job[w]].payload]]
    /\ pc' = [pc EXCEPT ![w] = IF row[job[w]].payload = "foreign" THEN "failed" ELSE "check"]
    /\ UNCHANGED <<row, failures, job, history>>

LoadMissing(w) ==
    /\ pc[w] = "load"
    /\ ~Exists(job[w])
    /\ GoIdle(w)
    /\ UNCHANGED <<row, failures, history>>

-----------------------------------------------------------------------------
(* processClaimedJob.  canDeliver: the row must still exist, ...            *)
Check(w) ==
    /\ pc[w] = "check"
    /\ IF Exists(job[w]) THEN Goto(w, "send") ELSE GoIdle(w)
    /\ UNCHANGED <<row, failures, history>>

(* ... and this instance must not be deleting the job's account (module     *)
(* AccountData): then the delivery is called off, and the row stays in      *)
(* processing until its lease ends or the deletion takes it.                *)
Cancelled(w) ==
    /\ pc[w] = "check"
    /\ faults < MaxFaults /\ faults' = faults + 1
    /\ GoIdle(w)
    /\ UNCHANGED <<row, failures, delivered, troubled, env>>

(* The provider takes the message and says so.                              *)
Taken(w) == delivered' = [delivered EXCEPT ![job[w]] = IF @ < Many THEN @ + 1 ELSE Many]
SendAccepted(w) ==
    /\ pc[w] = "send"
    /\ copy[w].payload \in Readable /\ "accepted" \in SendMessage(env)
    /\ Taken(w)
    /\ Goto(w, "sent")
    /\ UNCHANGED <<row, failures, troubled, faults, env>>

(* The provider refuses or cannot be reached, or the payload has been       *)
(* redacted already.                                                        *)
SendRefused(w) ==
    /\ pc[w] = "send"
    /\ copy[w].payload \in Readable => {"refused", "unanswered"} \cap SendMessage(env) # {}
    /\ Goto(w, "failed")
    /\ UNCHANGED <<row, failures, history>>

(* The provider takes the message but the answer is lost.                   *)
SendUnanswered(w) ==
    /\ pc[w] = "send"
    /\ copy[w].payload \in Readable /\ "unanswered" \in SendMessage(env)
    /\ faults < MaxFaults /\ faults' = faults + 1
    /\ troubled' = troubled \cup {job[w]}
    /\ Taken(w)
    /\ Goto(w, "failed")
    /\ UNCHANGED <<row, failures, env>>

(* markSucceeded: by id, whatever has happened to the row; a missing row is *)
(* ignored.                                                                 *)
MarkSucceeded(w) ==
    /\ pc[w] = "sent"
    /\ row' = IF Exists(job[w])
                THEN [row EXCEPT ![job[w]].status = "sent", ![job[w]].payload = "redacted",
                                 ![job[w]].lease = 0]
                ELSE row
    /\ GoIdle(w)
    /\ UNCHANGED <<failures, history>>

(* A database error in markSucceeded is caught like a failed delivery.      *)
MarkSucceededFails(w) ==
    /\ pc[w] = "sent"
    /\ faults < MaxFaults
    /\ faults' = faults + 1
    /\ troubled' = troubled \cup {job[w]}
    /\ Goto(w, "failed")
    /\ UNCHANGED <<row, failures, delivered, env>>

(* Mutant of Failed: one attempt too many.                                  *)
BugOneMoreAttempt(r, n) ==
    IF n > MaxAttempts
      THEN [r EXCEPT !.status = "dead_letter", !.attempts = n, !.payload = "redacted",
                     !.lease = 0]
      ELSE [r EXCEPT !.status = "pending", !.attempts = n, !.wait = Backoff(n), !.lease = 0]

(* markFailed counts from the copy read at the claim, writes by id and, in  *)
(* the same statement, adds to the job's failures.                          *)
Failed(r, n) ==
    IF n >= MaxAttempts
      THEN [r EXCEPT !.status = "dead_letter", !.attempts = n, !.payload = "redacted",
                     !.lease = 0]
      ELSE [r EXCEPT !.status = "pending", !.attempts = n, !.wait = Backoff(n), !.lease = 0]

MarkFailed(w) ==
    /\ pc[w] = "failed"
    /\ row' = IF Exists(job[w])
                THEN [row EXCEPT ![job[w]] = Failed(@, copy[w].attempts + 1)]
                ELSE row
    /\ failures' = [failures EXCEPT ![job[w]] =
                       IF Exists(job[w]) THEN @ + 1 ELSE @]
    /\ GoIdle(w)
    /\ UNCHANGED history

(* A statement outside the delivery's try block fails, and tick catches it, *)
(* or the API process dies: the consumer forgets the job, whose lease runs  *)
(* on.                                                                      *)
Abandon(w) ==
    /\ pc[w] \notin {"down", "idle"}
    /\ faults < MaxFaults /\ faults' = faults + 1
    /\ troubled' = troubled \cup {job[w]}
    /\ job' = [job EXCEPT ![w] = NoJob]
    /\ copy' = [copy EXCEPT ![w] = NoCopy]
    /\ UNCHANGED <<row, failures, delivered, env>>
PollFailed(w) == Abandon(w) /\ pc' = [pc EXCEPT ![w] = "idle"]
Crash(w) == Abandon(w) /\ pc' = [pc EXCEPT ![w] = "down"]

-----------------------------------------------------------------------------
(* One tick of time.  The two statements of a claim share one `now': no     *)
(* tick falls between them.  A lease that runs out in the hands of a        *)
(* working consumer troubles its job.                                       *)
Tick ==
    /\ \A w \in Worker : pc[w] # "picked"
    /\ \E j \in Job : row[j].wait > 0 \/ row[j].lease > 0
    /\ row' = [j \in Job |->
                 [row[j] EXCEPT !.wait = IF @ > 0 THEN @ - 1 ELSE 0,
                                !.lease = IF @ > 0 THEN @ - 1 ELSE 0]]
    /\ troubled' = troubled \cup {j \in Job : row[j].lease = 1 /\ WorkingOn(j) # {}}
    /\ UNCHANGED <<failures, workerVars, delivered, faults, env>>

Deliver(w) == \/ Check(w) \/ Cancelled(w) \/ SendAccepted(w) \/ SendRefused(w) \/ SendUnanswered(w)
Record(w) == MarkSucceeded(w) \/ MarkSucceededFails(w) \/ MarkFailed(w)
Acquire(w) == Poll(w) \/ Claim(w) \/ ClaimMissed(w) \/ Load(w) \/ LoadMissing(w)
Work(w) == Acquire(w) \/ Deliver(w) \/ Record(w)

Next ==
    \/ \E j \in Job : Enqueue(j) \/ DeleteJob(j)
    \/ \E w \in Worker : Work(w) \/ Start(w) \/ Shutdown(w) \/ PollFailed(w) \/ Crash(w)
    \/ Tick

Spec == Init /\ [][Next]_vars

(* An instance is started again, its consumer's timer fires for ever, a     *)
(* provider call ends, and time passes.  Nothing has to be published,       *)
(* deleted or to crash.                                                     *)
Fairness == WF_vars(Tick) /\ \A w \in Worker : WF_vars(Start(w) \/ Work(w))
FairSpec == Spec /\ Fairness

-----------------------------------------------------------------------------
(* Correctness.                                                            *)

(* However many consumers found the same job ready, one at a time works on  *)
(* it (claimReadyJob); it is sent at most once, and once sent it is recorded *)
(* so.  Only a crash, an error after the provider accepted the message or   *)
(* an expired lease takes a job out of this promise.                        *)
UntroubledOnce ==
    \A j \in Job \ troubled :
        /\ Cardinality(WorkingOn(j)) <= 1
        /\ delivered[j] <= 1
        /\ delivered[j] = 1 /\ WorkingOn(j) = {} => row[j].status \in {"sent", "deleted"}

(* A job is recorded as sent only if the provider accepted a message.       *)
SentWasDelivered == \A j \in Job : row[j].status = "sent" => delivered[j] > 0

(* Consumers that outlive their lease write an older attempt count, and one *)
(* that claimed the job before the last failure a count past the maximum;   *)
(* but a job never waits for a retry it does not have, is given up only     *)
(* with its attempts used up, and an undisturbed one is never tried more    *)
(* often than that (markFailed).                                            *)
AttemptsBounded ==
    \A j \in Job :
        /\ row[j].status \in {"pending", "processing"} => row[j].attempts < MaxAttempts
        /\ row[j].status = "dead_letter" => row[j].attempts >= MaxAttempts
        /\ j \notin troubled => row[j].attempts <= MaxAttempts

(* The phone number and the message are gone from a job that is over, in    *)
(* whatever order the consumers that had it recorded their outcomes, and    *)
(* from those of earlier versions once an instance has started.             *)
TerminalRedacted ==
    (\E w \in Worker : pc[w] # "down") => \A j \in Job : Terminal(j) => row[j].payload = "redacted"

(* The operators' log tells the truth about every job: an attempt counted   *)
(* is an attempt logged, although a late consumer may have set the count    *)
(* back, a job was given up only after as many logged failures as it had    *)
(* attempts, and for an undisturbed job count and log agree (markFailed).   *)
FailuresLogged ==
    \A j \in Job :
        /\ row[j].attempts <= failures[j]
        /\ row[j].status = "dead_letter" => failures[j] >= MaxAttempts
        /\ j \notin troubled => failures[j] = row[j].attempts

(* The jobs of the queue, whatever their consumers wrote late.              *)
JobRecordsSound ==
    TypeOK /\ SentWasDelivered /\ AttemptsBounded /\ TerminalRedacted /\ FailuresLogged

(* An API instance that came up has a provider that can take a message, or  *)
(* every job would burn its attempts: start-up asks for all that sending    *)
(* asks for (assertProviderConfiguration, sendMessage).                     *)
StartedCanSend == (\E w \in Worker : pc[w] # "down") => "accepted" \in SendMessage(env)

QueueSound == UntroubledOnce /\ JobRecordsSound /\ StartedCanSend

(* Every job is in the end sent, given up or deleted, and stays so.         *)
JobsSettle ==
    <>[](\A j \in Job : ~Exists(j) \/ Terminal(j))
-----------------------------------------------------------------------------
(* The inductive invariant behind QueueSound.                               *)

(* What a consumer knows: a job it names was published, the provider took   *)
(* the message of one it is about to record as sent, and the log has every  *)
(* failure that it has read of.                                             *)
Knows(w) ==
    /\ job[w] = NoJob <=> pc[w] \in {"down", "idle"}
    /\ job[w] = NoJob => copy[w] = NoCopy
    /\ \A j \in Job : job[w] = j =>
          /\ row[j].status # "absent"
          /\ pc[w] = "sent" => delivered[j] > 0
          /\ Exists(j) => copy[w].attempts <= failures[j]

(* What the row of a job says, disturbed or not.                            *)
Recorded(j) ==
    /\ row[j].status = "absent" => failures[j] = 0
    /\ row[j].status \in {"pending", "processing"} => row[j].attempts < MaxAttempts
    /\ row[j].status = "dead_letter" => row[j].attempts >= MaxAttempts
    /\ row[j].status = "sent" => delivered[j] > 0
    /\ row[j].attempts <= failures[j]

(* An undisturbed job belongs to the one consumer that works on it, whose   *)
(* lease runs and whose copy is the row's; it goes out in that consumer's   *)
(* hands and is recorded by it.  One that is processing in nobody's hands   *)
(* was called off before it went out.                                       *)
InHand(j, w) ==
    /\ row[j].status \in {"processing", "deleted"}
    /\ delivered[j] = IF pc[w] = "sent" THEN 1 ELSE 0
    /\ pc[w] # "load" /\ Exists(j) => copy[w].attempts = row[j].attempts

Undisturbed(j) ==
    /\ \A v, w \in WorkingOn(j) : v = w
    /\ \A w \in WorkingOn(j) : InHand(j, w)
    /\ row[j].status = "processing" /\ WorkingOn(j) # {} => row[j].lease > 0
    /\ row[j].status \in {"absent", "pending"} => delivered[j] = 0
    /\ delivered[j] <= 1
    /\ delivered[j] = 1 /\ WorkingOn(j) = {} => row[j].status \in {"sent", "deleted"}
    /\ failures[j] = row[j].attempts
    /\ row[j].attempts <= MaxAttempts

IInv ==
    /\ TypeOK
    /\ TerminalRedacted
    /\ \A j \in Job : Recorded(j) /\ (j \notin troubled => Undisturbed(j))
    /\ \A w \in Worker : Knows(w)
=============================================================================
