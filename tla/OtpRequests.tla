---------------------------- MODULE OtpRequests ----------------------------
(***************************************************************************)
(* POST /auth/request-otp for one phone (src/api/src/auth/auth.service.ts, *)
(* with enqueueOtpRequested of the notification queue): under a client's   *)
(* idempotency key a code row is created, an event recorded, a job that    *)
(* carries the code enqueued and the row marked complete, each by a        *)
(* statement of its own.  A request that died halfway is taken over by a   *)
(* retry with the same key once the row is older than the processing       *)
(* timeout; a job's foreign key keeps its code from being removed.  A job  *)
(* that an earlier version enqueued without a link is adopted instead.     *)
(*                                                                         *)
(* Ages are in steps: 1 the processing timeout, 2 the resend cooldown,     *)
(* 3 the hour of the rate limits.  Jobs outlive their delivery, so the     *)
(* queue's consumers do not appear here; nor does account deletion.        *)
(***************************************************************************)
EXTENDS Integers, FiniteSets

CONSTANTS
    Process,      \* concurrent requests for the phone
    Key,          \* idempotency keys
    None,
    MaxCodes,     \* bound: rows created
    HourlyLimit   \* AUTH_OTP_REQUEST_LIMIT_PER_HOUR

Code == 1..MaxCodes
Timeout == 1
Cooldown == 2
Hour == 3

ASSUME RequestAssumption ==
    /\ MaxCodes \in Nat /\ HourlyLimit \in Nat \ {0}
    /\ None \notin Code \cup Key
ASSUME ProcessAssumption == IsFiniteSet(Process) /\ Cardinality(Process) >= 2

VARIABLES
    row,     \* OtpCode rows
    job,     \* by deduplication key (one per idempotency key): the code it is linked to
    legacy,  \* the code for which an earlier version enqueued an unlinked job
    pc,      \* the statement each request executes next, or its last answer
    key,     \* its idempotency key
    code,    \* the row it created or found
    again,   \* it replays after its insert collided with another one
    acked    \* history: keys answered with ok

requestVars == <<pc, key, code, again>>
jobs == <<job, legacy>>
vars == <<row, jobs, requestVars, acked>>

Answers == {"idle", "ok", "busy", "refused", "error"}
Steps == {"lookup", "check", "adopt", "take", "recheck", "finish", "remove", "limits", "cooldown", "create",
          "event", "undo", "publish", "complete"}

Row == [status : {"present"}, key : Key, age : 0..Hour, done : BOOLEAN]
       \cup [status : {"absent", "deleted"}, key : {None}, age : {0}, done : {FALSE}]

NoRow == [status |-> "absent", key |-> None, age |-> 0, done |-> FALSE]

TypeOK ==
    /\ row \in [Code -> Row]
    /\ job \in [Key -> Code \cup {None}]
    /\ legacy \in Code \cup {None}
    /\ pc \in [Process -> Answers \cup Steps]
    /\ key \in [Process -> Key \cup {None}]
    /\ code \in [Process -> Code \cup {None}]
    /\ again \in [Process -> BOOLEAN]
    /\ acked \subseteq Key

(* What an earlier version may leave: requests it did not finish, whose     *)
(* codes were issued within ten minutes (expiresAt), the last with a job.   *)
Unfinished(n) ==
    {r \in [Code -> Row] :
        /\ \A c \in Code : IF c > n THEN r[c] = NoRow ELSE r[c].status = "present" /\ ~r[c].done
        /\ \A c, d \in 1..n : c < d => r[c].age >= r[d].age /\ r[c].key # r[d].key}
Init ==
    /\ \E n \in 0..2 : n <= MaxCodes /\ row \in Unfinished(n) /\ legacy = IF n = 0 THEN None ELSE n
    /\ job = [k \in Key |-> None]
    /\ pc = [p \in Process |-> "idle"]
    /\ key = [p \in Process |-> None]
    /\ code = [p \in Process |-> None]
    /\ again = [p \in Process |-> FALSE]
    /\ acked = {}

-----------------------------------------------------------------------------
Present == {c \in Code : row[c].status = "present"}
RowOf(k) == {c \in Present : row[c].key = k}
Recent == {c \in Present : row[c].age < Cooldown}
LastHour == {c \in Present : row[c].age < Hour}

Enqueued(k, c) == job[k] = c

Goto(p, step) ==
    /\ pc' = [pc EXCEPT ![p] = step]
    /\ UNCHANGED <<key, code, again, acked>>

Reply(p, answer) ==
    /\ pc' = [pc EXCEPT ![p] = answer]
    /\ key' = [key EXCEPT ![p] = None]
    /\ code' = [code EXCEPT ![p] = None]
    /\ again' = [again EXCEPT ![p] = FALSE]
    /\ acked' = IF answer = "ok" THEN acked \cup {key[p]} ELSE acked

(* What follows a replay that found nothing to answer with: the request     *)
(* goes on, or, after a collision, the insert's error is rethrown.          *)
NothingToReplay(p) ==
    IF again[p] THEN Reply(p, "error") ELSE Goto(p, "limits")

Remove(c) == [row EXCEPT ![c] = [NoRow EXCEPT !.status = "deleted"]]

(* An update by id fails on a missing row (one that account deletion took). *)
MarkDone(p, c) ==
    IF c \in Present
      THEN row' = [row EXCEPT ![c].done = TRUE] /\ Reply(p, "ok")
      ELSE UNCHANGED row /\ Reply(p, "error")

-----------------------------------------------------------------------------
Begin(p) ==
    /\ pc[p] \in Answers
    /\ \E k \in Key : key' = [key EXCEPT ![p] = k]
    /\ pc' = [pc EXCEPT ![p] = "lookup"]
    /\ UNCHANGED <<row, jobs, code, again, acked>>

(* replayOtpRequest: look up the key's row.                                 *)
Lookup(p) ==
    /\ pc[p] = "lookup"
    /\ \/ /\ RowOf(key[p]) = {}
          /\ NothingToReplay(p)
       \/ \E c \in RowOf(key[p]) :
             IF row[c].done
               THEN Reply(p, "ok")
               ELSE /\ code' = [code EXCEPT ![p] = c]
                    /\ pc' = [pc EXCEPT ![p] = "check"]
                    /\ UNCHANGED <<key, again, acked>>
    /\ UNCHANGED <<row, jobs>>

(* An incomplete row with its job only has to be marked; without one it is  *)
(* either still being worked on or, after the timeout, to be removed.       *)
Unqueued(p) ==
    IF row[code[p]].age >= Timeout \/ code[p] \notin Present THEN Goto(p, "remove")
    ELSE Reply(p, "busy")
Check(p) ==
    /\ pc[p] = "check"
    /\ Goto(p, IF Enqueued(key[p], code[p]) THEN "finish" ELSE "adopt")
    /\ UNCHANGED <<row, jobs>>

(* adoptLegacyOtpRequest: an unlinked job enqueued since the code was issued *)
(* is taken to be the code's ...                                            *)
FindLegacy(p) ==
    /\ pc[p] = "adopt"
    /\ IF legacy # None /\ legacy >= code[p] THEN Goto(p, "take") ELSE Unqueued(p)
    /\ UNCHANGED <<row, jobs>>

(* ... unless it has been taken or the key has a job by now.                *)
AdoptLegacy(p) ==
    /\ pc[p] = "take"
    /\ IF legacy = None \/ job[key[p]] # None
         THEN Goto(p, "recheck") /\ UNCHANGED jobs
       ELSE IF code[p] \notin Present
         THEN Reply(p, "error") /\ UNCHANGED jobs
       ELSE /\ job' = [job EXCEPT ![key[p]] = code[p]]
            /\ legacy' = None
            /\ Goto(p, "finish")
    /\ UNCHANGED row
Recheck(p) ==
    /\ pc[p] = "recheck"
    /\ IF Enqueued(key[p], code[p]) THEN Goto(p, "finish") ELSE Unqueued(p)
    /\ UNCHANGED <<row, jobs>>

Finish(p) ==
    /\ pc[p] = "finish"
    /\ MarkDone(p, code[p])
    /\ UNCHANGED jobs

(* The conditional DELETE: a job enqueued in the meantime stops it (foreign *)
(* key); a row completed or removed in the meantime is not counted.         *)
RemoveStale(p) ==
    /\ pc[p] = "remove"
    /\ code[p] \in Present
    /\ ~row[code[p]].done
    /\ ~Enqueued(key[p], code[p])
    /\ row' = Remove(code[p])
    /\ NothingToReplay(p)
    /\ UNCHANGED jobs

RemoveStopped(p) ==
    /\ pc[p] = "remove"
    /\ code[p] \in Present
    /\ ~row[code[p]].done
    /\ Enqueued(key[p], code[p])
    /\ Goto(p, "finish")
    /\ UNCHANGED <<row, jobs>>

RemoveMissed(p) ==
    /\ pc[p] = "remove"
    /\ code[p] \in Present => row[code[p]].done
    /\ Reply(p, "busy")
    /\ UNCHANGED <<row, jobs>>

-----------------------------------------------------------------------------
(* Bug: the codes of the last hour are not counted.                         *)
BugNoHourlyLimit(p) ==
    /\ pc[p] = "limits"
    /\ Reply(p, "refused") \/ Goto(p, "cooldown")
    /\ UNCHANGED <<row, jobs>>

(* The limit per phone; those per network and per device count events of    *)
(* other phones too and may refuse at any time.                             *)
Limits(p) ==
    /\ pc[p] = "limits"
    /\ \/ Reply(p, "refused")
       \/ Cardinality(LastHour) < HourlyLimit /\ Goto(p, "cooldown")
    /\ UNCHANGED <<row, jobs>>

Newest(S) == {c \in S : \A d \in S : d <= c}

(* Bug: only a recent code of the same key is looked for.                   *)
BugCooldownPerKey(p) ==
    /\ pc[p] = "cooldown"
    /\ IF Recent \cap RowOf(key[p]) = {} THEN Goto(p, "create")
       ELSE \E c \in Recent \cap RowOf(key[p]) :
               IF row[c].done THEN Reply(p, "ok") ELSE Reply(p, "busy")
    /\ UNCHANGED <<row, jobs>>

(* Bug: a recent row of the same key is answered as if it were complete.    *)
BugIncompleteIsOk(p) ==
    /\ pc[p] = "cooldown"
    /\ IF Recent = {} THEN Goto(p, "create")
       ELSE \E c \in Newest(Recent) :
               IF row[c].key = key[p] THEN Reply(p, "ok") ELSE Reply(p, "refused")
    /\ UNCHANGED <<row, jobs>>

(* The newest code inside the cooldown decides.                             *)
CooldownCheck(p) ==
    /\ pc[p] = "cooldown"
    /\ IF Recent = {} THEN Goto(p, "create")
       ELSE \E c \in Newest(Recent) :
               IF row[c].key # key[p] THEN Reply(p, "refused")
               ELSE IF row[c].done THEN Reply(p, "ok") ELSE Reply(p, "busy")
    /\ UNCHANGED <<row, jobs>>

(* requestKeyHash is unique: of two inserts one collides and replays.       *)
Create(p) ==
    /\ pc[p] = "create"
    /\ RowOf(key[p]) = {}
    /\ \E c \in Code :
          /\ \A d \in Code : row[d].status = "absent" <=> d >= c
          /\ row' = [row EXCEPT ![c] = [status |-> "present", key |-> key[p],
                                        age |-> 0, done |-> FALSE]]
          /\ code' = [code EXCEPT ![p] = c]
    /\ pc' = [pc EXCEPT ![p] = "event"]
    /\ UNCHANGED <<jobs, key, again, acked>>

CreateCollides(p) ==
    /\ pc[p] = "create"
    /\ RowOf(key[p]) # {}
    /\ again' = [again EXCEPT ![p] = TRUE]
    /\ pc' = [pc EXCEPT ![p] = "lookup"]
    /\ UNCHANGED <<row, jobs, key, code, acked>>

(* The otp_requested event; if it fails the row is taken back.              *)
EventRecorded(p) ==
    /\ pc[p] = "event"
    /\ code[p] \in Present
    /\ Goto(p, "publish")
    /\ UNCHANGED <<row, jobs>>

EventFails(p) ==
    /\ pc[p] = "event"
    /\ Goto(p, "undo")
    /\ UNCHANGED <<row, jobs>>

Undo(p) ==
    /\ pc[p] = "undo"
    /\ row' = IF code[p] \in Present /\ ~row[code[p]].done
                THEN Remove(code[p]) ELSE row
    /\ Reply(p, "error")
    /\ UNCHANGED jobs

(* Bug: jobs are not linked to their code by a foreign key.                 *)
BugPublishUnlinked(p) ==
    /\ pc[p] = "publish"
    /\ job[key[p]] = None
    /\ job' = [job EXCEPT ![key[p]] = code[p]]
    /\ Goto(p, "complete")
    /\ UNCHANGED <<row, legacy>>

(* enqueueOtpRequested: the deduplication key and the foreign key decide.   *)
Publish(p) ==
    /\ pc[p] = "publish"
    /\ code[p] \in Present
    /\ job[key[p]] = None
    /\ job' = [job EXCEPT ![key[p]] = code[p]]
    /\ Goto(p, "complete")
    /\ UNCHANGED <<row, legacy>>

PublishFails(p) ==
    /\ pc[p] = "publish"
    /\ code[p] \notin Present
    /\ Reply(p, "error")
    /\ UNCHANGED <<row, jobs>>

Complete(p) ==
    /\ pc[p] = "complete"
    /\ MarkDone(p, code[p])
    /\ UNCHANGED jobs

-----------------------------------------------------------------------------
(* A database error or the death of the process, before or after the        *)
(* statement took effect: the client gets no answer or a 500.               *)
Fail(p) ==
    /\ pc[p] \in Steps
    /\ Reply(p, "error")
    /\ UNCHANGED <<row, jobs>>

Tick ==
    /\ \E c \in Present : row[c].age < Hour
    /\ row' = [c \in Code |->
                 IF c \in Present /\ row[c].age < Hour
                   THEN [row[c] EXCEPT !.age = @ + 1] ELSE row[c]]
    /\ UNCHANGED <<jobs, requestVars, acked>>

Adopt(p) == FindLegacy(p) \/ AdoptLegacy(p) \/ Recheck(p)
Replay(p) == Lookup(p) \/ Check(p) \/ Adopt(p) \/ Finish(p) \/ RemoveStale(p)
             \/ RemoveStopped(p) \/ RemoveMissed(p)
Issue(p) == \/ Limits(p) \/ CooldownCheck(p) \/ Create(p) \/ CreateCollides(p)
            \/ EventRecorded(p) \/ EventFails(p) \/ Undo(p)
            \/ Publish(p) \/ PublishFails(p) \/ Complete(p)

Next ==
    \/ Tick
    \/ \E p \in Process : Begin(p) \/ Replay(p) \/ Issue(p) \/ Fail(p)

Spec == Init /\ [][Next]_vars

-----------------------------------------------------------------------------
(* Correctness.                                                            *)

(* A client that was told ok can count on its message: the code stored      *)
(* under its key exists, is complete, and is linked to the key's job,       *)
(* whichever of the requests that shared the key did the work.              *)
OkMeansQueued ==
    /\ \A k \in acked : \E c \in RowOf(k) : row[c].done
    /\ \A c \in Present : row[c].done => Enqueued(row[c].key, c)

(* Taking over an unfinished request never leaves a job whose code is gone  *)
(* or a second job for the code.                                            *)
JobsCarryRows ==
    \A k \in Key : job[k] # None => job[k] \in RowOf(k)
JobsSound == TypeOK /\ JobsCarryRows

(* Requests that check the cooldown, or the limit of one hour, at the same  *)
(* time may all pass it, but no further one does: the codes that count,     *)
(* with the requests that passed and have not created theirs yet, are at    *)
(* most one too many per further request in flight.                         *)
At(steps) == {p \in Process : pc[p] \in steps}
LimitsBounded ==
    /\ Cardinality(Recent) + Cardinality(At({"create"})) <= Cardinality(Process)
    /\ Cardinality(LastHour) + Cardinality(At({"cooldown", "create"}))
          < HourlyLimit + Cardinality(Process)

-----------------------------------------------------------------------------
(* The inductive invariant behind these properties.                        *)
Issuing == {"event", "undo", "publish"}
Working == Issuing \cup {"check", "adopt", "take", "recheck", "finish", "remove", "complete"}

(* A request that works on a code has it from its key's row, and marks it   *)
(* done only once the key's job carries it.                                 *)
RequestFits ==
    \A p \in Process :
        /\ pc[p] \in Steps => key[p] \in Key
        /\ pc[p] \in Working =>
              /\ code[p] \in Code
              /\ row[code[p]].status # "absent"
              /\ code[p] \in Present => row[code[p]].key = key[p]
        /\ pc[p] \in {"finish", "complete"} => Enqueued(key[p], code[p])

(* Every code in the making has one request of its own, and no job yet.     *)
IssuedByOne ==
    \A p \in Process : pc[p] \in Issuing =>
        /\ \A q \in Process : pc[q] \in Issuing /\ code[q] = code[p] => q = p
        /\ \A k \in Key : job[k] # code[p]

(* The unlinked job is older than every code in the making, so that no      *)
(* request adopts it for one of them.                                       *)
LegacyOlder ==
    legacy # None =>
        /\ row[legacy].status # "absent"
        /\ \A p \in Process : pc[p] = "take" => code[p] <= legacy
        /\ \A p \in Process : pc[p] \in Issuing => legacy < code[p]

IInv ==
    /\ TypeOK
    /\ JobsCarryRows
    /\ OkMeansQueued
    /\ RequestFits
    /\ IssuedByOne
    /\ LegacyOlder
    /\ LimitsBounded
=============================================================================
