-------------------------- MODULE OtpVerification --------------------------
(***************************************************************************)
(* POST /auth/verify-otp for one phone (src/api/src/auth/auth.service.ts): *)
(* concurrent requests, each with an idempotency key, a guessed code and a *)
(* device, look up a stored answer, pick the newest live code, compare,    *)
(* count a wrong guess or consume the code and mint a session in one       *)
(* transaction that also stores the answer under the key.                  *)
(*                                                                         *)
(* Every database statement is a step.  `held' are the OtpCode rows an     *)
(* open statement or transaction has consumed without having committed;    *)
(* other writers of those rows wait.  A multi-row UPDATE picks its rows    *)
(* when it starts and locks them one by one, in no particular order.  The  *)
(* session itself is a row of module RefreshSessions; here it is counted.  *)
(* Codes are numbered in creation order and have different digits.  Time   *)
(* only matters through the two ten-minute limits, which may pass at any   *)
(* moment.                                                                 *)
(***************************************************************************)
EXTENDS Integers, FiniteSets

CONSTANTS
    Process,      \* concurrent verify requests for the phone
    Key,          \* idempotency keys
    Device,       \* what hashOtpVerificationRequest covers
    None,
    MaxCodes,     \* bound: codes created
    MaxAttempts,  \* AUTH_OTP_MAX_VERIFY_ATTEMPTS
    MaxFaults     \* bound: database errors and process deaths

Code == 1..MaxCodes

ASSUME VerifyAssumption ==
    /\ MaxCodes \in Nat /\ MaxAttempts \in Nat \ {0} /\ MaxFaults \in Nat
    /\ None \notin Code \cup Key \cup Device

VARIABLES
    row,      \* OtpCode rows
    pc,       \* the statement each request executes next
    req,      \* its key, guessed code and device
    rec,      \* the code it works on, with the attempts it read
    goal,     \* what its retiring UPDATE belongs to: mint, lock or none
    targets,  \* rows that UPDATE picked
    held,     \* rows it has consumed, uncommitted
    replies,  \* history: successful answers sent
    closed,   \* history: codes consumed by a committed verification or lockout
    faults

requestVars == <<pc, req, rec, goal, targets, held>>
vars == <<row, requestVars, replies, closed, faults>>

Row == [status   : {"absent", "live", "consumed"},
        expired  : BOOLEAN,            \* expiresAt has passed
        attempts : 0..MaxAttempts,     \* verifyAttempts
        key      : Key \cup {None},     \* verificationKeyHash
        device   : Device \cup {None},  \* verificationRequestHash
        window   : BOOLEAN,            \* the replay window is open
        minted   : 0..2]               \* sessions committed for it (saturates)

(* A guess is the digits of a code that exists, or of none.                 *)
Request == [key : Key, guess : Code \cup {None}, device : Device]
Reply == [key : Key, code : Code, nth : 1..2]

NoRow == [status |-> "absent", expired |-> FALSE, attempts |-> 0, key |-> None,
          device |-> None, window |-> FALSE, minted |-> 0]
NoRequest == [key |-> None, guess |-> None, device |-> None]
NoRecord == [code |-> None, attempts |-> 0, inTime |-> FALSE]

TypeOK ==
    /\ row \in [Code -> Row]
    /\ pc \in [Process -> {"idle", "served", "limits", "find", "compare", "wrong",
                         "consume", "pick", "retire", "catch"}]
    /\ req \in [Process -> Request \cup {NoRequest}]
    /\ rec \in [Process -> [code : Code \cup {None}, attempts : 0..MaxAttempts, inTime : BOOLEAN]]
    /\ goal \in [Process -> {"none", "mint", "lock"}]
    /\ targets \in [Process -> SUBSET Code]
    /\ held \in [Process -> SUBSET Code]
    /\ replies \subseteq Reply
    /\ closed \subseteq Code
    /\ faults \in 0..MaxFaults

Init ==
    /\ row = [c \in Code |-> NoRow]
    /\ pc = [p \in Process |-> "idle"]
    /\ req = [p \in Process |-> NoRequest]
    /\ rec = [p \in Process |-> NoRecord]
    /\ goal = [p \in Process |-> "none"]
    /\ targets = [p \in Process |-> {}]
    /\ held = [p \in Process |-> {}]
    /\ replies = {}
    /\ closed = {}
    /\ faults = 0

-----------------------------------------------------------------------------
Created == {c \in Code : row[c].status # "absent"}
LiveCodes == {c \in Code : row[c].status = "live"}
Selectable == {c \in LiveCodes : ~row[c].expired}
Started(p) == pc[p] \notin {"idle", "served"}
LockedBy(c) == {p \in Process : c \in held[p]}

(* replayOtpVerification: the row stored under the key, if any ...          *)
Stored(k) == {c \in Code : row[c].key = k}

(* ... answers a request with the same code and device inside the window.   *)
Answers(c, q) ==
    /\ row[c].key = q.key
    /\ q.guess = c
    /\ row[c].device = q.device
    /\ row[c].window

Answer(q) == {[key |-> q.key, code |-> c, nth |-> row[c].minted] :
                c \in {d \in Stored(q.key) : Answers(d, q)}}

Goto(p, step) ==
    /\ pc' = [pc EXCEPT ![p] = step]
    /\ UNCHANGED <<req, rec, goal, targets, held>>

(* Bug: a request leaves with its transaction still open.                   *)
BugLeftOpen(p, as) ==
    /\ pc' = [pc EXCEPT ![p] = as]
    /\ req' = [req EXCEPT ![p] = NoRequest]
    /\ rec' = [rec EXCEPT ![p] = NoRecord]
    /\ goal' = [goal EXCEPT ![p] = "none"]
    /\ targets' = [targets EXCEPT ![p] = {}]
    /\ UNCHANGED held

(* Leaving a request ends its transaction as well.                          *)
Leave(p, as) ==
    /\ pc' = [pc EXCEPT ![p] = as]
    /\ req' = [req EXCEPT ![p] = NoRequest]
    /\ rec' = [rec EXCEPT ![p] = NoRecord]
    /\ goal' = [goal EXCEPT ![p] = "none"]
    /\ targets' = [targets EXCEPT ![p] = {}]
    /\ held' = [held EXCEPT ![p] = {}]

(* The answers leave with a 200, or there is none and an error leaves.      *)
Refuse(p) == Leave(p, "idle")
Serve(p, answers) == Leave(p, "served") /\ replies' = replies \cup answers

ServeStored(p) ==
    IF Answer(req[p]) = {} THEN Refuse(p) /\ UNCHANGED replies
                           ELSE Serve(p, Answer(req[p]))

(* The transaction rolls back; issueVerifiedSession looks for an answer.    *)
Rollback(p) ==
    /\ pc' = [pc EXCEPT ![p] = "catch"]
    /\ goal' = [goal EXCEPT ![p] = "none"]
    /\ targets' = [targets EXCEPT ![p] = {}]
    /\ held' = [held EXCEPT ![p] = {}]
    /\ UNCHANGED <<req, rec>>

-----------------------------------------------------------------------------
(* requestOtp creates a code; the two ten-minute limits pass, for an older  *)
(* code first.                                                              *)
NewCode(c) ==
    /\ row[c].status = "absent"
    /\ 1..(c - 1) \subseteq Created
    /\ row' = [row EXCEPT ![c].status = "live"]
    /\ UNCHANGED <<requestVars, replies, closed, faults>>

Expire(c) ==
    /\ row[c].status = "live"
    /\ ~row[c].expired
    /\ \A d \in Selectable : c <= d
    /\ row' = [row EXCEPT ![c].expired = TRUE]
    /\ UNCHANGED <<requestVars, replies, closed, faults>>

WindowCloses(c) ==
    /\ row[c].window
    /\ row' = [row EXCEPT ![c].window = FALSE]
    /\ UNCHANGED <<requestVars, replies, closed, faults>>

-----------------------------------------------------------------------------
(* The first lookup under the key: the stored answer, a 409 (which leaves   *)
(* no trace), or nothing.                                                   *)
Begin(p) ==
    /\ ~Started(p)
    /\ \E q \in [key : Key, guess : Created \cup {None}, device : Device] :
          \/ /\ Answer(q) # {}
             /\ Serve(p, Answer(q))
          \/ /\ Stored(q.key) = {}
             /\ req' = [req EXCEPT ![p] = q]
             /\ pc' = [pc EXCEPT ![p] = "limits"]
             /\ UNCHANGED <<rec, goal, targets, held, replies>>
    /\ UNCHANGED <<row, closed, faults>>

(* Too many recent failures from the network or the device: 429.            *)
LimitReached(p) ==
    /\ pc[p] = "limits"
    /\ Refuse(p)
    /\ UNCHANGED <<row, replies, closed, faults>>

WithinLimits(p) ==
    /\ pc[p] = "limits"
    /\ Goto(p, "find")
    /\ UNCHANGED <<row, replies, closed, faults>>

(* The newest code that is neither consumed nor expired.                    *)
Find(p) ==
    /\ pc[p] = "find"
    /\ \E c \in Selectable :
          /\ \A d \in Selectable : d <= c
          /\ rec' = [rec EXCEPT ![p] = [code |-> c, attempts |-> row[c].attempts,
                                        inTime |-> FALSE]]
    /\ pc' = [pc EXCEPT ![p] = "compare"]
    /\ UNCHANGED <<row, req, goal, targets, held, replies, closed, faults>>

(* Bug: no second lookup under the key.                                     *)
BugNoSecondLookup(p) ==
    /\ pc[p] = "find"
    /\ Selectable = {}
    /\ Refuse(p)
    /\ UNCHANGED <<row, replies, closed, faults>>

(* No live code: a verification with the same key may have just committed.  *)
FindNone(p) ==
    /\ pc[p] = "find"
    /\ Selectable = {}
    /\ ServeStored(p)
    /\ UNCHANGED <<row, closed, faults>>

(* bcrypt; a right guess fixes consumedAt, which the UPDATE compares with   *)
(* expiresAt.  (An unconsumed row never has used up its attempts: the write *)
(* of the last attempt consumes it.)                                        *)
Compare(p) ==
    /\ pc[p] = "compare"
    /\ LET c == rec[p].code IN
       IF req[p].guess = c
         THEN /\ rec' = [rec EXCEPT ![p].inTime = ~row[c].expired]
              /\ pc' = [pc EXCEPT ![p] = "consume"]
         ELSE /\ pc' = [pc EXCEPT ![p] = "wrong"]
              /\ UNCHANGED rec
    /\ UNCHANGED <<row, req, goal, targets, held, replies, closed, faults>>

-----------------------------------------------------------------------------
(* A wrong guess writes the count it read plus one, by id; the last one     *)
(* consumes the code and goes on to retire the others.                      *)
WrongGuess(p) ==
    LET c == rec[p].code
        n == rec[p].attempts + 1
    IN  /\ pc[p] = "wrong"
        /\ LockedBy(c) = {}
        /\ IF n >= MaxAttempts
             THEN /\ row' = [row EXCEPT ![c].attempts = n, ![c].status = "consumed"]
                  /\ closed' = closed \cup {c}
                  /\ pc' = [pc EXCEPT ![p] = "pick"]
                  /\ goal' = [goal EXCEPT ![p] = "lock"]
                  /\ UNCHANGED <<req, rec, targets, held>>
             ELSE /\ row' = [row EXCEPT ![c].attempts = n]
                  /\ Refuse(p)
                  /\ UNCHANGED closed
        /\ UNCHANGED <<replies, faults>>

-----------------------------------------------------------------------------
(* Bug: the code is consumed by id, whether or not it is still live.        *)
BugConsumeById(p) ==
    LET c == rec[p].code
    IN  /\ pc[p] = "consume"
        /\ LockedBy(c) = {}
        /\ rec[p].inTime
        /\ held' = [held EXCEPT ![p] = {c}]
        /\ goal' = [goal EXCEPT ![p] = "mint"]
        /\ pc' = [pc EXCEPT ![p] = "pick"]
        /\ UNCHANGED <<row, req, rec, targets, replies, closed, faults>>

(* issueVerifiedSession: consume the code if it is still live ...           *)
Consume(p) ==
    LET c == rec[p].code
    IN  /\ pc[p] = "consume"
        /\ LockedBy(c) = {}
        /\ row[c].status = "live"
        /\ rec[p].inTime
        /\ held' = [held EXCEPT ![p] = {c}]
        /\ goal' = [goal EXCEPT ![p] = "mint"]
        /\ pc' = [pc EXCEPT ![p] = "pick"]
        /\ UNCHANGED <<row, req, rec, targets, replies, closed, faults>>

ConsumeLost(p) ==
    LET c == rec[p].code
    IN  /\ pc[p] = "consume"
        /\ LockedBy(c) = {}
        /\ row[c].status # "live" \/ ~rec[p].inTime
        /\ Rollback(p)
        /\ UNCHANGED <<row, replies, closed, faults>>

(* ... and every other live code: the rows are picked, then locked one by   *)
(* one; a row consumed in between is skipped.  retireLiveOtpsForUser is the *)
(* same UPDATE, in a transaction of its own.                                *)
Pick(p) ==
    /\ pc[p] = "pick"
    /\ targets' = [targets EXCEPT ![p] = LiveCodes \ held[p]]
    /\ pc' = [pc EXCEPT ![p] = "retire"]
    /\ UNCHANGED <<row, req, rec, goal, held, replies, closed, faults>>

Retire(p) ==
    /\ pc[p] = "retire"
    /\ \E c \in targets[p] :
          /\ LockedBy(c) = {}
          /\ targets' = [targets EXCEPT ![p] = @ \ {c}]
          /\ held' = [held EXCEPT ![p] = IF row[c].status = "live" THEN @ \cup {c} ELSE @]
    /\ UNCHANGED <<row, pc, req, rec, goal, replies, closed, faults>>

Consumed(p) == [c \in Code |-> IF c \in held[p] THEN [row[c] EXCEPT !.status = "consumed"]
                                                ELSE row[c]]

(* The lockout is complete; the caller is told to request a new code.       *)
CommitLock(p) ==
    /\ pc[p] = "retire"
    /\ goal[p] = "lock"
    /\ targets[p] = {}
    /\ row' = Consumed(p)
    /\ closed' = closed \cup held[p]
    /\ Refuse(p)
    /\ UNCHANGED <<replies, faults>>

(* Bug: the key is not unique among the codes.                              *)
BugKeyNotUnique(p) ==
    LET c == rec[p].code
        q == req[p]
        n == IF row[c].minted < 2 THEN row[c].minted + 1 ELSE 2
    IN  /\ pc[p] = "retire"
        /\ goal[p] = "mint"
        /\ targets[p] = {}
        /\ row' = [Consumed(p) EXCEPT ![c].key = q.key, ![c].device = q.device,
                                      ![c].window = TRUE, ![c].minted = n]
        /\ closed' = closed \cup held[p]
        /\ Serve(p, {[key |-> q.key, code |-> c, nth |-> n]})
        /\ UNCHANGED faults

(* The session is inserted, the answer stored under the key, and all of it  *)
(* commits.                                                                 *)
CommitMint(p) ==
    LET c == rec[p].code
        q == req[p]
        n == IF row[c].minted < 2 THEN row[c].minted + 1 ELSE 2
    IN  /\ pc[p] = "retire"
        /\ goal[p] = "mint"
        /\ targets[p] = {}
        /\ Stored(q.key) = {}
        /\ row' = [Consumed(p) EXCEPT ![c].key = q.key, ![c].device = q.device,
                                      ![c].window = TRUE, ![c].minted = n]
        /\ closed' = closed \cup held[p]
        /\ Serve(p, {[key |-> q.key, code |-> c, nth |-> n]})
        /\ UNCHANGED faults

(* The key is taken by another code by now: verificationKeyHash is unique.  *)
KeyTaken(p) ==
    /\ pc[p] = "retire"
    /\ goal[p] = "mint"
    /\ targets[p] = {}
    /\ Stored(req[p].key) # {}
    /\ Rollback(p)
    /\ UNCHANGED <<row, replies, closed, faults>>

(* Any error of the transaction: a stored answer under the key is returned  *)
(* instead of it.                                                           *)
Catch(p) ==
    /\ pc[p] = "catch"
    /\ ServeStored(p)
    /\ UNCHANGED <<row, closed, faults>>

-----------------------------------------------------------------------------
(* The requests whose rows a statement waits for.                           *)
BlockedBy(p) ==
    CASE pc[p] \in {"wrong", "consume"} -> LockedBy(rec[p].code)
      [] pc[p] = "retire" /\ \A c \in targets[p] : LockedBy(c) # {}
                            -> UNION {LockedBy(c) : c \in targets[p]}
      [] OTHER -> {}

(* PostgreSQL ends a cycle of waiting transactions by failing one of them.  *)
Deadlocked(p) ==
    \E n \in 1..Cardinality(Process) : \E f \in [0..n -> Process] :
        /\ f[0] = p /\ f[n] = p
        /\ \A i \in 1..n : f[i] \in BlockedBy(f[i - 1])

(* An error in the transaction is caught; in the lockout's UPDATE it is not.*)
Abort(p) == IF goal[p] = "mint" THEN Rollback(p) ELSE Refuse(p)

BreakDeadlock(p) ==
    /\ Deadlocked(p)
    /\ Abort(p)
    /\ UNCHANGED <<row, replies, closed, faults>>

(* A database or signing error: the open transaction rolls back.            *)
Fail(p) ==
    /\ Started(p)
    /\ faults < MaxFaults
    /\ faults' = faults + 1
    /\ Abort(p)
    /\ UNCHANGED <<row, replies, closed>>

(* The API process dies.                                                    *)
Crash(p) ==
    /\ Started(p)
    /\ faults < MaxFaults
    /\ faults' = faults + 1
    /\ Refuse(p)
    /\ UNCHANGED <<row, replies, closed>>

Mint(p) == Consume(p) \/ ConsumeLost(p) \/ CommitMint(p) \/ KeyTaken(p) \/ Catch(p)
Lookup(p) == LimitReached(p) \/ WithinLimits(p) \/ Find(p) \/ FindNone(p) \/ Compare(p)
Advance(p) == \/ Lookup(p) \/ WrongGuess(p) \/ Mint(p)
              \/ Pick(p) \/ Retire(p) \/ CommitLock(p)

Next ==
    \/ \E c \in Code : NewCode(c) \/ Expire(c) \/ WindowCloses(c)
    \/ \E p \in Process : Begin(p) \/ Advance(p) \/ BreakDeadlock(p) \/ Fail(p) \/ Crash(p)

Spec == Init /\ [][Next]_vars

-----------------------------------------------------------------------------
(* Correctness.                                                            *)

(* A code mints at most one session, however many requests hold it at once  *)
(* and whatever is retried (the conditional consume).                       *)
OneSessionPerCode == \A c \in Code : row[c].minted <= 1

(* All successful answers under one idempotency key are the same session,   *)
(* and that session has been committed (issueVerifiedSession,               *)
(* replayOtpVerification).                                                  *)
SameAnswer ==
    \A r \in replies :
        /\ row[r.code].key = r.key
        /\ row[r.code].minted >= r.nth
        /\ \A s \in replies : s.key = r.key => s = r

(* A session is minted only from a code that no committed verification or   *)
(* lockout has retired, although the code was read before the transaction.  *)
RetiredNeverMints ==
    [][\A c \in closed : row'[c].minted = row[c].minted]_vars

(* A code that was consumed or retired does not come back to life: late     *)
(* writes of wrong guesses leave consumedAt alone.                          *)
ClosedStaysConsumed == \A c \in closed : row[c].status = "consumed"

(* The codes of a user, in every state.                                     *)
CodesSound == TypeOK /\ OneSessionPerCode /\ ClosedStaysConsumed

(* Whatever happens between its lookups, a request that passed the limits   *)
(* is answered with the result stored for exactly it, not with an error, as *)
(* long as no newer code has been created: every path on which the code is  *)
(* gone looks once more under the key.                                      *)
Refused(p) == Started(p) /\ pc[p] # "limits" /\ pc'[p] = "idle" /\ faults' = faults
Newest(c) == \A d \in Created : d <= c

OwnResultFound ==
    [][\A p \in Process : \A c \in Created :
          Answers(c, req[p]) /\ Newest(c) => ~Refused(p)]_vars

(* What a verification may never do in a step: refuse a request its own     *)
(* stored answer, or mint from a retired code.                              *)
VerificationSteps == OwnResultFound /\ RetiredNeverMints

(* Only a transaction that still retires codes is waited for, and only such *)
(* transactions wait in a cycle, whichever rows they picked: a wrong guess  *)
(* or a consumption never takes part in one, and no request that was        *)
(* answered or looks for a stored answer has kept a row.                    *)
RetirementsHold ==
    \A p \in Process :
        /\ \A q \in BlockedBy(p) : pc[q] \in {"pick", "retire"}
        /\ Deadlocked(p) => pc[p] = "retire"

(* Waiting ends: a request that waits for nobody can go on, one that waits  *)
(* does so for open transactions, and these go on in turn or stand in a     *)
(* cycle that the database breaks at one of them (issueVerifiedSession,     *)
(* retireLiveOtpsForUser), whose rows are then free.                        *)
WaitsEnd ==
    /\ RetirementsHold
    /\ \A p \in Process : Started(p) /\ BlockedBy(p) = {} => ENABLED Advance(p)

-----------------------------------------------------------------------------
(* The inductive invariant behind CodesSound, SameAnswer and the steps.     *)

(* A code that is not consumed has no answer, and one that has an answer    *)
(* has one session; the write of the last attempt consumes the code.        *)
RowsFit ==
    \A c \in Code :
        /\ row[c].minted = IF row[c].key = None THEN 0 ELSE 1
        /\ row[c].status # "consumed" => row[c].key = None /\ row[c].attempts < MaxAttempts
        /\ row[c].status = "absent" => ~ row[c].expired

KeysUnique == \A c, d \in Code : row[c].key # None /\ row[d].key = row[c].key => c = d

(* Codes are created one after the other and expire in that order, and the  *)
(* verification of one has retired all that are older.                      *)
InOrder ==
    \A c \in Created : \A d \in Code :
        d < c => /\ d \in Created
                 /\ d \in Selectable => ~ (row[c].status = "live" /\ row[c].expired)
                 /\ d \in LiveCodes => row[c].key = None

(* What a request knows: it compares a guess with the newest code it found, *)
(* so that a guess of a newer one was already settled without an answer.    *)
Reading(p) == pc[p] \in {"compare", "wrong", "consume", "pick", "retire"}
Knows(p) ==
    /\ Started(p) => req[p] \in Request /\ req[p].guess \in Created \cup {None}
    /\ rec[p].attempts < MaxAttempts
    /\ Reading(p) =>
          /\ rec[p].code \in Created
          /\ req[p].guess \in Code /\ req[p].guess > rec[p].code =>
                row[req[p].guess].status = "consumed" /\ row[req[p].guess].key = None
    /\ pc[p] = "consume" \/ goal[p] = "mint" => req[p].guess = rec[p].code
    /\ pc[p] = "wrong" \/ goal[p] = "lock" => req[p].guess # rec[p].code

(* What its transaction holds: live codes, among them the one it verifies,  *)
(* and in the end every older one.                                          *)
Holds(p) ==
    /\ goal[p] # "none" <=> pc[p] \in {"pick", "retire"}
    /\ goal[p] = "none" => held[p] = {}
    /\ goal[p] = "mint" => rec[p].code \in held[p]
    /\ held[p] \subseteq LiveCodes
    /\ pc[p] = "retire" /\ goal[p] = "mint" =>
          \A d \in LiveCodes : d < rec[p].code => d \in held[p] \cup targets[p]

HeldByOne == \A p, q \in Process : p # q => held[p] \cap held[q] = {}

IInv ==
    /\ TypeOK
    /\ RowsFit
    /\ KeysUnique
    /\ InOrder
    /\ \A p \in Process : Knows(p) /\ Holds(p)
    /\ HeldByOne
    /\ ClosedStaysConsumed
    /\ SameAnswer
=============================================================================
