-------------------------- MODULE RefreshSessions --------------------------
(***************************************************************************)
(* The refresh-token sessions of one user: sign-in, rotation, logout and   *)
(* reuse detection (src/api/src/auth/auth.service.ts), run by API requests *)
(* that interleave at the granularity of their PostgreSQL statements.      *)
(*                                                                         *)
(* A family is named by the first token issued in it.  `row' holds the     *)
(* committed RefreshToken rows; `revoking' the rows that an open           *)
(* transaction has revoked without having committed yet, and whose row     *)
(* locks it therefore holds.  A row inserted by an open transaction is     *)
(* invisible to all others until the commit, so the insert, the statements *)
(* after it and the commit are one step.  Isolation is READ COMMITTED: an  *)
(* UPDATE picks its rows from the committed state when the statement       *)
(* starts, waits for their row locks, and re-tests only the rows it        *)
(* picked.  Rows are never deleted here (account deletion is outside this  *)
(* module), so the immutable columns a request read before its transaction *)
(* are read again from `row'.                                              *)
(***************************************************************************)
EXTENDS Integers, FiniteSets

CONSTANTS
    Process,      \* concurrent API requests on behalf of the user
    Token,        \* refresh-token rows (a bound: at most this many are issued)
    Device,       \* device hashes
    None,         \* null
    MaxFamilies,  \* AUTH_REFRESH_MAX_FAMILIES_PER_USER
    TokenTtl,     \* AUTH_REFRESH_TOKEN_EXPIRES_IN, in clock ticks
    FamilyMaxAge, \* AUTH_REFRESH_FAMILY_MAX_AGE, in clock ticks
    MaxClock      \* bound: the clock stops here

ASSUME NoneAssumption == None \notin Process \cup Token \cup Device
ASSUME TokenAssumption == IsFiniteSet(Token)
ASSUME LimitsAssumption ==
    /\ MaxFamilies \in Nat \ {0}
    /\ TokenTtl \in Nat \ {0}
    /\ FamilyMaxAge \in Nat \ {0}
    /\ MaxClock \in Nat

VARIABLES
    clock,     \* Date.now(), in ticks
    row,       \* committed RefreshToken rows
    lock,      \* holder of the user's transaction-scoped advisory lock
    pc,        \* the statement each request executes next
    goal,      \* what the request's transaction does: rotate, family, user, signIn
    tok,       \* the presented token (or, in a sign-in, null)
    dev,       \* the presented device hash, or null
    born,      \* familyCreatedAt computed by a sign-in before its transaction
    targets,   \* rows picked by the snapshot of a revoking UPDATE
    revoking,  \* rows revoked by the request's open transaction, uncommitted
    ended      \* history: families closed by a committed revocation or sign-in

requestVars == <<pc, goal, tok, dev, born, targets, revoking>>
vars == <<clock, row, lock, requestVars, ended>>

Row == [status  : {"absent", "live", "revoked"},
        family  : Token \cup {None},
        device  : Device \cup {None},
        born    : Nat,
        expires : Nat,
        next    : Token \cup {None}]

NoRow == [status |-> "absent", family |-> None, device |-> None,
          born |-> 0, expires |-> 0, next |-> None]

Goals == {"none", "rotate", "family", "user", "signIn"}
Steps == {"idle", "retire", "lock", "claim", "recheck",
          "snapshot", "apply", "replace", "evict", "issue", "commit"}

TypeOK ==
    /\ clock \in Nat
    /\ row \in [Token -> Row]
    /\ lock \in Process \cup {None}
    /\ pc \in [Process -> Steps]
    /\ goal \in [Process -> Goals]
    /\ tok \in [Process -> Token \cup {None}]
    /\ dev \in [Process -> Device \cup {None}]
    /\ born \in [Process -> Nat]
    /\ targets \in [Process -> SUBSET Token]
    /\ revoking \in [Process -> SUBSET Token]
    /\ ended \in SUBSET Token

Init ==
    /\ clock = 0
    /\ row = [t \in Token |-> NoRow]
    /\ lock = None
    /\ pc = [p \in Process |-> "idle"]
    /\ goal = [p \in Process |-> "none"]
    /\ tok = [p \in Process |-> None]
    /\ dev = [p \in Process |-> None]
    /\ born = [p \in Process |-> 0]
    /\ targets = [p \in Process |-> {}]
    /\ revoking = [p \in Process |-> {}]
    /\ ended = {}

-----------------------------------------------------------------------------
(* Reading the table.                                                      *)

Present == {t \in Token : row[t].status # "absent"}
Live == {t \in Token : row[t].status = "live"}
FamiliesOf(S) == {row[t].family : t \in S}
LiveIn(F) == {t \in Live : row[t].family \in F}

Expired(t) == row[t].expires <= clock
FamilyTooOld(t) == row[t].born + FamilyMaxAge <= clock

(* A bound family answers only the device it is bound to.                   *)
DeviceMatches(t, d) == row[t].device = None \/ row[t].device = d

(* An uncommitted write of another transaction makes a writer wait.         *)
RowLocked(t, p) == \E q \in Process \ {p} : t \in revoking[q]
CanWrite(S, p) == \A t \in S : ~RowLocked(t, p)

(* Ids are random UUIDs: a new row takes one that nobody uses.              *)
Unused == Token \ Present

(* Bound: a request that may insert a row starts only while an id is left   *)
(* for it, so that running out of ids never blocks a transaction.           *)
Inserting == {p \in Process : goal[p] \in {"rotate", "signIn"}}
RoomForInsert == Cardinality(Unused) > Cardinality(Inserting)

(* The rows of a revoking UPDATE: one family, or every family of the user.  *)
Scope(p) == IF goal[p] = "user" THEN FamiliesOf(Present)
                                ELSE FamiliesOf({tok[p]})

-----------------------------------------------------------------------------
(* Leaving a request: the transaction is over, the reply is on its way.     *)

Forget(p) ==
    /\ pc' = [pc EXCEPT ![p] = "idle"]
    /\ goal' = [goal EXCEPT ![p] = "none"]
    /\ tok' = [tok EXCEPT ![p] = None]
    /\ dev' = [dev EXCEPT ![p] = None]
    /\ born' = [born EXCEPT ![p] = 0]
    /\ targets' = [targets EXCEPT ![p] = {}]
    /\ revoking' = [revoking EXCEPT ![p] = {}]

ReleaseLock(p) == lock' = IF lock = p THEN None ELSE lock

Goto(p, step) ==
    /\ pc' = [pc EXCEPT ![p] = step]
    /\ UNCHANGED <<goal, tok, dev, born, targets, revoking>>

Enter(p, g, t, d, step) ==
    /\ pc' = [pc EXCEPT ![p] = step]
    /\ goal' = [goal EXCEPT ![p] = g]
    /\ tok' = [tok EXCEPT ![p] = t]
    /\ dev' = [dev EXCEPT ![p] = d]
    /\ UNCHANGED <<born, targets, revoking>>

-----------------------------------------------------------------------------
(* Starting a request: the lookup of the presented token outside any        *)
(* transaction decides which transaction follows.                           *)

RefreshReused(p, t, d) ==
    /\ row[t].status = "revoked"
    /\ Enter(p, "family", t, d, "lock")

RefreshExpired(p, t, d) ==
    /\ row[t].status = "live"
    /\ Expired(t)
    /\ Enter(p, "none", t, d, "retire")

RefreshTooOld(p, t, d) ==
    /\ row[t].status = "live"
    /\ ~Expired(t)
    /\ FamilyTooOld(t)
    /\ Enter(p, "family", t, d, "lock")

RefreshLive(p, t, d) ==
    /\ row[t].status = "live"
    /\ ~Expired(t)
    /\ ~FamilyTooOld(t)
    /\ DeviceMatches(t, d)
    /\ RoomForInsert
    /\ Enter(p, "rotate", t, d, "lock")

(* POST /auth/refresh.  An unknown token and a device mismatch are answered *)
(* 401 without any write, so they leave no trace here.                      *)
BeginRefresh(p) ==
    /\ pc[p] = "idle"
    /\ \E t \in Present, d \in Device \cup {None} :
          \/ RefreshReused(p, t, d)
          \/ RefreshExpired(p, t, d)
          \/ RefreshTooOld(p, t, d)
          \/ RefreshLive(p, t, d)
    /\ UNCHANGED <<clock, row, lock, ended>>

(* POST /auth/logout with a refresh token: whatever its state, its family.  *)
BeginLogout(p) ==
    /\ pc[p] = "idle"
    /\ \E t \in Present : Enter(p, "family", t, None, "lock")
    /\ UNCHANGED <<clock, row, lock, ended>>

(* POST /auth/logout with allDevices, identified by either credential.      *)
BeginLogoutAll(p) ==
    /\ pc[p] = "idle"
    /\ Present # {}
    /\ Enter(p, "user", None, None, "lock")
    /\ UNCHANGED <<clock, row, lock, ended>>

(* A sign-in (OTP verification) stamps familyCreatedAt before it waits.     *)
BeginSignIn(p) ==
    /\ pc[p] = "idle"
    /\ RoomForInsert
    /\ \E d \in Device \cup {None} : dev' = [dev EXCEPT ![p] = d]
    /\ pc' = [pc EXCEPT ![p] = "lock"]
    /\ goal' = [goal EXCEPT ![p] = "signIn"]
    /\ born' = [born EXCEPT ![p] = clock]
    /\ UNCHANGED <<clock, row, lock, tok, targets, revoking, ended>>

-----------------------------------------------------------------------------
(* lockRefreshUser: every transaction's first statement on refresh rows.    *)

FirstStep(g) ==
    CASE g = "rotate" -> "claim"
      [] g = "signIn" -> "replace"
      [] OTHER        -> "snapshot"

(* Bug: revocations do not take the advisory lock.                          *)
BugUnlockedRevocation(p) ==
    /\ pc[p] = "lock"
    /\ goal[p] \in {"family", "user"} \/ lock = None
    /\ lock' = IF goal[p] \in {"family", "user"} THEN lock ELSE p
    /\ Goto(p, FirstStep(goal[p]))
    /\ UNCHANGED <<clock, row, ended>>

LockUser(p) ==
    /\ pc[p] = "lock"
    /\ lock = None
    /\ lock' = p
    /\ Goto(p, FirstStep(goal[p]))
    /\ UNCHANGED <<clock, row, ended>>

-----------------------------------------------------------------------------
(* An expired token is stamped revoked by a single statement outside the    *)
(* advisory lock; it waits only for the row lock.                           *)

RetireExpired(p) ==
    /\ pc[p] = "retire"
    /\ CanWrite({tok[p]}, p)
    /\ row' = [row EXCEPT ![tok[p]].status = "revoked"]
    /\ Forget(p)
    /\ UNCHANGED <<clock, lock, ended>>

-----------------------------------------------------------------------------
(* Rotation.                                                               *)

(* Bug: the claim does not ask whether the token is still unrevoked.        *)
BugClaimRevoked(t) == ~Expired(t) /\ ~FamilyTooOld(t)

Claimable(t) == row[t].status = "live" /\ ~Expired(t) /\ ~FamilyTooOld(t)

(* The conditional UPDATE that revokes the predecessor; its row lock is     *)
(* held until the transaction ends.                                         *)
Claim(p) ==
    /\ pc[p] = "claim"
    /\ CanWrite({tok[p]}, p)
    /\ Claimable(tok[p])
    /\ revoking' = [revoking EXCEPT ![p] = {tok[p]}]
    /\ pc' = [pc EXCEPT ![p] = "commit"]
    /\ UNCHANGED <<clock, row, lock, goal, tok, dev, born, targets, ended>>

(* Bug: a lost claim keeps the advisory lock (a session-level lock).        *)
BugLostClaimKeepsLock(p) ==
    /\ pc[p] = "claim"
    /\ CanWrite({tok[p]}, p)
    /\ ~Claimable(tok[p])
    /\ pc' = [pc EXCEPT ![p] = "recheck"]
    /\ goal' = [goal EXCEPT ![p] = "none"]
    /\ UNCHANGED <<clock, row, lock, tok, dev, born, targets, revoking, ended>>

(* No row matched: the transaction commits having changed nothing.          *)
ClaimLost(p) ==
    /\ pc[p] = "claim"
    /\ CanWrite({tok[p]}, p)
    /\ ~Claimable(tok[p])
    /\ ReleaseLock(p)
    /\ pc' = [pc EXCEPT ![p] = "recheck"]
    /\ goal' = [goal EXCEPT ![p] = "none"]
    /\ UNCHANGED <<clock, row, tok, dev, born, targets, revoking, ended>>

(* Bug: the successor starts a family age of its own (the default of        *)
(* createRefreshTokenRow).                                                  *)
BugAgeRestarts(p) ==
    LET t == tok[p] IN
    [status |-> "live", family |-> row[t].family,
     device |-> IF dev[p] # None THEN dev[p] ELSE row[t].device,
     born |-> clock, expires |-> clock + TokenTtl, next |-> None]

Successor(p) ==
    LET t == tok[p] IN
    [status |-> "live", family |-> row[t].family,
     device |-> IF dev[p] # None THEN dev[p] ELSE row[t].device,
     born |-> row[t].born, expires |-> clock + TokenTtl, next |-> None]

(* Insert the successor, link it, sign the access token, commit.            *)
CommitRotation(p) ==
    /\ pc[p] = "commit"
    /\ \E n \in Unused :
          row' = [row EXCEPT ![tok[p]] = [@ EXCEPT !.status = "revoked", !.next = n],
                             ![n] = Successor(p)]
    /\ ReleaseLock(p)
    /\ Forget(p)
    /\ UNCHANGED <<clock, ended>>

(* After a lost claim the token is read again, outside the transaction.  If *)
(* it is revoked by now, its family is revoked before the 401.              *)
RecheckReused(p) ==
    /\ pc[p] = "recheck"
    /\ row[tok[p]].status = "revoked"
    /\ Enter(p, "family", tok[p], dev[p], "lock")
    /\ UNCHANGED <<clock, row, lock, ended>>

RecheckLive(p) ==
    /\ pc[p] = "recheck"
    /\ row[tok[p]].status = "live"
    /\ Forget(p)
    /\ UNCHANGED <<clock, row, lock, ended>>

-----------------------------------------------------------------------------
(* Revocation of a family or of every family (revokeRefreshTokens).         *)

RevokeSnapshot(p) ==
    /\ pc[p] = "snapshot"
    /\ targets' = [targets EXCEPT ![p] = LiveIn(Scope(p))]
    /\ pc' = [pc EXCEPT ![p] = "apply"]
    /\ UNCHANGED <<clock, row, lock, goal, tok, dev, born, revoking, ended>>

(* The UPDATE is the transaction's last statement: it commits with it, and  *)
(* the caller is told that the sessions in its scope are over.              *)
RevokeApply(p) ==
    /\ pc[p] = "apply"
    /\ CanWrite(targets[p], p)
    /\ row' = [t \in Token |->
                 IF t \in targets[p] \cap Live
                   THEN [row[t] EXCEPT !.status = "revoked"]
                   ELSE row[t]]
    /\ ended' = ended \cup FamiliesOf(targets[p] \cup ({tok[p]} \ {None}))
    /\ ReleaseLock(p)
    /\ Forget(p)
    /\ UNCHANGED clock

-----------------------------------------------------------------------------
(* Sign-in: prepareRefreshFamilySlot, then the first row of a new family.   *)

(* Bug: families without a device are forgotten.                            *)
BugUnboundUncounted(p) == FamiliesOf({t \in Live \ revoking[p] : row[t].device # None})

(* Live families as the transaction sees them, its own revocations included.*)
OpenFamilies(p) == FamiliesOf(Live \ revoking[p])

(* The families that have a live row of the signing-in device give way.     *)
ReplaceDevice(p) ==
    LET same == IF dev[p] = None THEN {}
                ELSE LiveIn(FamiliesOf({t \in Live : row[t].device = dev[p]}))
    IN  /\ pc[p] = "replace"
        /\ CanWrite(same, p)
        /\ revoking' = [revoking EXCEPT ![p] = same]
        /\ pc' = [pc EXCEPT ![p] = "evict"]
        /\ UNCHANGED <<clock, row, lock, goal, tok, dev, born, targets, ended>>

(* familyCreatedAt is copied along a family, so its first row has it.       *)
BornOf(f) == row[f].born

Overflow(p) == Cardinality(OpenFamilies(p)) - (MaxFamilies - 1)

(* The oldest open families, as many as are over the limit.                 *)
OldestFirst(p, F) ==
    /\ Cardinality(F) = (IF Overflow(p) > 0 THEN Overflow(p) ELSE 0)
    /\ \A f \in F, g \in OpenFamilies(p) \ F : BornOf(f) <= BornOf(g)

EvictOldest(p) ==
    /\ pc[p] = "evict"
    /\ \E F \in SUBSET OpenFamilies(p) :
          /\ OldestFirst(p, F)
          /\ CanWrite(LiveIn(F), p)
          /\ revoking' = [revoking EXCEPT ![p] = @ \cup LiveIn(F)]
    /\ pc' = [pc EXCEPT ![p] = "issue"]
    /\ UNCHANGED <<clock, row, lock, goal, tok, dev, born, targets, ended>>

FirstRow(p, n) ==
    [status |-> "live", family |-> n, device |-> dev[p],
     born |-> born[p], expires |-> clock + TokenTtl, next |-> None]

(* Insert the first row of the new family, sign, store the response, commit.*)
CommitSignIn(p) ==
    /\ pc[p] = "issue"
    /\ \E n \in Unused :
          row' = [t \in Token |->
                    IF t = n THEN FirstRow(p, n)
                    ELSE IF t \in revoking[p] THEN [row[t] EXCEPT !.status = "revoked"]
                    ELSE row[t]]
    /\ ended' = ended \cup FamiliesOf(revoking[p])
    /\ ReleaseLock(p)
    /\ Forget(p)
    /\ UNCHANGED clock

-----------------------------------------------------------------------------
(* Bug: the writes of a transaction that fails stay (no transaction).       *)
BugNoRollback(p) ==
    /\ pc[p] # "idle"
    /\ row' = [t \in Token |->
                 IF t \in revoking[p] THEN [row[t] EXCEPT !.status = "revoked"]
                 ELSE row[t]]
    /\ ReleaseLock(p)
    /\ Forget(p)
    /\ UNCHANGED <<clock, ended>>

(* A database error, a signing failure, a transaction timeout or the death  *)
(* of the API process: the open transaction rolls back, the caller gets no  *)
(* answer or a 500.                                                         *)
Fail(p) ==
    /\ pc[p] # "idle"
    /\ ReleaseLock(p)
    /\ Forget(p)
    /\ UNCHANGED <<clock, row, ended>>

Tick ==
    /\ clock < MaxClock
    /\ clock' = clock + 1
    /\ UNCHANGED <<row, lock, requestVars, ended>>

Begin(p) == BeginRefresh(p) \/ BeginLogout(p) \/ BeginLogoutAll(p) \/ BeginSignIn(p)

Rotate(p) == Claim(p) \/ ClaimLost(p) \/ CommitRotation(p)
Recheck(p) == RecheckReused(p) \/ RecheckLive(p)
Revoke(p) == RevokeSnapshot(p) \/ RevokeApply(p)
SignIn(p) == ReplaceDevice(p) \/ EvictOldest(p) \/ CommitSignIn(p)

(* What a request does by itself once it has started.                       *)
Advance(p) == RetireExpired(p) \/ Rotate(p) \/ Recheck(p) \/ Revoke(p) \/ SignIn(p)

Next ==
    \/ Tick
    \/ \E p \in Process : Begin(p) \/ LockUser(p) \/ Advance(p) \/ Fail(p)

Spec == Init /\ [][Next]_vars

-----------------------------------------------------------------------------
(* Correctness.                                                            *)

(* A family is carried by at most one unrevoked token: of several requests  *)
(* presenting the same token, one at most obtains a successor               *)
(* (the conditional claim in refreshSession).                               *)
OneLivePerFamily ==
    \A t, u \in Live : row[t].family = row[u].family => t = u

(* Once a logout, a reuse detection or a sign-in has closed a family, no    *)
(* token of it is live: no rotation in flight at that moment can slip a     *)
(* successor past it (lockRefreshUser).                                     *)
EndedStaysEnded == FamiliesOf(Live) \cap ended = {}

(* Sign-ins racing each other never leave the user more live families than  *)
(* the configured maximum (prepareRefreshFamilySlot).                       *)
FamilyCap == Cardinality(FamiliesOf(Live)) <= MaxFamilies

(* replacedById links a revoked token to the one token that replaced it: in *)
(* the same family with the same age, and, once the family is bound to a    *)
(* device, bound to that device; no two tokens share a successor.           *)
RotationChain ==
    \A t \in Present :
        LET n == row[t].next IN
        n # None =>
            /\ n \in Present
            /\ row[t].status = "revoked"
            /\ row[n].family = row[t].family
            /\ row[n].born = row[t].born
            /\ row[t].device # None => row[n].device = row[t].device
            /\ \A u \in Present : row[u].next = n => u = t

(* A family loses its live token only because it was closed on purpose or   *)
(* because that token had expired: a rotation that fails halfway leaves the *)
(* presented token usable (the transaction around claim, insert and sign).  *)
ClosedOnlyOnPurpose ==
    [][\A f \in FamiliesOf(Live) \ FamiliesOf(Live)' :
          f \in ended' \/ \E t \in LiveIn({f}) : Expired(t)]_vars

(* A sign-in leaves, of all families bound to its device, only the new one, *)
(* and a family that had to give way to the limit was not younger than any  *)
(* family that stayed (prepareRefreshFamilySlot).                           *)
SignInDisplaces ==
    [][\A n \in Live' \ Live :
          row'[n].family = n =>
             LET stay == {t \in Live \cap Live' : t # n}
                 gone == Live \ Live'
             IN  /\ row'[n].device # None =>
                       \A t \in stay : row[t].device # row'[n].device
                 /\ \A g \in gone, t \in stay :
                       \/ row[g].device = row'[n].device
                       \/ row[g].born <= row[t].born]_vars

(* What a request's next statement waits for: the advisory lock, the row    *)
(* locks of the rows it writes, an id for the row it inserts.               *)
Ready(p) ==
    \/ pc[p] = "lock" /\ lock = None
    \/ pc[p] \in {"retire", "claim"} /\ CanWrite({tok[p]}, p)
    \/ pc[p] = "recheck" /\ tok[p] \in Present
    \/ pc[p] = "snapshot"
    \/ pc[p] = "apply" /\ CanWrite(targets[p], p)
    \/ pc[p] = "replace" /\ CanWrite(Live, p)
    \/ pc[p] = "evict" /\ \E F \in SUBSET OpenFamilies(p) : OldestFirst(p, F) /\ CanWrite(LiveIn(F), p)
    \/ pc[p] \in {"commit", "issue"} /\ Unused # {}
SomeoneReady == (\E p \in Process : pc[p] # "idle") => \E p \in Process : Ready(p)

(* Requests never all wait for each other: as long as one is under way,     *)
(* some request has all that its next statement waits for, and whoever has  *)
(* can execute it: the advisory lock and the row locks were released on     *)
(* every way out (lockRefreshUser).                                         *)
NoWaitCycle ==
    SomeoneReady /\ \A p \in Process : Ready(p) => ENABLED (LockUser(p) \/ Advance(p))

-----------------------------------------------------------------------------
(* The inductive invariant behind OneLivePerFamily and EndedStaysEnded.     *)

InTransaction(p) ==
    pc[p] \in {"claim", "commit", "snapshot", "apply", "replace", "evict", "issue"}

(* One transaction at a time works on the user's rows: the lock's holder.   *)
LockHeld == \A p \in Process : InTransaction(p) <=> lock = p

(* The statement a request is at belongs to the transaction it runs.        *)
GoalFits ==
    \A p \in Process :
        /\ pc[p] = "idle" => tok[p] = None /\ goal[p] = "none"
        /\ pc[p] = "lock" => goal[p] \in {"rotate", "family", "user", "signIn"}
        /\ pc[p] \in {"claim", "commit"} => goal[p] = "rotate"
        /\ pc[p] \in {"snapshot", "apply"} => goal[p] \in {"family", "user"}
        /\ pc[p] \in {"replace", "evict", "issue"} => goal[p] = "signIn"
        /\ goal[p] \in {"rotate", "family"} => tok[p] \in Present
        /\ goal[p] \in {"user", "signIn"} => tok[p] = None
        /\ pc[p] \in {"retire", "recheck"} => tok[p] \in Present

(* A family is named by a row of its own that has been committed.           *)
RowsNamed ==
    /\ \A t \in Present : row[t].family \in Present
    /\ \A t \in Token \ Present : row[t].family = None
    /\ ended \subseteq Present

(* Uncommitted revocations are of rows that are still live.                 *)
RevokingLive ==
    \A p \in Process :
        /\ revoking[p] \subseteq Live
        /\ pc[p] = "commit" => revoking[p] = {tok[p]}
        /\ pc[p] \notin {"commit", "evict", "issue"} => revoking[p] = {}

(* When the revoking UPDATE is applied, its snapshot still has every live   *)
(* row of its scope: no rotation has committed in between.                  *)
SnapshotComplete ==
    \A p \in Process :
        pc[p] = "apply" => /\ LiveIn(Scope(p)) \subseteq targets[p]
                           /\ targets[p] \subseteq Present
                           /\ FamiliesOf(targets[p]) \subseteq Scope(p)

IInv ==
    /\ TypeOK
    /\ LockHeld
    /\ GoalFits
    /\ RowsNamed
    /\ RevokingLive
    /\ SnapshotComplete
    /\ OneLivePerFamily
    /\ EndedStaysEnded

-----------------------------------------------------------------------------
(* What FamiliesSound, FamilySteps and the ledger need besides.            *)

(* A rotation's device is the one its token is bound to, and a token that   *)
(* is retired has expired: nothing a request looked up before its           *)
(* transaction can have changed since.                                      *)
LookedUp ==
    \A p \in Process :
        /\ goal[p] = "rotate" => DeviceMatches(tok[p], dev[p])
        /\ pc[p] = "retire" => Expired(tok[p])

(* familyCreatedAt is that of the family's first row.                       *)
BornCopied == \A t \in Present : row[t].born = BornOf(row[t].family)

(* The slot a sign-in has prepared stays free until it commits: no family   *)
(* that stays is bound to its device or older than one that was evicted,    *)
(* and there is room for one more.                                          *)
SlotReady(p) ==
    LET stay == Live \ revoking[p] IN
    /\ pc[p] \in {"evict", "issue"} /\ dev[p] # None =>
          \A t \in stay : row[t].device # dev[p]
    /\ pc[p] = "evict" => \A g \in revoking[p] : row[g].device = dev[p]
    /\ pc[p] = "issue" =>
          /\ \A g \in revoking[p], t \in stay :
                row[g].device = dev[p] \/ row[g].born <= row[t].born
          /\ Cardinality(OpenFamilies(p)) < MaxFamilies
SlotPrepared == \A p \in Process : SlotReady(p)

FamilyInv ==
    /\ IInv
    /\ RotationChain
    /\ FamilyCap
    /\ LookedUp
    /\ BornCopied
    /\ SlotPrepared

-----------------------------------------------------------------------------
(* The committed rows implement the ledger of sessions.                     *)
Ledger == INSTANCE SessionLedger WITH
            live <- Live,
            familyOf <- [t \in Token |-> row[t].family]
LedgerSpec == Ledger!Spec

-----------------------------------------------------------------------------
(* The families of a user, in every state: rows of their types, successors  *)
(* chained within a family, and the configured maximum kept.                *)
FamiliesSound == TypeOK /\ RotationChain /\ FamilyCap

(* What a step may do to them: close one only on purpose, and make room for *)
(* a sign-in only where the limit and the device ask for it.                *)
FamilySteps == ClosedOnlyOnPurpose /\ SignInDisplaces
=============================================================================
