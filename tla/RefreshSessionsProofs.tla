---------------------- MODULE RefreshSessionsProofs ------------------------
(***************************************************************************)
(* Proofs about RefreshSessions, for any number of requests, tokens and    *)
(* devices and any limits: type correctness, and that a family is carried  *)
(* by at most one live token and stays closed once it has been closed;     *)
(* that its tokens form a chain, the limit of families is kept and a       *)
(* family gives way only on purpose; that the committed rows implement     *)
(* SessionLedger; and that requests never all wait for each other.         *)
(***************************************************************************)
EXTENDS RefreshSessions, FiniteSetTheorems, TLAPS

(* A request starts with an empty table.                                    *)
LEMMA InitInvariant == Init => IInv
  <1> SUFFICES ASSUME Init PROVE IInv
    OBVIOUS
  <1>1. NoRow \in Row
    BY DEF NoRow, Row
  <1>2. Present = {} /\ Live = {}
    BY DEF Init, Present, Live, NoRow
  <1>3. TypeOK
    BY <1>1 DEF Init, TypeOK, Steps, Goals
  <1>4. LockHeld
    BY NoneAssumption DEF Init, LockHeld, InTransaction
  <1>5. GoalFits
    BY DEF Init, GoalFits
  <1>6. RowsNamed
    BY <1>2 DEF Init, RowsNamed, NoRow
  <1>7. RevokingLive
    BY <1>2 DEF Init, RevokingLive
  <1>8. SnapshotComplete
    BY DEF Init, SnapshotComplete
  <1>9. OneLivePerFamily /\ EndedStaysEnded
    BY <1>2 DEF Init, OneLivePerFamily, EndedStaysEnded, FamiliesOf
  <1> QED
    BY <1>3, <1>4, <1>5, <1>6, <1>7, <1>8, <1>9 DEF IInv


-----------------------------------------------------------------------------
(* Steps that leave the committed rows, the lock and all uncommitted writes *)
(* alone: a request outside its transaction changes only its own locals.    *)

Outside == {"idle", "retire", "lock", "recheck"}

(* Such a step preserves the invariant when the request knows what GoalFits *)
(* demands of the step it goes to.                                          *)
LEMMA OutsideStep ==
    ASSUME IInv, NEW p \in Process,
           UNCHANGED <<row, lock, ended, revoking, targets>>,
           TypeOK', GoalFits',
           pc[p] \in Outside, pc'[p] \in Outside,
           \A q \in Process \ {p} : /\ pc'[q] = pc[q]
                                    /\ goal'[q] = goal[q]
                                    /\ tok'[q] = tok[q]
    PROVE  IInv'
  <1>1. LockHeld'
    BY DEF IInv, LockHeld, InTransaction, Outside
  <1>2. RowsNamed' /\ OneLivePerFamily' /\ EndedStaysEnded'
    BY DEF IInv, RowsNamed, OneLivePerFamily, EndedStaysEnded, Present, Live, FamiliesOf
  <1>3. RevokingLive'
    <2> SUFFICES ASSUME NEW q \in Process
                 PROVE  /\ revoking'[q] \subseteq Live'
                        /\ pc'[q] = "commit" => revoking'[q] = {tok'[q]}
                        /\ pc'[q] \notin {"commit", "evict", "issue"} => revoking'[q] = {}
      BY DEF RevokingLive
    <2>1. CASE q = p
      BY <2>1 DEF IInv, RevokingLive, Live, Outside
    <2>2. CASE q # p
      BY <2>2 DEF IInv, RevokingLive, Live
    <2> QED BY <2>1, <2>2
  <1>4. SnapshotComplete'
    <2> SUFFICES ASSUME NEW q \in Process, pc'[q] = "apply"
                 PROVE  /\ LiveIn(Scope(q))' \subseteq targets'[q]
                        /\ targets'[q] \subseteq Present'
                        /\ FamiliesOf(targets[q])' \subseteq Scope(q)'
      BY DEF SnapshotComplete
    <2>1. q # p
      BY DEF Outside
    <2>2. pc[q] = "apply" /\ goal'[q] = goal[q] /\ tok'[q] = tok[q]
      BY <2>1
    <2>3. row' = row /\ targets' = targets
      OBVIOUS
    <2>4. Scope(q)' = Scope(q) /\ FamiliesOf(targets[q])' = FamiliesOf(targets[q])
      BY <2>2, <2>3 DEF Scope, FamiliesOf, Present
    <2>5. LiveIn(Scope(q))' = LiveIn(Scope(q)) /\ Present' = Present
      BY <2>3, <2>4 DEF LiveIn, Live, Present
    <2> QED
      BY <2>2, <2>3, <2>4, <2>5 DEF IInv, SnapshotComplete
  <1> QED
    BY <1>1, <1>2, <1>3, <1>4 DEF IInv

(* A refresh, logout, logout everywhere or sign-in begins.                  *)
LEMMA BeginStep ==
    ASSUME IInv, NEW p \in Process, Begin(p)
    PROVE  IInv'
  <1>1. TypeOK /\ GoalFits /\ pc[p] = "idle"
    BY DEF IInv, Begin, BeginRefresh, BeginLogout, BeginLogoutAll, BeginSignIn
  <1>2. CASE BeginRefresh(p)
    <2>1. PICK t \in Present, d \in Device \cup {None} :
            \/ Enter(p, "family", t, d, "lock")
            \/ Enter(p, "none", t, d, "retire")
            \/ Enter(p, "rotate", t, d, "lock")
      BY <1>2 DEF BeginRefresh, RefreshReused, RefreshExpired, RefreshTooOld, RefreshLive
    <2>2. UNCHANGED <<clock, row, lock, ended>>
      BY <1>2 DEF BeginRefresh
    <2>3. TypeOK'
      BY <1>1, <2>1, <2>2 DEF TypeOK, Enter, Steps, Goals, Present
    <2>4. GoalFits'
      BY <1>1, <2>1, <2>2 DEF GoalFits, Enter, Present, TypeOK
    <2> QED
      BY <1>1, <2>1, <2>2, <2>3, <2>4, OutsideStep DEF Enter, Outside, TypeOK
  <1>3. CASE BeginLogout(p)
    <2>1. TypeOK'
      BY <1>1, <1>3 DEF BeginLogout, TypeOK, Enter, Steps, Goals, Present
    <2>2. GoalFits'
      BY <1>1, <1>3 DEF BeginLogout, GoalFits, Enter, Present, TypeOK
    <2> QED
      BY <1>1, <1>3, <2>1, <2>2, OutsideStep DEF BeginLogout, Enter, Outside, TypeOK
  <1>4. CASE BeginLogoutAll(p)
    <2>1. TypeOK'
      BY <1>1, <1>4 DEF BeginLogoutAll, TypeOK, Enter, Steps, Goals
    <2>2. GoalFits'
      BY <1>1, <1>4 DEF BeginLogoutAll, GoalFits, Enter, Present, TypeOK
    <2> QED
      BY <1>1, <1>4, <2>1, <2>2, OutsideStep DEF BeginLogoutAll, Enter, Outside, TypeOK
  <1>5. CASE BeginSignIn(p)
    <2>1. TypeOK'
      BY <1>1, <1>5 DEF BeginSignIn, TypeOK, Steps, Goals
    <2>2. tok[p] = None
      BY <1>1 DEF GoalFits
    <2>3. GoalFits'
      BY <1>1, <1>5, <2>2 DEF BeginSignIn, GoalFits, Present, TypeOK
    <2> QED
      BY <1>1, <1>5, <2>1, <2>3, OutsideStep DEF BeginSignIn, Outside, TypeOK
  <1> QED
    BY <1>2, <1>3, <1>4, <1>5 DEF Begin

(* A claim that was lost looks at the token again.                          *)
LEMMA RecheckStep ==
    ASSUME IInv, NEW p \in Process, RecheckReused(p)
    PROVE  IInv'
  <1>1. TypeOK /\ GoalFits /\ pc[p] = "recheck"
    BY DEF IInv, RecheckReused
  <1>2. tok[p] \in Present
    BY <1>1 DEF GoalFits
  <1>3. TypeOK'
    BY <1>1, <1>2 DEF RecheckReused, TypeOK, Enter, Steps, Goals, Present
  <1>4. GoalFits'
    BY <1>1, <1>2 DEF RecheckReused, GoalFits, Enter, Present, TypeOK
  <1> QED
    BY <1>1, <1>3, <1>4, OutsideStep DEF RecheckReused, Enter, Outside, TypeOK

-----------------------------------------------------------------------------
(* A request that leaves: what holds whatever its commit has written.       *)
LEMMA Leaving ==
    ASSUME IInv, NEW p \in Process, Forget(p), ReleaseLock(p), Present \subseteq Present'
    PROVE  /\ LockHeld' /\ GoalFits'
           /\ pc \in [Process -> Steps] /\ pc' \in [Process -> Steps]
           /\ goal' \in [Process -> Goals]
           /\ tok' \in [Process -> Token \cup {None}]
           /\ dev' \in [Process -> Device \cup {None}]
           /\ born' \in [Process -> Nat]
           /\ targets' \in [Process -> SUBSET Token]
           /\ revoking' \in [Process -> SUBSET Token]
           /\ lock' \in Process \cup {None}
           /\ revoking'[p] = {} /\ pc'[p] = "idle"
           /\ \A q \in Process \ {p} :
                 /\ pc'[q] = pc[q] /\ goal'[q] = goal[q] /\ tok'[q] = tok[q]
                 /\ targets'[q] = targets[q] /\ revoking'[q] = revoking[q]
  <1>1. TypeOK /\ LockHeld /\ GoalFits
    BY DEF IInv
  <1>2. /\ pc' \in [Process -> Steps] /\ goal' \in [Process -> Goals]
        /\ tok' \in [Process -> Token \cup {None}]
        /\ dev' \in [Process -> Device \cup {None}] /\ born' \in [Process -> Nat]
        /\ targets' \in [Process -> SUBSET Token] /\ revoking' \in [Process -> SUBSET Token]
    BY <1>1 DEF TypeOK, Forget, Steps, Goals
  <1>3. lock' \in Process \cup {None}
    BY <1>1 DEF TypeOK, ReleaseLock
  <1>4. LockHeld'
    BY <1>1, NoneAssumption DEF LockHeld, InTransaction, Forget, ReleaseLock, TypeOK
  <1>5. /\ revoking'[p] = {} /\ pc'[p] = "idle" /\ goal'[p] = "none" /\ tok'[p] = None
        /\ \A q \in Process \ {p} :
                 /\ pc'[q] = pc[q] /\ goal'[q] = goal[q] /\ tok'[q] = tok[q]
                 /\ targets'[q] = targets[q] /\ revoking'[q] = revoking[q]
    BY <1>1 DEF Forget, TypeOK
  <1>6. GoalFits'
    BY <1>1, <1>5 DEF GoalFits
  <1> QED
    BY <1>1, <1>2, <1>3, <1>4, <1>5, <1>6 DEF TypeOK

(* After the lock holder has left, no transaction is open at all.           *)
LEMMA HolderLeft ==
    ASSUME IInv, NEW p \in Process, lock = p, Forget(p), ReleaseLock(p),
           Present \subseteq Present'
    PROVE  RevokingLive' /\ SnapshotComplete'
  <1>1. LockHeld' /\ lock' = None
    BY Leaving DEF ReleaseLock
  <1>2. \A q \in Process : ~ InTransaction(q)'
    BY <1>1, NoneAssumption DEF LockHeld
  <1>3. \A q \in Process : revoking'[q] = {}
    <2> TAKE q \in Process
    <2>1. CASE q = p
      BY <2>1, Leaving
    <2>2. CASE q # p
      <3>1. pc'[q] = pc[q] /\ revoking'[q] = revoking[q]
        BY <2>2, Leaving
      <3>2. pc[q] \notin {"commit", "evict", "issue"}
        BY <3>1, <1>2 DEF InTransaction
      <3> QED
        BY <3>1, <3>2 DEF IInv, RevokingLive
    <2> QED BY <2>1, <2>2
  <1>4. RevokingLive'
    BY <1>2, <1>3 DEF RevokingLive, InTransaction
  <1>5. SnapshotComplete'
    BY <1>2 DEF SnapshotComplete, InTransaction
  <1> QED
    BY <1>4, <1>5

(* A failure leaves the committed rows as they are.                         *)
LEMMA FailStep ==
    ASSUME IInv, NEW p \in Process, ReleaseLock(p), Forget(p), UNCHANGED <<clock, row, ended>>
    PROVE  IInv'
  <1>1. row' = row /\ ended' = ended /\ Present' = Present /\ Live' = Live
    BY DEF Present, Live
  <1>2. TypeOK' /\ LockHeld' /\ GoalFits'
    BY <1>1, Leaving DEF IInv, TypeOK
  <1>3. RowsNamed' /\ OneLivePerFamily' /\ EndedStaysEnded'
    BY <1>1 DEF IInv, RowsNamed, OneLivePerFamily, EndedStaysEnded, FamiliesOf
  <1>4. RevokingLive'
    <2> SUFFICES ASSUME NEW q \in Process
                 PROVE  /\ revoking'[q] \subseteq Live'
                        /\ pc'[q] = "commit" => revoking'[q] = {tok'[q]}
                        /\ pc'[q] \notin {"commit", "evict", "issue"} => revoking'[q] = {}
      BY DEF RevokingLive
    <2>1. CASE q = p
      BY <2>1, <1>1, Leaving
    <2>2. CASE q # p
      BY <2>2, <1>1, Leaving DEF IInv, RevokingLive
    <2> QED BY <2>1, <2>2
  <1>5. SnapshotComplete'
    <2> SUFFICES ASSUME NEW q \in Process, pc'[q] = "apply"
                 PROVE  /\ LiveIn(Scope(q))' \subseteq targets'[q]
                        /\ targets'[q] \subseteq Present'
                        /\ FamiliesOf(targets[q])' \subseteq Scope(q)'
      BY DEF SnapshotComplete
    <2>1. /\ pc[q] = "apply" /\ goal'[q] = goal[q] /\ tok'[q] = tok[q]
          /\ targets'[q] = targets[q]
      BY <1>1, Leaving
    <2>2. Scope(q)' = Scope(q) /\ FamiliesOf(targets[q])' = FamiliesOf(targets[q])
      BY <2>1, <1>1 DEF Scope, FamiliesOf
    <2>3. LiveIn(Scope(q))' = LiveIn(Scope(q))
      BY <1>1, <2>2 DEF LiveIn
    <2> QED
      BY <1>1, <2>1, <2>2, <2>3 DEF IInv, SnapshotComplete
  <1> QED
    BY <1>2, <1>3, <1>4, <1>5 DEF IInv

-----------------------------------------------------------------------------
(* lockRefreshUser: the advisory lock is taken.                             *)
LEMMA LockStep ==
    ASSUME IInv, NEW p \in Process, LockUser(p)
    PROVE  IInv'
  <1>1. TypeOK /\ LockHeld /\ GoalFits /\ pc[p] = "lock" /\ lock = None /\ lock' = p
    BY DEF IInv, LockUser
  <1>2. FirstStep(goal[p]) \in {"claim", "replace", "snapshot"}
    BY DEF FirstStep
  <1>3. /\ pc' = [pc EXCEPT ![p] = FirstStep(goal[p])]
        /\ UNCHANGED <<goal, tok, dev, born, targets, revoking, clock, row, ended>>
    BY DEF LockUser, Goto
  <1>4. TypeOK'
    BY <1>1, <1>2, <1>3 DEF TypeOK, Steps
  <1>5. LockHeld'
    BY <1>1, <1>2, <1>3, NoneAssumption DEF LockHeld, InTransaction, TypeOK
  <1>6. Present' = Present /\ Live' = Live
    BY <1>3 DEF Present, Live
  <1>7. GoalFits'
    <2>1. /\ FirstStep(goal[p]) = "claim" => goal[p] = "rotate"
          /\ FirstStep(goal[p]) = "replace" => goal[p] = "signIn"
          /\ FirstStep(goal[p]) = "snapshot" => goal[p] \in {"family", "user"}
      BY <1>1 DEF FirstStep, GoalFits
    <2> QED
      BY <1>1, <1>2, <1>3, <1>6, <2>1 DEF GoalFits, TypeOK
  <1>8. RowsNamed' /\ OneLivePerFamily' /\ EndedStaysEnded'
    BY <1>3, <1>6 DEF IInv, RowsNamed, OneLivePerFamily, EndedStaysEnded, FamiliesOf
  <1>9. RevokingLive'
    BY <1>1, <1>2, <1>3, <1>6 DEF IInv, RevokingLive, TypeOK
  <1>10. SnapshotComplete'
    BY <1>1, <1>2, <1>3, NoneAssumption DEF SnapshotComplete, LockHeld, InTransaction, TypeOK
  <1> QED
    BY <1>4, <1>5, <1>7, <1>8, <1>9, <1>10 DEF IInv

(* The one write outside the advisory lock: it can meet an open transaction *)
(* of another request, but not on a row that the transaction has revoked.   *)
LEMMA RetireStep ==
    ASSUME IInv, NEW p \in Process, RetireExpired(p)
    PROVE  IInv'
  <1>1. /\ TypeOK /\ LockHeld /\ GoalFits /\ RowsNamed /\ pc[p] = "retire"
        /\ UNCHANGED <<clock, lock, ended>> /\ Forget(p)
        /\ \A q \in Process \ {p} : tok[p] \notin revoking[q]
    BY DEF IInv, RetireExpired, CanWrite, RowLocked
  <1>2. tok[p] \in Present /\ tok[p] \in Token
    BY <1>1 DEF GoalFits, Present
  <1>3. /\ \A t \in Token : row'[t].family = row[t].family
        /\ \A t \in Token \ {tok[p]} : row'[t] = row[t]
        /\ row'[tok[p]].status = "revoked"
        /\ row' \in [Token -> Row]
    <2>1. row \in [Token -> Row] /\ row[tok[p]] \in Row
      BY <1>1, <1>2 DEF TypeOK
    <2>2. row' = [row EXCEPT ![tok[p]] = [row[tok[p]] EXCEPT !.status = "revoked"]]
      BY DEF RetireExpired
    <2>4. \A t \in Token \ {tok[p]} : row'[t] = row[t]
      BY <1>2, <2>1, <2>2
    <2>5. /\ row'[tok[p]] \in Row /\ row'[tok[p]].status = "revoked"
          /\ row'[tok[p]].family = row[tok[p]].family
      BY <1>2, <2>1, <2>2 DEF Row
    <2>3. row' \in [Token -> Row]
      BY <1>2, <2>1, <2>2, <2>4, <2>5
    <2>6. \A t \in Token : row'[t].family = row[t].family
      BY <2>4, <2>5
    <2> QED
      BY <2>3, <2>4, <2>5, <2>6
  <1>4. Present' = Present /\ Live' = Live \ {tok[p]}
    BY <1>2, <1>3 DEF Present, Live
  <1>5. lock # p /\ ReleaseLock(p)
    BY <1>1 DEF LockHeld, InTransaction, ReleaseLock
  <1>6. TypeOK' /\ LockHeld' /\ GoalFits'
    BY <1>1, <1>3, <1>4, <1>5, Leaving DEF TypeOK
  <1>7. RowsNamed' /\ OneLivePerFamily' /\ EndedStaysEnded'
    <2>1. RowsNamed'
      BY <1>1, <1>3, <1>4 DEF RowsNamed, Present
    <2>2. OneLivePerFamily'
      BY <1>3, <1>4 DEF IInv, OneLivePerFamily, Live
    <2>3. EndedStaysEnded'
      BY <1>1, <1>3, <1>4 DEF IInv, EndedStaysEnded, FamiliesOf, Live
    <2> QED BY <2>1, <2>2, <2>3
  <1>8. RevokingLive'
    <2> SUFFICES ASSUME NEW q \in Process
                 PROVE  /\ revoking'[q] \subseteq Live'
                        /\ pc'[q] = "commit" => revoking'[q] = {tok'[q]}
                        /\ pc'[q] \notin {"commit", "evict", "issue"} => revoking'[q] = {}
      BY DEF RevokingLive
    <2>1. CASE q = p
      BY <2>1, <1>4, <1>5, <1>1, Leaving
    <2>2. CASE q # p
      BY <2>2, <1>1, <1>4, <1>5, Leaving DEF IInv, RevokingLive
    <2> QED BY <2>1, <2>2
  <1>9. SnapshotComplete'
    <2> SUFFICES ASSUME NEW q \in Process, pc'[q] = "apply"
                 PROVE  /\ LiveIn(Scope(q))' \subseteq targets'[q]
                        /\ targets'[q] \subseteq Present'
                        /\ FamiliesOf(targets[q])' \subseteq Scope(q)'
      BY DEF SnapshotComplete
    <2>1. /\ pc[q] = "apply" /\ goal'[q] = goal[q] /\ tok'[q] = tok[q]
          /\ targets'[q] = targets[q]
      BY <1>1, <1>4, <1>5, Leaving
    <2>2. /\ LiveIn(Scope(q)) \subseteq targets[q] /\ targets[q] \subseteq Present
          /\ FamiliesOf(targets[q]) \subseteq Scope(q)
          /\ goal[q] = "family" => tok[q] \in Present
          /\ goal[q] \in {"family", "user"}
      BY <1>1, <2>1 DEF IInv, SnapshotComplete, GoalFits
    <2>3. Scope(q)' = Scope(q) /\ FamiliesOf(targets[q])' = FamiliesOf(targets[q])
      <3>2. Present \subseteq Token /\ targets[q] \subseteq Token
        BY <2>2 DEF Present
      <3>3. FamiliesOf(targets[q])' = FamiliesOf(targets[q])
        BY <1>3, <2>1, <3>2 DEF FamiliesOf
      <3>4. CASE goal[q] = "user"
        BY <1>3, <1>4, <2>1, <3>2, <3>4 DEF Scope, FamiliesOf
      <3>5. CASE goal[q] = "family"
        <4>1. tok[q] \in Token /\ row'[tok[q]].family = row[tok[q]].family
          BY <1>3, <2>2, <3>2, <3>5
        <4>2. Scope(q) = {row[tok[q]].family}
          BY <3>5 DEF Scope, FamiliesOf
        <4>3. Scope(q)' = {row'[tok[q]].family}
          BY <2>1, <3>5 DEF Scope, FamiliesOf
        <4> QED
          BY <3>3, <4>1, <4>2, <4>3
      <3> QED
        BY <2>2, <3>3, <3>4, <3>5
    <2>4. LiveIn(Scope(q))' \subseteq LiveIn(Scope(q))
      BY <1>3, <1>4, <2>3 DEF LiveIn, Live
    <2> QED
      BY <1>4, <2>1, <2>2, <2>3, <2>4
  <1> QED
    BY <1>6, <1>7, <1>8, <1>9 DEF IInv

-----------------------------------------------------------------------------
(* Steps inside a transaction that change only the holder's locals.         *)
LEMMA InsideStep ==
    ASSUME IInv, NEW p \in Process, lock = p,
           UNCHANGED <<clock, row, lock, goal, tok, dev, born, ended>>,
           NEW step \in {"commit", "apply", "evict", "issue"},
           pc' = [pc EXCEPT ![p] = step],
           targets' \in [Process -> SUBSET Token],
           revoking' \in [Process -> SUBSET Token],
           \A q \in Process \ {p} : /\ revoking'[q] = revoking[q]
                                    /\ targets'[q] = targets[q]
    PROVE  /\ TypeOK' /\ LockHeld' /\ RowsNamed' /\ OneLivePerFamily' /\ EndedStaysEnded'
           /\ Present' = Present /\ Live' = Live
           /\ \A q \in Process \ {p} : /\ pc'[q] = pc[q] /\ revoking'[q] = {}
                                       /\ pc'[q] \notin {"commit", "apply"}
           /\ pc'[p] = step
  <1>1. TypeOK /\ LockHeld
    BY DEF IInv
  <1>2. /\ pc'[p] = step
        /\ \A q \in Process \ {p} : pc'[q] = pc[q]
    BY <1>1 DEF TypeOK
  <1>3. TypeOK'
    BY <1>1 DEF TypeOK, Steps
  <1>4. LockHeld'
    BY <1>1, <1>2 DEF LockHeld, InTransaction
  <1>5. Present' = Present /\ Live' = Live
    BY DEF Present, Live
  <1>6. RowsNamed' /\ OneLivePerFamily' /\ EndedStaysEnded'
    BY <1>5 DEF IInv, RowsNamed, OneLivePerFamily, EndedStaysEnded, FamiliesOf
  <1>7. \A q \in Process \ {p} : revoking'[q] = {} /\ pc'[q] \notin {"commit", "apply"}
    <2> TAKE q \in Process \ {p}
    <2>1. ~ InTransaction(q)
      BY <1>1 DEF LockHeld
    <2> QED
      BY <1>2, <2>1 DEF InTransaction, IInv, RevokingLive
  <1> QED
    BY <1>2, <1>3, <1>4, <1>5, <1>6, <1>7

(* The conditional update claims a live token.                              *)
LEMMA ClaimStep ==
    ASSUME IInv, NEW p \in Process, Claim(p)
    PROVE  IInv'
  <1>1. /\ TypeOK /\ LockHeld /\ GoalFits /\ pc[p] = "claim" /\ goal[p] = "rotate"
        /\ tok[p] \in Live /\ lock = p
    BY DEF IInv, Claim, Claimable, LockHeld, InTransaction, GoalFits, Live, Present
  <1>2. /\ revoking' = [revoking EXCEPT ![p] = {tok[p]}]
        /\ pc' = [pc EXCEPT ![p] = "commit"]
        /\ UNCHANGED <<clock, row, lock, goal, tok, dev, born, targets, ended>>
    BY DEF Claim
  <1>3. revoking' \in [Process -> SUBSET Token] /\ revoking'[p] = {tok[p]}
    BY <1>1, <1>2 DEF TypeOK, Live
  <1>4. /\ TypeOK' /\ LockHeld' /\ RowsNamed' /\ OneLivePerFamily' /\ EndedStaysEnded'
        /\ Present' = Present /\ Live' = Live
        /\ \A q \in Process \ {p} : /\ pc'[q] = pc[q] /\ revoking'[q] = {}
                                    /\ pc'[q] \notin {"commit", "apply"}
        /\ pc'[p] = "commit"
    BY <1>1, <1>2, <1>3, InsideStep DEF TypeOK
  <1>5. GoalFits'
    BY <1>1, <1>2, <1>4 DEF GoalFits
  <1>6. RevokingLive'
    BY <1>1, <1>2, <1>3, <1>4 DEF RevokingLive
  <1>7. SnapshotComplete'
    BY <1>4 DEF SnapshotComplete
  <1> QED
    BY <1>4, <1>5, <1>6, <1>7 DEF IInv

(* The update matches nothing and the transaction ends.                     *)
LEMMA ClaimLostStep ==
    ASSUME IInv, NEW p \in Process, ClaimLost(p)
    PROVE  IInv'
  <1>1. /\ TypeOK /\ LockHeld /\ GoalFits /\ pc[p] = "claim" /\ goal[p] = "rotate"
        /\ tok[p] \in Present /\ lock = p /\ lock' = None
    BY DEF IInv, ClaimLost, LockHeld, InTransaction, GoalFits, ReleaseLock
  <1>2. /\ pc' = [pc EXCEPT ![p] = "recheck"]
        /\ goal' = [goal EXCEPT ![p] = "none"]
        /\ UNCHANGED <<clock, row, tok, dev, born, targets, revoking, ended>>
    BY DEF ClaimLost
  <1>3. Present' = Present /\ Live' = Live
    BY <1>2 DEF Present, Live
  <1>4. TypeOK'
    BY <1>1, <1>2 DEF TypeOK, Steps, Goals
  <1>5. LockHeld' /\ \A q \in Process : ~ InTransaction(q)'
    BY <1>1, <1>2, NoneAssumption DEF LockHeld, InTransaction, TypeOK
  <1>6. GoalFits'
    BY <1>1, <1>2, <1>3 DEF GoalFits, TypeOK
  <1>7. RowsNamed' /\ OneLivePerFamily' /\ EndedStaysEnded'
    BY <1>2, <1>3 DEF IInv, RowsNamed, OneLivePerFamily, EndedStaysEnded, FamiliesOf
  <1>8. RevokingLive'
    BY <1>1, <1>2, <1>3, <1>5 DEF IInv, RevokingLive, TypeOK, InTransaction
  <1>9. SnapshotComplete'
    BY <1>5 DEF SnapshotComplete, InTransaction
  <1> QED
    BY <1>4, <1>5, <1>6, <1>7, <1>8, <1>9 DEF IInv

(* A revocation reads the live rows of its scope.                           *)
LEMMA SnapshotStep ==
    ASSUME IInv, NEW p \in Process, RevokeSnapshot(p)
    PROVE  IInv'
  <1>1. /\ TypeOK /\ LockHeld /\ GoalFits /\ RowsNamed /\ pc[p] = "snapshot"
        /\ goal[p] \in {"family", "user"} /\ lock = p
    BY DEF IInv, RevokeSnapshot, LockHeld, InTransaction, GoalFits
  <1>2. /\ targets' = [targets EXCEPT ![p] = LiveIn(Scope(p))]
        /\ pc' = [pc EXCEPT ![p] = "apply"]
        /\ UNCHANGED <<clock, row, lock, goal, tok, dev, born, revoking, ended>>
    BY DEF RevokeSnapshot
  <1>3. LiveIn(Scope(p)) \subseteq Token
    BY DEF LiveIn, Live
  <1>4. targets' \in [Process -> SUBSET Token] /\ targets'[p] = LiveIn(Scope(p))
    BY <1>1, <1>2, <1>3 DEF TypeOK
  <1>5. /\ TypeOK' /\ LockHeld' /\ RowsNamed' /\ OneLivePerFamily' /\ EndedStaysEnded'
        /\ Present' = Present /\ Live' = Live
        /\ \A q \in Process \ {p} : /\ pc'[q] = pc[q] /\ revoking'[q] = {}
                                    /\ pc'[q] \notin {"commit", "apply"}
        /\ pc'[p] = "apply"
    BY <1>1, <1>2, <1>4, InsideStep DEF TypeOK
  <1>6. GoalFits'
    BY <1>1, <1>2, <1>5 DEF GoalFits
  <1>7. RevokingLive'
    BY <1>1, <1>2, <1>5 DEF IInv, RevokingLive
  <1>8. SnapshotComplete'
    <2>1. Scope(p)' = Scope(p)
      BY <1>2, <1>5 DEF Scope, FamiliesOf
    <2>2. LiveIn(Scope(p))' = LiveIn(Scope(p))
      BY <1>2, <1>5, <2>1 DEF LiveIn
    <2>3. LiveIn(Scope(p)) \subseteq Present
      BY DEF LiveIn, Live, Present
    <2>4. FamiliesOf(targets[p])' \subseteq Scope(p)'
      BY <1>2, <1>4, <2>1 DEF FamiliesOf, LiveIn
    <2> QED
      BY <1>4, <1>5, <2>2, <2>3, <2>4 DEF SnapshotComplete
  <1> QED
    BY <1>5, <1>6, <1>7, <1>8 DEF IInv

(* A sign-in revokes the families of its device.                            *)
LEMMA ReplaceStep ==
    ASSUME IInv, NEW p \in Process, ReplaceDevice(p)
    PROVE  IInv'
  <1>1. /\ TypeOK /\ LockHeld /\ GoalFits /\ pc[p] = "replace" /\ goal[p] = "signIn" /\ lock = p
    BY DEF IInv, ReplaceDevice, LockHeld, InTransaction, GoalFits
  <1>2. PICK same \in SUBSET Live : revoking' = [revoking EXCEPT ![p] = same]
    BY DEF ReplaceDevice, LiveIn
  <1>3. /\ pc' = [pc EXCEPT ![p] = "evict"]
        /\ UNCHANGED <<clock, row, lock, goal, tok, dev, born, targets, ended>>
    BY DEF ReplaceDevice
  <1>4. revoking' \in [Process -> SUBSET Token] /\ revoking'[p] = same
    BY <1>1, <1>2 DEF TypeOK, Live
  <1>5. /\ TypeOK' /\ LockHeld' /\ RowsNamed' /\ OneLivePerFamily' /\ EndedStaysEnded'
        /\ Present' = Present /\ Live' = Live
        /\ \A q \in Process \ {p} : /\ pc'[q] = pc[q] /\ revoking'[q] = {}
                                    /\ pc'[q] \notin {"commit", "apply"}
        /\ pc'[p] = "evict"
    BY <1>1, <1>2, <1>3, <1>4, InsideStep DEF TypeOK
  <1>6. GoalFits'
    BY <1>1, <1>3, <1>5 DEF GoalFits
  <1>7. RevokingLive'
    BY <1>4, <1>5 DEF RevokingLive
  <1>8. SnapshotComplete'
    BY <1>5 DEF SnapshotComplete
  <1> QED
    BY <1>5, <1>6, <1>7, <1>8 DEF IInv

(* A sign-in revokes the oldest families beyond the limit.                  *)
LEMMA EvictStep ==
    ASSUME IInv, NEW p \in Process, EvictOldest(p)
    PROVE  IInv'
  <1>1. /\ TypeOK /\ LockHeld /\ GoalFits /\ pc[p] = "evict" /\ goal[p] = "signIn" /\ lock = p
    BY DEF IInv, EvictOldest, LockHeld, InTransaction, GoalFits
  <1>2. PICK old \in SUBSET Live : revoking' = [revoking EXCEPT ![p] = revoking[p] \cup old]
    <2>1. PICK F : revoking' = [revoking EXCEPT ![p] = @ \cup LiveIn(F)]
      BY DEF EvictOldest
    <2>2. LiveIn(F) \subseteq Live
      BY DEF LiveIn
    <2> QED BY <2>1, <2>2
  <1>3. /\ pc' = [pc EXCEPT ![p] = "issue"]
        /\ UNCHANGED <<clock, row, lock, goal, tok, dev, born, targets, ended>>
    BY DEF EvictOldest
  <1>4. revoking' \in [Process -> SUBSET Token] /\ revoking'[p] \subseteq Live
    BY <1>1, <1>2 DEF TypeOK, Live, IInv, RevokingLive
  <1>5. /\ TypeOK' /\ LockHeld' /\ RowsNamed' /\ OneLivePerFamily' /\ EndedStaysEnded'
        /\ Present' = Present /\ Live' = Live
        /\ \A q \in Process \ {p} : /\ pc'[q] = pc[q] /\ revoking'[q] = {}
                                    /\ pc'[q] \notin {"commit", "apply"}
        /\ pc'[p] = "issue"
    BY <1>1, <1>2, <1>3, <1>4, InsideStep DEF TypeOK
  <1>6. GoalFits'
    BY <1>1, <1>3, <1>5 DEF GoalFits
  <1>7. RevokingLive'
    BY <1>4, <1>5 DEF RevokingLive
  <1>8. SnapshotComplete'
    BY <1>5 DEF SnapshotComplete
  <1> QED
    BY <1>5, <1>6, <1>7, <1>8 DEF IInv

-----------------------------------------------------------------------------
(* Commits.                                                                *)

(* The rows of the snapshot are revoked and committed.                      *)
LEMMA ApplyStep ==
    ASSUME IInv, NEW p \in Process, RevokeApply(p)
    PROVE  IInv'
  <1> DEFINE hit == targets[p] \cap Live
             closed == FamiliesOf(targets[p] \cup ({tok[p]} \ {None}))
  <1>1. /\ TypeOK /\ LockHeld /\ GoalFits /\ RowsNamed /\ OneLivePerFamily /\ EndedStaysEnded
        /\ pc[p] = "apply" /\ goal[p] \in {"family", "user"} /\ lock = p
        /\ Forget(p) /\ ReleaseLock(p) /\ clock' = clock /\ ended' = ended \cup closed
    BY DEF IInv, RevokeApply, LockHeld, InTransaction, GoalFits
  <1>2. /\ LiveIn(Scope(p)) \subseteq targets[p] /\ targets[p] \subseteq Present
        /\ FamiliesOf(targets[p]) \subseteq Scope(p)
        /\ goal[p] = "family" => tok[p] \in Present
        /\ goal[p] = "user" => tok[p] = None
    BY <1>1 DEF IInv, SnapshotComplete, GoalFits
  <1>3. row' = [t \in Token |-> IF t \in hit THEN [row[t] EXCEPT !.status = "revoked"]
                                              ELSE row[t]]
    BY DEF RevokeApply
  <1>4. /\ row' \in [Token -> Row]
        /\ \A t \in Token : row'[t].family = row[t].family
        /\ \A t \in hit : row'[t].status = "revoked"
        /\ \A t \in Token \ hit : row'[t] = row[t]
    <2>1. row \in [Token -> Row]
      BY <1>1 DEF TypeOK
    <2>2. \A t \in hit : t \in Token /\ row'[t] = [row[t] EXCEPT !.status = "revoked"]
      BY <1>3 DEF Live
    <2>3. \A t \in Token \ hit : row'[t] = row[t]
      BY <1>3
    <2>4. \A t \in hit : /\ row'[t] \in Row /\ row'[t].status = "revoked"
                        /\ row'[t].family = row[t].family
      <3> SUFFICES ASSUME NEW t \in hit
                   PROVE  /\ row'[t] \in Row /\ row'[t].status = "revoked"
                          /\ row'[t].family = row[t].family
        OBVIOUS
      <3>1. row[t] \in Row /\ row'[t] = [row[t] EXCEPT !.status = "revoked"]
        BY <2>1, <2>2
      <3> QED
        BY <3>1 DEF Row
    <2>5. \A t \in Token : row'[t] \in Row /\ row'[t].family = row[t].family
      BY <2>1, <2>3, <2>4
    <2>6. row' \in [Token -> Row]
      BY <1>3, <2>5
    <2> QED
      BY <2>3, <2>4, <2>5, <2>6
  <1>5. Present' = Present /\ Live' = Live \ hit
    BY <1>4 DEF Present, Live
  <1>6. closed \subseteq Scope(p) /\ closed \subseteq Present
    <2>1. \A t \in targets[p] \cup ({tok[p]} \ {None}) : t \in Present
      BY <1>1, <1>2
    <2>2. closed \subseteq Scope(p)
      BY <1>1, <1>2 DEF Scope, FamiliesOf
    <2>3. closed \subseteq Present
      BY <1>1, <2>1 DEF FamiliesOf, RowsNamed
    <2> QED BY <2>2, <2>3
  <1>7. TypeOK' /\ LockHeld' /\ GoalFits'
    BY <1>1, <1>4, <1>5, <1>6, Leaving DEF TypeOK, Present
  <1>8. RowsNamed'
    BY <1>1, <1>4, <1>5, <1>6 DEF RowsNamed, Present
  <1>9. OneLivePerFamily'
    BY <1>1, <1>4, <1>5 DEF OneLivePerFamily, Live
  <1>10. EndedStaysEnded'
    <2> SUFFICES ASSUME NEW t \in Live' PROVE row'[t].family \notin ended'
      BY DEF EndedStaysEnded, FamiliesOf
    <2>1. t \in Live /\ t \in Token /\ t \notin targets[p] /\ row'[t].family = row[t].family
      BY <1>4, <1>5 DEF Live
    <2>2. row[t].family \notin Scope(p)
      BY <1>2, <2>1 DEF LiveIn
    <2>3. row[t].family \notin ended
      BY <1>1, <2>1 DEF EndedStaysEnded, FamiliesOf
    <2> QED
      BY <1>1, <1>6, <2>1, <2>2, <2>3
  <1>11. RevokingLive' /\ SnapshotComplete'
    BY <1>1, <1>5, HolderLeft
  <1> QED
    BY <1>7, <1>8, <1>9, <1>10, <1>11 DEF IInv

(* The successor is inserted and the rotation committed.                    *)
LEMMA RotationStep ==
    ASSUME IInv, NEW p \in Process, CommitRotation(p)
    PROVE  IInv'
  <1>1. /\ TypeOK /\ LockHeld /\ GoalFits /\ RowsNamed /\ OneLivePerFamily /\ EndedStaysEnded
        /\ pc[p] = "commit" /\ lock = p /\ tok[p] \in Live /\ tok[p] \in Token
        /\ Forget(p) /\ ReleaseLock(p) /\ clock' = clock /\ ended' = ended
    BY DEF IInv, CommitRotation, LockHeld, InTransaction, RevokingLive, Live
  <1>2. PICK n \in Unused :
          row' = [row EXCEPT ![tok[p]] = [@ EXCEPT !.status = "revoked", !.next = n],
                             ![n] = Successor(p)]
    BY DEF CommitRotation
  <1>3. n \in Token /\ n \notin Present /\ n # tok[p] /\ n \notin Live
    BY <1>1, <1>2 DEF Unused, Present, Live
  <1>4. /\ Successor(p) \in Row
        /\ Successor(p).status = "live"
        /\ Successor(p).family = row[tok[p]].family
    BY <1>1, LimitsAssumption DEF TypeOK, Row, Successor
  <1>5. /\ row' \in [Token -> Row]
        /\ row'[n] = Successor(p)
        /\ row'[tok[p]].status = "revoked" /\ row'[tok[p]].family = row[tok[p]].family
        /\ \A t \in Token \ {n, tok[p]} : row'[t] = row[t]
    <2>1. row \in [Token -> Row] /\ row[tok[p]] \in Row
      BY <1>1 DEF TypeOK
    <2>2. row'[n] = Successor(p) /\ \A t \in Token \ {n, tok[p]} : row'[t] = row[t]
      BY <1>1, <1>2, <1>3, <2>1
    <2>3. row'[tok[p]] = [row[tok[p]] EXCEPT !.status = "revoked", !.next = n]
      BY <1>1, <1>2, <1>3, <2>1
    <2>4. row'[tok[p]] \in Row /\ row'[tok[p]].status = "revoked"
          /\ row'[tok[p]].family = row[tok[p]].family
      BY <1>3, <2>1, <2>3 DEF Row
    <2>5. row' \in [Token -> Row]
      BY <1>1, <1>2, <1>3, <1>4, <2>1, <2>4
    <2> QED
      BY <2>2, <2>4, <2>5
  <1>6. Present' = Present \cup {n} /\ Live' = (Live \ {tok[p]}) \cup {n}
    BY <1>1, <1>3, <1>4, <1>5 DEF Present, Live
  <1>7. TypeOK' /\ LockHeld' /\ GoalFits'
    BY <1>1, <1>5, <1>6, Leaving DEF TypeOK
  <1>8. RowsNamed'
    <2>1. row[tok[p]].family \in Present
      BY <1>1 DEF RowsNamed, Live, Present
    <2> QED
      BY <1>1, <1>3, <1>4, <1>5, <1>6, <2>1 DEF RowsNamed, Present
  <1>9. OneLivePerFamily'
    <2> SUFFICES ASSUME NEW t \in Live', NEW u \in Live', row'[t].family = row'[u].family
                 PROVE  t = u
      BY DEF OneLivePerFamily
    <2>1. \A v \in Live \ {tok[p]} : row'[v] = row[v] /\ row[v].family # row[tok[p]].family
      BY <1>1, <1>3, <1>5 DEF OneLivePerFamily, Live
    <2> QED
      BY <1>1, <1>4, <1>5, <1>6, <2>1 DEF OneLivePerFamily
  <1>10. EndedStaysEnded'
    <2> SUFFICES ASSUME NEW t \in Live' PROVE row'[t].family \notin ended
      BY <1>1 DEF EndedStaysEnded, FamiliesOf
    <2>1. row[tok[p]].family \notin ended
      BY <1>1 DEF EndedStaysEnded, FamiliesOf
    <2>2. CASE t = n
      BY <2>1, <2>2, <1>4, <1>5
    <2>3. CASE t # n
      <3>1. t \in Live /\ row'[t] = row[t]
        BY <2>3, <1>5, <1>6 DEF Live
      <3> QED
        BY <3>1, <1>1 DEF EndedStaysEnded, FamiliesOf
    <2> QED BY <2>2, <2>3
  <1>11. RevokingLive' /\ SnapshotComplete'
    BY <1>1, <1>6, HolderLeft
  <1> QED
    BY <1>7, <1>8, <1>9, <1>10, <1>11 DEF IInv

(* The first token of a family is inserted and committed.                   *)
LEMMA SignInStep ==
    ASSUME IInv, NEW p \in Process, CommitSignIn(p)
    PROVE  IInv'
  <1>1. /\ TypeOK /\ LockHeld /\ GoalFits /\ RowsNamed /\ OneLivePerFamily /\ EndedStaysEnded
        /\ pc[p] = "issue" /\ lock = p /\ revoking[p] \subseteq Live
        /\ Forget(p) /\ ReleaseLock(p) /\ clock' = clock
        /\ ended' = ended \cup FamiliesOf(revoking[p])
    BY DEF IInv, CommitSignIn, LockHeld, InTransaction, RevokingLive
  <1>2. PICK n \in Unused :
          row' = [t \in Token |->
                    IF t = n THEN FirstRow(p, n)
                    ELSE IF t \in revoking[p] THEN [row[t] EXCEPT !.status = "revoked"]
                    ELSE row[t]]
    BY DEF CommitSignIn
  <1>3. n \in Token /\ n \notin Present /\ n \notin Live /\ n \notin revoking[p]
    BY <1>1, <1>2 DEF Unused, Present, Live
  <1>4. FirstRow(p, n) \in Row /\ FirstRow(p, n).status = "live" /\ FirstRow(p, n).family = n
    BY <1>1, <1>3, LimitsAssumption DEF TypeOK, Row, FirstRow
  <1>5. /\ row' \in [Token -> Row]
        /\ row'[n] = FirstRow(p, n)
        /\ \A t \in Token \ {n} : row'[t].family = row[t].family
        /\ \A t \in revoking[p] : row'[t].status = "revoked"
        /\ \A t \in Token \ ({n} \cup revoking[p]) : row'[t] = row[t]
    <2>1. row \in [Token -> Row] /\ revoking[p] \subseteq Token \ {n}
      BY <1>1, <1>3 DEF TypeOK, Live
    <2>2. row'[n] = FirstRow(p, n)
      BY <1>2, <1>3
    <2>3. \A t \in Token \ ({n} \cup revoking[p]) : row'[t] = row[t]
      BY <1>2
    <2>4. \A t \in revoking[p] : row'[t] = [row[t] EXCEPT !.status = "revoked"]
      BY <1>2, <2>1
    <2>5. \A t \in revoking[p] : /\ row'[t] \in Row /\ row'[t].status = "revoked"
                                /\ row'[t].family = row[t].family
      <3> SUFFICES ASSUME NEW t \in revoking[p]
                   PROVE  /\ row'[t] \in Row /\ row'[t].status = "revoked"
                          /\ row'[t].family = row[t].family
        OBVIOUS
      <3>1. row[t] \in Row /\ row'[t] = [row[t] EXCEPT !.status = "revoked"]
        BY <2>1, <2>4
      <3> QED
        BY <3>1 DEF Row
    <2>6. \A t \in Token \ {n} : row'[t] \in Row /\ row'[t].family = row[t].family
      BY <2>1, <2>3, <2>5
    <2>7. \A t \in Token : row'[t] \in Row
      BY <1>4, <2>2, <2>6
    <2>8. row' \in [Token -> Row]
      BY <1>2, <2>7
    <2> QED
      BY <2>2, <2>3, <2>5, <2>6, <2>8
  <1>6. Live' = (Live \ revoking[p]) \cup {n}
    BY <1>3, <1>4, <1>5 DEF Live
  <1>7. Present' = Present \cup {n}
    BY <1>1, <1>3, <1>4, <1>5 DEF Present, Live
  <1>8. FamiliesOf(revoking[p]) \subseteq Present
    BY <1>1 DEF FamiliesOf, RowsNamed, Live, Present
  <1>9. TypeOK' /\ LockHeld' /\ GoalFits'
    BY <1>1, <1>5, <1>7, <1>8, Leaving DEF TypeOK, Present
  <1>10. RowsNamed'
    BY <1>1, <1>3, <1>4, <1>5, <1>7, <1>8 DEF RowsNamed, Present
  <1>11. \A t \in Live : row[t].family # n
    BY <1>1, <1>3 DEF RowsNamed, Live, Present
  <1>12. OneLivePerFamily'
    BY <1>1, <1>4, <1>5, <1>6, <1>11 DEF OneLivePerFamily, Live
  <1>13. EndedStaysEnded'
    <2> SUFFICES ASSUME NEW t \in Live' PROVE row'[t].family \notin ended'
      BY DEF EndedStaysEnded, FamiliesOf
    <2>1. CASE t = n
      BY <2>1, <1>1, <1>3, <1>4, <1>5, <1>8 DEF RowsNamed
    <2>2. CASE t # n
      <3>1. t \in Live /\ t \notin revoking[p] /\ row'[t].family = row[t].family
        BY <2>2, <1>5, <1>6 DEF Live
      <3>2. row[t].family \notin ended
        BY <3>1, <1>1 DEF EndedStaysEnded, FamiliesOf
      <3>3. row[t].family \notin FamiliesOf(revoking[p])
        BY <3>1, <1>1 DEF OneLivePerFamily, FamiliesOf
      <3> QED
        BY <3>1, <3>2, <3>3, <1>1
    <2> QED BY <2>1, <2>2
  <1>14. RevokingLive' /\ SnapshotComplete'
    BY <1>1, <1>7, HolderLeft
  <1> QED
    BY <1>9, <1>10, <1>12, <1>13, <1>14 DEF IInv

-----------------------------------------------------------------------------
(* Time passes.                                                             *)
LEMMA TickStep ==
    ASSUME IInv, UNCHANGED <<row, lock, requestVars, ended>>, clock' \in Nat
    PROVE  IInv'
  <1>1. /\ row' = row /\ lock' = lock /\ ended' = ended /\ pc' = pc /\ goal' = goal
        /\ tok' = tok /\ dev' = dev /\ born' = born /\ targets' = targets
        /\ revoking' = revoking
    BY DEF requestVars
  <1>2. TypeOK' /\ LockHeld' /\ GoalFits' /\ RowsNamed' /\ RevokingLive'
    BY <1>1 DEF IInv, TypeOK, LockHeld, InTransaction, GoalFits, RowsNamed, RevokingLive,
                Present, Live
  <1>3. OneLivePerFamily' /\ EndedStaysEnded'
    BY <1>1 DEF IInv, OneLivePerFamily, EndedStaysEnded, FamiliesOf, Live
  <1>4. SnapshotComplete'
    <2> SUFFICES ASSUME NEW q \in Process, pc'[q] = "apply"
                 PROVE  /\ LiveIn(Scope(q))' \subseteq targets'[q]
                        /\ targets'[q] \subseteq Present'
                        /\ FamiliesOf(targets[q])' \subseteq Scope(q)'
      BY DEF SnapshotComplete
    <2>1. Present' = Present /\ Live' = Live
      BY <1>1 DEF Present, Live
    <2>2. Scope(q)' = Scope(q) /\ FamiliesOf(targets[q])' = FamiliesOf(targets[q])
      BY <1>1, <2>1 DEF Scope, FamiliesOf
    <2>3. LiveIn(Scope(q))' = LiveIn(Scope(q))
      BY <1>1, <2>1, <2>2 DEF LiveIn
    <2> QED
      BY <1>1, <2>1, <2>2, <2>3 DEF IInv, SnapshotComplete
  <1> QED
    BY <1>2, <1>3, <1>4 DEF IInv

(* Every step of the specification preserves the inductive invariant.       *)
LEMMA NextInvariant == IInv /\ [Next]_vars => IInv'
  <1> SUFFICES ASSUME IInv, [Next]_vars PROVE IInv'
    OBVIOUS
  <1>1. ASSUME NEW p \in Process, Begin(p) PROVE IInv'
    BY <1>1, BeginStep
  <1>2. ASSUME NEW p \in Process, LockUser(p) PROVE IInv'
    BY <1>2, LockStep
  <1>3. ASSUME NEW p \in Process, RetireExpired(p) PROVE IInv'
    BY <1>3, RetireStep
  <1>4. ASSUME NEW p \in Process, Rotate(p) PROVE IInv'
    BY <1>4, ClaimStep, ClaimLostStep, RotationStep DEF Rotate
  <1>5. ASSUME NEW p \in Process, Recheck(p) PROVE IInv'
    <2>1. CASE RecheckReused(p)
      BY <2>1, RecheckStep
    <2>2. CASE RecheckLive(p)
      <3>1. pc[p] = "recheck" /\ Forget(p) /\ UNCHANGED <<clock, row, lock, ended>>
        BY <2>2 DEF RecheckLive
      <3>2. ReleaseLock(p)
        BY <3>1 DEF ReleaseLock, IInv, LockHeld, InTransaction
      <3> QED
        BY <3>1, <3>2, FailStep
    <2> QED BY <1>5, <2>1, <2>2 DEF Recheck
  <1>6. ASSUME NEW p \in Process, Revoke(p) PROVE IInv'
    BY <1>6, SnapshotStep, ApplyStep DEF Revoke
  <1>7. ASSUME NEW p \in Process, SignIn(p) PROVE IInv'
    BY <1>7, ReplaceStep, EvictStep, SignInStep DEF SignIn
  <1>8. ASSUME NEW p \in Process, Fail(p) PROVE IInv'
    BY <1>8, FailStep DEF Fail
  <1>9. CASE Tick
    <2>1. clock' \in Nat
      BY <1>9 DEF Tick, IInv, TypeOK
    <2> QED BY <1>9, <2>1, TickStep DEF Tick
  <1>10. CASE UNCHANGED vars
    <2>1. clock' \in Nat
      BY <1>10 DEF vars, IInv, TypeOK
    <2> QED BY <1>10, <2>1, TickStep DEF vars
  <1> QED
    BY <1>1, <1>2, <1>3, <1>4, <1>5, <1>6, <1>7, <1>8, <1>9, <1>10 DEF Next, Advance

(* The strengthened invariant holds in every reachable state.               *)
THEOREM Invariance == Spec => []IInv
  BY InitInvariant, NextInvariant, PTL DEF Spec

(* Every variable keeps its type (the shape of the RefreshToken rows and of *)
(* the requests' locals).                                                   *)
THEOREM TypeCorrect == Spec => []TypeOK
  <1>1. IInv => TypeOK
    BY DEF IInv
  <1> QED
    BY <1>1, Invariance, PTL

(* However many requests present the same refresh token, a family never has *)
(* two live tokens (refreshSession's conditional claim under the user lock).*)
THEOREM SingleLiveToken == Spec => []OneLivePerFamily
  <1>1. IInv => OneLivePerFamily
    BY DEF IInv
  <1> QED
    BY <1>1, Invariance, PTL

(* A family closed by logout, reuse detection or a sign-in never has a live *)
(* token again, whatever rotation was in flight (lockRefreshUser).          *)
THEOREM ClosedFamilyStaysClosed == Spec => []EndedStaysEnded
  <1>1. IInv => EndedStaysEnded
    BY DEF IInv
  <1> QED
    BY <1>1, Invariance, PTL

-----------------------------------------------------------------------------
(* What a step makes of the rows.                                          *)

(* The columns no statement updates.                                       *)
Kept(t) ==
    /\ row'[t].family = row[t].family
    /\ row'[t].device = row[t].device
    /\ row'[t].born = row[t].born
    /\ row'[t].expires = row[t].expires

Revoked(S) ==
    /\ S \subseteq Present
    /\ \A t \in Token : Kept(t) /\ row'[t].next = row[t].next
    /\ \A t \in S : row'[t].status = "revoked"
    /\ \A t \in Token \ S : row'[t] = row[t]

Rotated(p, n) ==
    /\ n \in Unused /\ tok[p] \in Live
    /\ row'[n] = Successor(p)
    /\ \A t \in Token \ {n} : Kept(t)
    /\ row'[tok[p]].status = "revoked" /\ row'[tok[p]].next = n
    /\ \A t \in Token \ {n, tok[p]} : row'[t] = row[t]

Opened(p, n) ==
    /\ n \in Unused /\ revoking[p] \subseteq Live
    /\ row'[n] = FirstRow(p, n)
    /\ \A t \in Token \ {n} : Kept(t) /\ row'[t].next = row[t].next
    /\ \A t \in revoking[p] : row'[t].status = "revoked"
    /\ \A t \in Token \ ({n} \cup revoking[p]) : row'[t] = row[t]

(* Revoking a row changes its status only.                                  *)
LEMMA RevokedRecord ==
    ASSUME NEW r \in Row
    PROVE  LET s == [r EXCEPT !.status = "revoked"] IN
           /\ s.status = "revoked" /\ s.family = r.family /\ s.device = r.device
           /\ s.born = r.born /\ s.expires = r.expires /\ s.next = r.next
  BY DEF Row

(* The retirement of an expired token revokes one row.                      *)
LEMMA RetiredRows ==
    ASSUME IInv, NEW p \in Process, RetireExpired(p)
    PROVE  Revoked({tok[p]})
  <1>1. TypeOK /\ tok[p] \in Present /\ tok[p] \in Token
    BY DEF IInv, RetireExpired, GoalFits, Present
  <1>2. row' = [row EXCEPT ![tok[p]] = [row[tok[p]] EXCEPT !.status = "revoked"]]
    BY DEF RetireExpired
  <1>3. row[tok[p]] \in Row
    BY <1>1 DEF TypeOK
  <1>4. row'[tok[p]] = [row[tok[p]] EXCEPT !.status = "revoked"]
    BY <1>1, <1>2 DEF TypeOK
  <1>5. \A t \in Token \ {tok[p]} : row'[t] = row[t]
    BY <1>1, <1>2 DEF TypeOK
  <1>6. /\ row'[tok[p]].status = "revoked" /\ row'[tok[p]].next = row[tok[p]].next
        /\ Kept(tok[p])
    BY <1>3, <1>4, RevokedRecord DEF Kept
  <1> QED
    BY <1>1, <1>5, <1>6 DEF Revoked, Kept

(* A revocation revokes the live rows of its snapshot.                      *)
LEMMA AppliedRows ==
    ASSUME IInv, NEW p \in Process, RevokeApply(p)
    PROVE  Revoked(targets[p] \cap Live)
  <1> DEFINE hit == targets[p] \cap Live
  <1>1. TypeOK /\ hit \subseteq Present /\ hit \subseteq Token
    BY DEF IInv, Live, Present
  <1>2. row' = [t \in Token |-> IF t \in hit THEN [row[t] EXCEPT !.status = "revoked"]
                                              ELSE row[t]]
    BY DEF RevokeApply
  <1> HIDE DEF hit
  <1>3. \A t \in Token \ hit : row'[t] = row[t]
    BY <1>2
  <1>4. ASSUME NEW t \in hit
        PROVE  row'[t].status = "revoked" /\ row'[t].next = row[t].next /\ Kept(t)
    <2>1. row[t] \in Row /\ row'[t] = [row[t] EXCEPT !.status = "revoked"]
      BY <1>1, <1>2 DEF TypeOK
    <2> QED
      BY <2>1, RevokedRecord DEF Kept
  <1>5. Revoked(hit)
    BY <1>1, <1>3, <1>4 DEF Revoked, Kept
  <1> QED
    BY <1>5 DEF hit

(* A rotation revokes the claimed row and adds its successor.               *)
LEMMA RotatedRows ==
    ASSUME IInv, NEW p \in Process, CommitRotation(p)
    PROVE  \E n \in Token : Rotated(p, n)
  <1>1. TypeOK /\ tok[p] \in Live /\ tok[p] \in Token
    BY DEF IInv, CommitRotation, RevokingLive, Live
  <1>2. PICK n \in Unused :
          row' = [row EXCEPT ![tok[p]] = [@ EXCEPT !.status = "revoked", !.next = n],
                             ![n] = Successor(p)]
    BY DEF CommitRotation
  <1>3. n \in Token /\ n # tok[p]
    BY <1>1, <1>2 DEF Unused, Present, Live
  <1>4. row[tok[p]] \in Row
    BY <1>1 DEF TypeOK
  <1>5. /\ row'[n] = Successor(p)
        /\ row'[tok[p]] = [row[tok[p]] EXCEPT !.status = "revoked", !.next = n]
        /\ \A t \in Token \ {n, tok[p]} : row'[t] = row[t]
    BY <1>1, <1>2, <1>3 DEF TypeOK
  <1>6. /\ row'[tok[p]].status = "revoked" /\ row'[tok[p]].next = n
        /\ Kept(tok[p])
    BY <1>4, <1>5 DEF Kept, Row
  <1>7. \A t \in Token \ {n} : Kept(t)
    BY <1>5, <1>6 DEF Kept
  <1> QED
    BY <1>1, <1>2, <1>3, <1>5, <1>6, <1>7 DEF Rotated

(* A sign-in revokes what it displaces and adds a family.                   *)
LEMMA OpenedRows ==
    ASSUME IInv, NEW p \in Process, CommitSignIn(p)
    PROVE  \E n \in Token : Opened(p, n)
  <1>1. TypeOK /\ revoking[p] \subseteq Live /\ revoking[p] \subseteq Token
    BY DEF IInv, CommitSignIn, RevokingLive, Live
  <1>2. PICK n \in Unused :
          row' = [t \in Token |->
                    IF t = n THEN FirstRow(p, n)
                    ELSE IF t \in revoking[p] THEN [row[t] EXCEPT !.status = "revoked"]
                    ELSE row[t]]
    BY DEF CommitSignIn
  <1>3. n \in Token /\ n \notin revoking[p]
    BY <1>1, <1>2 DEF Unused, Present, Live
  <1>4. row'[n] = FirstRow(p, n) /\ \A t \in Token \ ({n} \cup revoking[p]) : row'[t] = row[t]
    BY <1>2, <1>3
  <1>5. ASSUME NEW t \in revoking[p]
        PROVE  row'[t].status = "revoked" /\ row'[t].next = row[t].next /\ Kept(t)
    <2>1. row[t] \in Row /\ row'[t] = [row[t] EXCEPT !.status = "revoked"]
      BY <1>1, <1>2, <1>3 DEF TypeOK
    <2> QED
      BY <2>1, RevokedRecord DEF Kept
  <1>6. \A t \in Token \ {n} : Kept(t) /\ row'[t].next = row[t].next
    BY <1>4, <1>5 DEF Kept
  <1> QED
    BY <1>1, <1>2, <1>3, <1>4, <1>5, <1>6 DEF Opened

(* What a revocation does to the live rows.                                 *)
LEMMA RevokedSets ==
    ASSUME NEW S, Revoked(S)
    PROVE  Present' = Present /\ Live' = Live \ S
  BY DEF Revoked, Present, Live

(* What a rotation does to them.                                            *)
LEMMA RotatedSets ==
    ASSUME NEW p \in Process, NEW n \in Token, Rotated(p, n)
    PROVE  /\ n \notin Present /\ tok[p] \in Present /\ tok[p] # n
           /\ Present' = Present \cup {n}
           /\ Live' = (Live \ {tok[p]}) \cup {n}
  <1>1. n \notin Present /\ n \notin Live /\ tok[p] \in Present /\ tok[p] \in Token /\ tok[p] # n
    BY DEF Rotated, Unused, Present, Live
  <1>2. row'[n].status = "live"
    BY DEF Rotated, Successor
  <1> QED
    BY <1>1, <1>2 DEF Rotated, Present, Live

(* What a sign-in does to them.                                             *)
LEMMA OpenedSets ==
    ASSUME NEW p \in Process, NEW n \in Token, Opened(p, n)
    PROVE  /\ n \notin Present
           /\ Present' = Present \cup {n}
           /\ Live' = (Live \ revoking[p]) \cup {n}
  <1>1. n \notin Present /\ n \notin Live /\ revoking[p] \subseteq Live
    BY DEF Opened, Unused, Present, Live
  <1>2. row'[n].status = "live"
    BY DEF Opened, FirstRow
  <1> QED
    BY <1>1, <1>2 DEF Opened, Present, Live

(* Every step is one of these, or leaves the rows alone.                   *)
RowsAlone == row' = row

(* Rows change in one of these four ways or stay.                           *)
LEMMA RowSteps ==
    ASSUME IInv, [Next]_vars
    PROVE  \/ RowsAlone
           \/ \E p \in Process : RetireExpired(p) /\ Revoked({tok[p]})
           \/ \E p \in Process : RevokeApply(p) /\ Revoked(targets[p] \cap Live)
           \/ \E p \in Process, n \in Token : CommitRotation(p) /\ Rotated(p, n)
           \/ \E p \in Process, n \in Token : CommitSignIn(p) /\ Opened(p, n)
  <1>1. ASSUME NEW p \in Process, Begin(p) \/ LockUser(p) \/ Recheck(p) \/ Fail(p)
        PROVE  RowsAlone
    BY <1>1 DEF RowsAlone, Begin, BeginRefresh, BeginLogout, BeginLogoutAll, BeginSignIn,
                LockUser, Recheck, RecheckReused, RecheckLive, Fail
  <1>2. ASSUME NEW p \in Process, \/ Claim(p) \/ ClaimLost(p) \/ RevokeSnapshot(p)
                                  \/ ReplaceDevice(p) \/ EvictOldest(p)
        PROVE  RowsAlone
    BY <1>2 DEF RowsAlone, Claim, ClaimLost, RevokeSnapshot, ReplaceDevice, EvictOldest
  <1>3. CASE Tick \/ UNCHANGED vars
    BY <1>3 DEF RowsAlone, Tick, vars
  <1> QED
    BY <1>1, <1>2, <1>3, RetiredRows, AppliedRows, RotatedRows, OpenedRows
    DEF Next, Advance, Rotate, Revoke, SignIn

-----------------------------------------------------------------------------
(* The chain of a family's tokens, and its age.                            *)

(* Tokens of a family stay chained.                                         *)
LEMMA ChainStep ==
    ASSUME IInv, LookedUp, RotationChain, [Next]_vars
    PROVE  RotationChain'
  <1>0. TypeOK /\ RowsNamed
    BY DEF IInv
  <1>1. CASE RowsAlone
    BY <1>1 DEF RowsAlone, RotationChain, Present
  <1>2. ASSUME NEW S, Revoked(S) PROVE RotationChain'
    <2>1. Present' = Present /\ S \subseteq Token
      BY <1>2, RevokedSets DEF Revoked, Present
    <2>2. \A t \in Token : row[t].status = "revoked" => row'[t].status = "revoked"
      BY <1>2, <2>1 DEF Revoked
    <2> QED
      BY <1>2, <2>1, <2>2 DEF RotationChain, Revoked, Kept, Present
  <1>3. ASSUME NEW p \in Process, NEW n \in Token, CommitRotation(p), Rotated(p, n)
        PROVE  RotationChain'
    <2> DEFINE old == tok[p]
    <2>1. /\ n \notin Present /\ old \in Present /\ old \in Token /\ old # n
          /\ Present' = Present \cup {n} /\ row[old].status = "live" /\ n # None
      BY <1>3, RotatedSets, NoneAssumption DEF Rotated, Live
    <2>2. DeviceMatches(old, dev[p])
      BY <1>3 DEF IInv, GoalFits, CommitRotation, LookedUp
    <2>3. /\ row'[n].next = None /\ row'[n].status = "live"
          /\ row'[n].family = row[old].family /\ row'[n].born = row[old].born
          /\ row[old].device # None => row'[n].device = row[old].device
      BY <1>3, <2>2 DEF Rotated, Successor, DeviceMatches
    <2>5. \A t \in Present : row[t].next # n
      BY <2>1 DEF RotationChain
    <2>6. row'[old].next = n /\ row'[old].status = "revoked" /\ Kept(old)
      BY <1>3, <2>1 DEF Rotated
    <2>7. \A t \in Present \ {old} : row'[t] = row[t] /\ Kept(t)
      BY <1>3, <2>1 DEF Rotated, Present
    <2> SUFFICES ASSUME NEW t \in Present', row'[t].next # None
                 PROVE  LET m == row'[t].next IN
                        /\ m \in Present'
                        /\ row'[t].status = "revoked"
                        /\ row'[m].family = row'[t].family
                        /\ row'[m].born = row'[t].born
                        /\ row'[t].device # None => row'[m].device = row'[t].device
                        /\ \A u \in Present' : row'[u].next = m => u = t
      BY DEF RotationChain
    <2>8. CASE t = old
      BY <2>1, <2>3, <2>5, <2>6, <2>7, <2>8 DEF Kept
    <2>9. CASE t # old
      <3>1. t \in Present /\ row'[t] = row[t] /\ row[t].next # None
        BY <2>1, <2>3, <2>7, <2>9
      <3>2. /\ row[t].next \in Present /\ row[t].status = "revoked"
            /\ row[row[t].next].family = row[t].family
            /\ row[row[t].next].born = row[t].born
            /\ row[t].device # None => row[row[t].next].device = row[t].device
            /\ \A u \in Present : row[u].next = row[t].next => u = t
        BY <3>1 DEF RotationChain
      <3>3. Kept(row[t].next)
        BY <2>6, <2>7, <3>2
      <3>4. \A u \in Present' : row'[u].next = row[t].next => u = t
        BY <2>1, <2>3, <2>6, <2>7, <3>1, <3>2
      <3> QED
        BY <2>1, <3>1, <3>2, <3>3, <3>4 DEF Kept
    <2> QED
      BY <2>8, <2>9
  <1>4. ASSUME NEW p \in Process, NEW n \in Token, Opened(p, n)
        PROVE  RotationChain'
    <2>1. /\ n \notin Present /\ Present' = Present \cup {n}
          /\ row'[n].next = None
      BY <1>4, OpenedSets DEF Opened, FirstRow
    <2>2. \A t \in Present :
             /\ Kept(t) /\ row'[t].next = row[t].next
             /\ row[t].status = "revoked" => row'[t].status = "revoked"
      BY <1>4, <2>1 DEF Opened, Present
    <2> QED
      BY <2>1, <2>2 DEF RotationChain, Kept
  <1> QED
    BY <1>1, <1>2, <1>3, <1>4, RowSteps

(* A successor keeps the birth of its family.                               *)
LEMMA BornStep ==
    ASSUME IInv, BornCopied, [Next]_vars
    PROVE  BornCopied'
  <1>0. RowsNamed
    BY DEF IInv
  <1>1. CASE RowsAlone
    BY <1>1 DEF RowsAlone, BornCopied, BornOf, Present
  <1>2. ASSUME NEW S, Revoked(S) PROVE BornCopied'
    <2>1. Present' = Present /\ \A t \in Present : Kept(t) /\ row[t].family \in Present
      BY <1>0, <1>2, RevokedSets DEF Revoked, Present, RowsNamed
    <2> QED
      BY <2>1 DEF BornCopied, BornOf, Kept
  <1>3. ASSUME NEW p \in Process, NEW n \in Token, Rotated(p, n)
        PROVE  BornCopied'
    <2>1. /\ n \notin Present /\ tok[p] \in Present
          /\ Present' = Present \cup {n}
      BY <1>3, RotatedSets
    <2>2. \A t \in Present : Kept(t) /\ row[t].family \in Present
      BY <1>0, <1>3, <2>1 DEF Rotated, Present, RowsNamed
    <2>3. row'[n].family = row[tok[p]].family /\ row'[n].born = row[tok[p]].born
      BY <1>3 DEF Rotated, Successor
    <2> QED
      BY <2>1, <2>2, <2>3 DEF BornCopied, BornOf, Kept
  <1>4. ASSUME NEW p \in Process, NEW n \in Token, Opened(p, n)
        PROVE  BornCopied'
    <2>1. n \notin Present /\ Present' = Present \cup {n}
      BY <1>4, OpenedSets
    <2>2. \A t \in Present : Kept(t) /\ row[t].family \in Present
      BY <1>0, <1>4, <2>1 DEF Opened, Present, RowsNamed
    <2>3. row'[n].family = n
      BY <1>4 DEF Opened, FirstRow
    <2> QED
      BY <2>1, <2>2, <2>3 DEF BornCopied, BornOf, Kept
  <1> QED
    BY <1>1, <1>2, <1>3, <1>4, RowSteps

-----------------------------------------------------------------------------
(* What a request has looked up or prepared outlives the others' steps.    *)

Acts(p) == Begin(p) \/ LockUser(p) \/ Advance(p) \/ Fail(p)

(* A request's step leaves the program counters and transactions of the     *)
(* others.                                                                  *)
LEMMA OthersUntouched ==
    ASSUME TypeOK, NEW p \in Process, Acts(p), NEW q \in Process, q # p
    PROVE  /\ pc'[q] = pc[q] /\ goal'[q] = goal[q] /\ tok'[q] = tok[q] /\ dev'[q] = dev[q]
           /\ revoking'[q] = revoking[q]
  <1> DEFINE Untouched == /\ pc'[q] = pc[q] /\ goal'[q] = goal[q] /\ tok'[q] = tok[q]
                          /\ dev'[q] = dev[q] /\ revoking'[q] = revoking[q]
  <1>1. ASSUME Forget(p) PROVE Untouched
    BY <1>1 DEF Forget, TypeOK
  <1>2. ASSUME NEW step, Goto(p, step) PROVE Untouched
    BY <1>2 DEF Goto, TypeOK
  <1>3. ASSUME NEW g, NEW t, NEW d, NEW step, Enter(p, g, t, d, step) PROVE Untouched
    BY <1>3 DEF Enter, TypeOK
  <1>4. ASSUME BeginSignIn(p) PROVE Untouched
    BY <1>4 DEF BeginSignIn, TypeOK
  <1>5. ASSUME Begin(p) PROVE Untouched
    BY <1>3, <1>4, <1>5 DEF Begin, BeginRefresh, BeginLogout, BeginLogoutAll, RefreshReused,
                            RefreshExpired, RefreshTooOld, RefreshLive
  <1>6. ASSUME Claim(p) \/ ClaimLost(p) \/ RevokeSnapshot(p) \/ ReplaceDevice(p) PROVE Untouched
    BY <1>6 DEF Claim, ClaimLost, RevokeSnapshot, ReplaceDevice, TypeOK
  <1>7. ASSUME EvictOldest(p) PROVE Untouched
    BY <1>7 DEF EvictOldest, TypeOK
  <1>8. ASSUME LockUser(p) PROVE Untouched
    BY <1>2, <1>8 DEF LockUser
  <1>9. ASSUME \/ RetireExpired(p) \/ CommitRotation(p) \/ RevokeApply(p) \/ CommitSignIn(p)
               \/ Fail(p)
        PROVE  Untouched
    BY <1>1, <1>9 DEF RetireExpired, CommitRotation, RevokeApply, CommitSignIn, Fail
  <1>10. ASSUME Recheck(p) PROVE Untouched
    BY <1>1, <1>3, <1>10 DEF Recheck, RecheckReused, RecheckLive
  <1> QED
    BY <1>5, <1>6, <1>7, <1>8, <1>9, <1>10 DEF Acts, Advance, Rotate, Revoke, SignIn

(* A row is never removed, and keeps its family, device, birth and expiry.  *)
LEMMA RowsKept ==
    ASSUME IInv, [Next]_vars
    PROVE  \A t \in Present : t \in Present' /\ Kept(t)
  <1>1. CASE RowsAlone
    BY <1>1 DEF RowsAlone, Present, Kept
  <1>2. ASSUME NEW S, Revoked(S) PROVE \A t \in Present : t \in Present' /\ Kept(t)
    BY <1>2, RevokedSets DEF Revoked, Present
  <1>3. ASSUME NEW p \in Process, NEW n \in Token, Rotated(p, n)
        PROVE  \A t \in Present : t \in Present' /\ Kept(t)
    BY <1>3, RotatedSets DEF Rotated, Present
  <1>4. ASSUME NEW p \in Process, NEW n \in Token, Opened(p, n)
        PROVE  \A t \in Present : t \in Present' /\ Kept(t)
    BY <1>4, OpenedSets DEF Opened, Present
  <1> QED
    BY <1>1, <1>2, <1>3, <1>4, RowSteps

(* The clock does not run backwards.                                        *)
LEMMA ClockGrows ==
    ASSUME TypeOK, [Next]_vars
    PROVE  clock' \in Nat /\ clock <= clock'
  <1>1. CASE Tick
    BY <1>1 DEF Tick, TypeOK
  <1>2. CASE UNCHANGED vars
    BY <1>2 DEF vars, TypeOK
  <1>3. ASSUME NEW p \in Process, Acts(p) PROVE clock' = clock
    BY <1>3 DEF Acts, Begin, BeginRefresh, BeginLogout, BeginLogoutAll, BeginSignIn, LockUser,
                Advance, RetireExpired, Rotate, Claim, ClaimLost, CommitRotation, Recheck,
                RecheckReused, RecheckLive, Revoke, RevokeSnapshot, RevokeApply, SignIn,
                ReplaceDevice, EvictOldest, CommitSignIn, Fail
  <1> QED
    BY <1>1, <1>2, <1>3 DEF Next, Acts, TypeOK

(* What a refresh has found out about its token before the lock stays true. *)
LEMMA LookedUpStep ==
    ASSUME IInv, LookedUp, [Next]_vars
    PROVE  LookedUp'
  <1>1. TypeOK /\ GoalFits
    BY DEF IInv
  <1>2. ASSUME NEW q \in Process, pc'[q] = pc[q], goal'[q] = goal[q], tok'[q] = tok[q],
               dev'[q] = dev[q]
        PROVE  /\ goal'[q] = "rotate" => DeviceMatches(tok[q], dev[q])'
               /\ pc'[q] = "retire" => Expired(tok[q])'
    <2>1. ASSUME goal[q] = "rotate" PROVE DeviceMatches(tok[q], dev[q])'
      <3>1. tok[q] \in Present /\ Kept(tok[q])
        BY <1>1, <2>1, RowsKept DEF GoalFits
      <3> QED
        BY <1>2, <2>1, <3>1 DEF LookedUp, DeviceMatches, Kept
    <2>2. ASSUME pc[q] = "retire" PROVE Expired(tok[q])'
      <3>1. tok[q] \in Present /\ Kept(tok[q]) /\ Expired(tok[q])
        BY <1>1, <2>2, RowsKept DEF GoalFits, LookedUp
      <3>2. row[tok[q]] \in Row
        BY <1>1, <3>1 DEF TypeOK, Present
      <3>3. row[tok[q]].expires \in Nat
        BY <3>2 DEF Row
      <3> QED
        BY <1>1, <1>2, <3>1, <3>3, ClockGrows DEF Expired, Kept, TypeOK
    <2> QED
      BY <1>2, <2>1, <2>2
  <1>3. ASSUME NEW p \in Process, Acts(p)
        PROVE  /\ goal'[p] = "rotate" => DeviceMatches(tok[p], dev[p])'
               /\ pc'[p] = "retire" => Expired(tok[p])'
    <2> DEFINE Goal == /\ goal'[p] = "rotate" => DeviceMatches(tok[p], dev[p])'
                       /\ pc'[p] = "retire" => Expired(tok[p])'
    <2>1. ASSUME Forget(p) PROVE Goal
      BY <1>1, <2>1 DEF Forget, TypeOK
    <2>2. ASSUME BeginRefresh(p) PROVE Goal
      <3>1. PICK t \in Present, d \in Device \cup {None} :
              \/ Enter(p, "family", t, d, "lock")
              \/ Expired(t) /\ Enter(p, "none", t, d, "retire")
              \/ DeviceMatches(t, d) /\ Enter(p, "rotate", t, d, "lock")
        BY <2>2 DEF BeginRefresh, RefreshReused, RefreshExpired, RefreshTooOld, RefreshLive
      <3>2. row' = row /\ clock' = clock
        BY <2>2 DEF BeginRefresh
      <3> QED
        BY <1>1, <3>1, <3>2 DEF Enter, TypeOK, DeviceMatches, Expired
    <2>3. ASSUME BeginLogout(p) \/ BeginLogoutAll(p) \/ BeginSignIn(p) \/ RecheckReused(p)
          PROVE  Goal
      BY <1>1, <2>3 DEF BeginLogout, BeginLogoutAll, BeginSignIn, RecheckReused, Enter, TypeOK
    <2>4. ASSUME LockUser(p) \/ Claim(p) PROVE Goal
      <3>1. /\ row' = row /\ goal' = goal /\ tok' = tok /\ dev' = dev /\ pc'[p] # "retire"
        BY <1>1, <2>4 DEF LockUser, Goto, FirstStep, Claim, TypeOK
      <3> QED
        BY <3>1 DEF LookedUp, DeviceMatches
    <2>5. ASSUME \/ ClaimLost(p) \/ RevokeSnapshot(p) \/ ReplaceDevice(p) \/ EvictOldest(p)
          PROVE  Goal
      BY <1>1, <2>5 DEF ClaimLost, RevokeSnapshot, ReplaceDevice, EvictOldest, TypeOK, GoalFits
    <2>6. ASSUME \/ RetireExpired(p) \/ CommitRotation(p) \/ RevokeApply(p) \/ CommitSignIn(p)
                 \/ RecheckLive(p) \/ Fail(p)
          PROVE  Forget(p)
      BY <2>6 DEF RetireExpired, CommitRotation, RevokeApply, CommitSignIn, RecheckLive, Fail
    <2> QED
      BY <1>3, <2>1, <2>2, <2>3, <2>4, <2>5, <2>6
      DEF Acts, Begin, Advance, Rotate, Recheck, Revoke, SignIn
  <1>4. ASSUME NEW p \in Process, Acts(p) PROVE LookedUp'
    BY <1>1, <1>2, <1>3, <1>4, OthersUntouched DEF LookedUp
  <1>5. CASE Tick \/ UNCHANGED vars
    <2>1. pc' = pc /\ goal' = goal /\ tok' = tok /\ dev' = dev
      BY <1>5 DEF Tick, vars, requestVars
    <2> QED
      BY <1>2, <2>1 DEF LookedUp
  <1> QED
    BY <1>4, <1>5 DEF Next, Acts

-----------------------------------------------------------------------------
(* Counting families.                                                      *)

(* There are finitely many families of finitely many tokens.                *)
LEMMA FamiliesFinite ==
    ASSUME TypeOK, NEW S \in SUBSET Token, NEW F \in SUBSET FamiliesOf(S)
    PROVE  /\ IsFiniteSet(FamiliesOf(S)) /\ Cardinality(FamiliesOf(S)) \in Nat
           /\ IsFiniteSet(F) /\ Cardinality(F) \in Nat
           /\ Cardinality(F) <= Cardinality(FamiliesOf(S))
  <1>1. FamiliesOf(S) \subseteq Token \cup {None}
    <2> SUFFICES ASSUME NEW t \in S PROVE row[t].family \in Token \cup {None}
      BY DEF FamiliesOf
    <2>1. row[t] \in Row
      BY DEF TypeOK
    <2> QED
      BY <2>1 DEF Row
  <1>2. IsFiniteSet(Token \cup {None})
    BY TokenAssumption, FS_AddElement
  <1>3. IsFiniteSet(FamiliesOf(S))
    BY <1>1, <1>2, FS_Subset
  <1> QED
    BY <1>3, FS_Subset, FS_CardinalityType

(* One more element makes a set larger by one at most.                      *)
LEMMA OneMore ==
    ASSUME NEW S, IsFiniteSet(S), NEW x
    PROVE  /\ IsFiniteSet(S \cup {x}) /\ Cardinality(S \cup {x}) \in Nat
           /\ Cardinality(S \cup {x}) <= Cardinality(S) + 1
  <1>1. Cardinality(S) \in Nat
    BY FS_CardinalityType
  <1>2. /\ IsFiniteSet(S \cup {x})
        /\ \/ Cardinality(S \cup {x}) = Cardinality(S)
           \/ Cardinality(S \cup {x}) = Cardinality(S) + 1
    BY FS_AddElement
  <1> QED
    BY <1>1, <1>2

-----------------------------------------------------------------------------
(* The slot a sign-in prepares.                                            *)

(* The others can only take rows away from those that stay.                *)
LEMMA SlotKept ==
    ASSUME IInv, TypeOK', [Next]_vars, NEW q \in Process, SlotReady(q), Live' \subseteq Live,
           pc'[q] = pc[q], dev'[q] = dev[q], revoking'[q] = revoking[q]
    PROVE  SlotReady(q)'
  <1> DEFINE stay == Live \ revoking[q]
  <1>1. revoking[q] \subseteq Live /\ Live \subseteq Present /\ Live \subseteq Token
    BY DEF IInv, RevokingLive, Live, Present
  <1>2. stay' \subseteq stay /\ \A t \in Live : Kept(t)
    BY <1>1, RowsKept
  <1>3. OpenFamilies(q)' \subseteq OpenFamilies(q)
    BY <1>2 DEF OpenFamilies, FamiliesOf, Kept
  <1>4. Cardinality(OpenFamilies(q)') <= Cardinality(OpenFamilies(q))
        /\ Cardinality(OpenFamilies(q)') \in Nat /\ Cardinality(OpenFamilies(q)) \in Nat
    <2>1. stay \in SUBSET Token /\ TypeOK
      BY <1>1 DEF IInv
    <2> QED
      BY <1>3, <2>1, FamiliesFinite DEF OpenFamilies
  <1>5. pc[q] = "issue" => Cardinality(OpenFamilies(q)') < MaxFamilies
    BY <1>4, LimitsAssumption DEF SlotReady
  <1>6. pc[q] \in {"evict", "issue"} /\ dev[q] # None =>
            \A t \in stay' : row'[t].device # dev[q]
    BY <1>1, <1>2 DEF SlotReady, Kept
  <1>7. pc[q] = "evict" => \A g \in revoking[q] : row'[g].device = dev[q]
    BY <1>1, <1>2 DEF SlotReady, Kept
  <1>8. pc[q] = "issue" => \A g \in revoking[q], t \in stay' :
            row'[g].device = dev[q] \/ row'[g].born <= row'[t].born
    BY <1>1, <1>2 DEF SlotReady, Kept
  <1> QED
    BY <1>5, <1>6, <1>7, <1>8 DEF SlotReady

(* The device's own families give way first.                               *)
LEMMA SlotReplace ==
    ASSUME IInv, NEW p \in Process, ReplaceDevice(p)
    PROVE  SlotReady(p)'
  <1> DEFINE same == IF dev[p] = None THEN {}
                     ELSE LiveIn(FamiliesOf({t \in Live : row[t].device = dev[p]}))
  <1>1. /\ pc'[p] = "evict" /\ revoking'[p] = same /\ dev' = dev /\ row' = row
    BY DEF ReplaceDevice, IInv, TypeOK
  <1>2. Live' = Live
    BY <1>1 DEF Live
  <1>3. dev[p] # None => \A t \in Live \ same : row[t].device # dev[p]
    BY DEF LiveIn, FamiliesOf
  <1>4. \A g \in same : row[g].device = dev[p]
    BY DEF LiveIn, FamiliesOf, IInv, OneLivePerFamily
  <1> HIDE DEF same
  <1> QED
    BY <1>1, <1>2, <1>3, <1>4 DEF SlotReady

(* Then the oldest ones, as many as are over the limit.                    *)
LEMMA SlotEvict ==
    ASSUME IInv, BornCopied, NEW p \in Process, SlotReady(p), EvictOldest(p)
    PROVE  SlotReady(p)'
  <1>1. PICK F \in SUBSET OpenFamilies(p) :
          OldestFirst(p, F) /\ revoking' = [revoking EXCEPT ![p] = @ \cup LiveIn(F)]
    BY DEF EvictOldest
  <1>2. /\ pc[p] = "evict" /\ pc'[p] = "issue" /\ dev' = dev /\ row' = row
        /\ revoking'[p] = revoking[p] \cup LiveIn(F)
    BY <1>1 DEF EvictOldest, IInv, TypeOK
  <1>3. Live' = Live /\ Live \subseteq Present /\ Live \subseteq Token
    BY <1>2 DEF Live, Present
  <1> DEFINE stay == Live \ revoking[p]
             left == stay \ LiveIn(F)
  <1>4. Live' \ revoking'[p] = left
    BY <1>2, <1>3
  <1>5. dev[p] # None => \A t \in left : row[t].device # dev[p]
    BY <1>2 DEF SlotReady
  <1>6. \A t \in left : row[t].family \in OpenFamilies(p) \ F
    BY DEF OpenFamilies, FamiliesOf, LiveIn
  <1>7. ASSUME NEW g \in revoking[p] \cup LiveIn(F), NEW t \in left
        PROVE  row[g].device = dev[p] \/ row[g].born <= row[t].born
    <2>1. CASE g \in revoking[p]
      BY <1>2, <2>1 DEF SlotReady
    <2>2. CASE g \in LiveIn(F)
      <3>1. row[g].family \in F /\ g \in Present /\ t \in Present
        BY <1>3, <2>2 DEF LiveIn
      <3>2. BornOf(row[g].family) <= BornOf(row[t].family)
        BY <1>1, <1>6, <3>1 DEF OldestFirst
      <3> QED
        BY <3>1, <3>2 DEF BornCopied
    <2> QED
      BY <1>7, <2>1, <2>2
  <1>8. Cardinality(FamiliesOf(left)) < MaxFamilies
    <2> DEFINE O == OpenFamilies(p)
    <2>1. /\ IsFiniteSet(O) /\ Cardinality(O) \in Nat
          /\ IsFiniteSet(F) /\ Cardinality(F) \in Nat
      <3>1. TypeOK /\ stay \in SUBSET Token
        BY <1>3 DEF IInv
      <3> QED
        BY <3>1, FamiliesFinite DEF OpenFamilies
    <2>2. FamiliesOf(left) \subseteq O \ F
      BY <1>6 DEF FamiliesOf
    <2>3. /\ IsFiniteSet(O \ F) /\ Cardinality(O \ F) \in Nat
          /\ Cardinality(O \ F) = Cardinality(O) - Cardinality(F)
      <3>1. O \cap F = F
        OBVIOUS
      <3>2. Cardinality(O \ F) = Cardinality(O) - Cardinality(O \cap F) /\ IsFiniteSet(O \ F)
        BY <2>1, FS_Difference
      <3> QED
        BY <3>1, <3>2, FS_CardinalityType
    <2>4. Cardinality(FamiliesOf(left)) \in Nat
          /\ Cardinality(FamiliesOf(left)) <= Cardinality(O \ F)
      BY <2>2, <2>3, FS_Subset, FS_CardinalityType
    <2>5. Cardinality(O \ F) <= MaxFamilies - 1
      BY <1>1, <2>1, <2>3, LimitsAssumption DEF OldestFirst, Overflow
    <2> QED
      BY <2>3, <2>4, <2>5, LimitsAssumption
  <1>9. OpenFamilies(p)' = FamiliesOf(left)
    BY <1>2, <1>4 DEF OpenFamilies, FamiliesOf
  <1> HIDE DEF left, stay
  <1> QED
    BY <1>2, <1>4, <1>5, <1>7, <1>8, <1>9 DEF SlotReady

(* A sign-in that is about to insert has made room for its family.          *)
LEMMA SlotStep ==
    ASSUME IInv, TypeOK', BornCopied, SlotPrepared, [Next]_vars
    PROVE  SlotPrepared'
  <1>1. TypeOK /\ LockHeld
    BY DEF IInv
  <1>2. ASSUME NEW q \in Process, pc'[q] = pc[q], dev'[q] = dev[q], revoking'[q] = revoking[q]
        PROVE  SlotReady(q)'
    <2>1. CASE pc[q] \notin {"evict", "issue"}
      BY <1>2, <2>1 DEF SlotReady
    <2>2. CASE pc[q] \in {"evict", "issue"}
      <3>1. \A p \in Process : pc[p] \in {"apply", "commit", "issue"} => p = q /\ pc[q] = "issue"
        BY <1>1, <2>2 DEF LockHeld, InTransaction
      <3>2. ~ (CommitSignIn(q) /\ revoking'[q] = revoking[q] /\ pc'[q] = pc[q])
        BY <1>1 DEF CommitSignIn, Forget, TypeOK
      <3>3. \/ RowsAlone
            \/ \E p \in Process : RetireExpired(p) /\ Revoked({tok[p]})
        BY <1>2, <3>1, <3>2, RowSteps DEF RevokeApply, CommitRotation, CommitSignIn
      <3>4. Live' \subseteq Live
        BY <3>3, RevokedSets DEF RowsAlone, Live
      <3> QED
        BY <1>2, <3>4, SlotKept DEF SlotPrepared
    <2> QED
      BY <2>1, <2>2
  <1>3. ASSUME NEW p \in Process, Acts(p) PROVE SlotReady(p)'
    <2>1. CASE ReplaceDevice(p)
      BY <2>1, SlotReplace
    <2>2. CASE EvictOldest(p)
      BY <2>2, SlotEvict DEF SlotPrepared
    <2>3. ASSUME NEW g, NEW t, NEW d, NEW step \in {"lock", "retire"}, Enter(p, g, t, d, step)
          PROVE  pc'[p] \notin {"evict", "issue"}
      BY <1>1, <2>3 DEF Enter, TypeOK
    <2>4. ASSUME Forget(p) PROVE pc'[p] \notin {"evict", "issue"}
      BY <1>1, <2>4 DEF Forget, TypeOK
    <2>5. ASSUME LockUser(p) PROVE pc'[p] \notin {"evict", "issue"}
      BY <1>1, <2>5 DEF LockUser, Goto, FirstStep, TypeOK
    <2>6. ASSUME BeginSignIn(p) \/ Claim(p) \/ ClaimLost(p) \/ RevokeSnapshot(p)
          PROVE  pc'[p] \notin {"evict", "issue"}
      BY <1>1, <2>6 DEF BeginSignIn, Claim, ClaimLost, RevokeSnapshot, TypeOK
    <2>7. CASE pc'[p] \notin {"evict", "issue"}
      BY <2>7 DEF SlotReady
    <2>8. ASSUME \/ BeginRefresh(p) \/ BeginLogout(p) \/ BeginLogoutAll(p) \/ RecheckReused(p)
          PROVE  pc'[p] \notin {"evict", "issue"}
      BY <2>3, <2>8 DEF BeginRefresh, RefreshReused, RefreshExpired, RefreshTooOld, RefreshLive,
                        BeginLogout, BeginLogoutAll, RecheckReused
    <2>9. ASSUME \/ RetireExpired(p) \/ CommitRotation(p) \/ RevokeApply(p) \/ CommitSignIn(p)
                 \/ RecheckLive(p) \/ Fail(p)
          PROVE  pc'[p] \notin {"evict", "issue"}
      BY <2>4, <2>9 DEF RetireExpired, CommitRotation, RevokeApply, CommitSignIn, RecheckLive, Fail
    <2> QED
      BY <1>3, <2>1, <2>2, <2>5, <2>6, <2>7, <2>8, <2>9
      DEF Acts, Begin, Advance, Rotate, Recheck, Revoke, SignIn
  <1>4. ASSUME NEW p \in Process, Acts(p) PROVE SlotPrepared'
    BY <1>1, <1>2, <1>3, <1>4, OthersUntouched DEF SlotPrepared
  <1>5. CASE Tick \/ UNCHANGED vars
    <2>1. pc' = pc /\ dev' = dev /\ revoking' = revoking
      BY <1>5 DEF Tick, vars, requestVars
    <2> QED
      BY <1>2, <2>1 DEF SlotPrepared
  <1> QED
    BY <1>4, <1>5 DEF Next, Acts

(* No step but a sign-in's commit opens a family, and that one had a slot.  *)
LEMMA CapStep ==
    ASSUME IInv, FamilyCap, SlotPrepared, [Next]_vars
    PROVE  FamilyCap'
  <1>1. TypeOK /\ Live \in SUBSET Token /\ Live \subseteq Present
    BY DEF IInv, Live, Present
  <1>2. \A t \in Live : Kept(t)
    BY <1>1, RowsKept
  <1>3. ASSUME FamiliesOf(Live)' \subseteq FamiliesOf(Live) PROVE FamilyCap'
    <2>1. /\ Cardinality(FamiliesOf(Live)') <= Cardinality(FamiliesOf(Live))
          /\ Cardinality(FamiliesOf(Live)') \in Nat /\ Cardinality(FamiliesOf(Live)) \in Nat
      BY <1>1, <1>3, FamiliesFinite
    <2> QED
      BY <2>1, LimitsAssumption DEF FamilyCap
  <1>4. CASE RowsAlone
    BY <1>3, <1>4 DEF RowsAlone, FamiliesOf, Live
  <1>5. ASSUME NEW S, Revoked(S) PROVE FamilyCap'
    BY <1>2, <1>3, <1>5, RevokedSets DEF FamiliesOf, Kept
  <1>6. ASSUME NEW p \in Process, NEW n \in Token, Rotated(p, n) PROVE FamilyCap'
    <2>1. /\ Live' = (Live \ {tok[p]}) \cup {n} /\ tok[p] \in Live
          /\ row'[n].family = row[tok[p]].family
      BY <1>6, RotatedSets DEF Rotated, Successor
    <2> QED
      BY <1>2, <1>3, <2>1 DEF FamiliesOf, Kept
  <1>7. ASSUME NEW p \in Process, NEW n \in Token, CommitSignIn(p), Opened(p, n) PROVE FamilyCap'
    <2> DEFINE O == OpenFamilies(p)
    <2>1. Live' = (Live \ revoking[p]) \cup {n} /\ row'[n].family = n
      BY <1>7, OpenedSets DEF Opened, FirstRow
    <2>2. FamiliesOf(Live)' \subseteq O \cup {n}
      BY <1>2, <2>1 DEF OpenFamilies, FamiliesOf, Kept
    <2>3. Cardinality(O) < MaxFamilies
      BY <1>7 DEF SlotPrepared, SlotReady, CommitSignIn
    <2>4. IsFiniteSet(O) /\ Cardinality(O) \in Nat
      BY <1>1, FamiliesFinite DEF OpenFamilies
    <2>5. /\ IsFiniteSet(O \cup {n}) /\ Cardinality(O \cup {n}) \in Nat
          /\ Cardinality(O \cup {n}) <= Cardinality(O) + 1
      BY <2>4, OneMore
    <2>6. /\ Cardinality(FamiliesOf(Live)') \in Nat
          /\ Cardinality(FamiliesOf(Live)') <= Cardinality(O \cup {n})
      BY <2>2, <2>5, FS_Subset, FS_CardinalityType
    <2> QED
      BY <2>3, <2>4, <2>5, <2>6, LimitsAssumption DEF FamilyCap
  <1> QED
    BY <1>4, <1>5, <1>6, <1>7, RowSteps

-----------------------------------------------------------------------------
(* An empty table has no families.                                          *)
LEMMA InitFamilies == Init => FamilyInv
  <1> SUFFICES ASSUME Init PROVE FamilyInv
    OBVIOUS
  <1>1. IInv
    BY InitInvariant
  <1>2. Present = {} /\ Live = {}
    BY DEF Init, Present, Live, NoRow
  <1>3. FamilyCap
    <2>1. FamiliesOf(Live) = {}
      BY <1>2 DEF FamiliesOf
    <2> QED
      BY <2>1, FS_EmptySet, LimitsAssumption DEF FamilyCap
  <1>4. RotationChain /\ BornCopied
    BY <1>2 DEF RotationChain, BornCopied
  <1>5. LookedUp /\ SlotPrepared
    BY DEF Init, LookedUp, SlotPrepared, SlotReady
  <1> QED
    BY <1>1, <1>3, <1>4, <1>5 DEF FamilyInv

(* Every step keeps the invariant of the families.                          *)
LEMMA NextFamilies == FamilyInv /\ [Next]_vars => FamilyInv'
  <1> SUFFICES ASSUME FamilyInv, [Next]_vars PROVE FamilyInv'
    OBVIOUS
  <1>1. /\ IInv /\ RotationChain /\ FamilyCap /\ LookedUp /\ BornCopied /\ SlotPrepared
    BY DEF FamilyInv
  <1>2. IInv' /\ TypeOK'
    BY <1>1, NextInvariant DEF IInv
  <1> QED
    BY <1>1, <1>2, ChainStep, CapStep, LookedUpStep, BornStep, SlotStep DEF FamilyInv

(* What the requests have looked up and prepared stays true to the rows.   *)
THEOREM FamilyInvariance == Spec => []FamilyInv
  BY InitFamilies, NextFamilies, PTL DEF Spec

(* Whatever sign-ins, rotations and revocations interleave, the tokens of a *)
(* family form one chain of replacements, bound to one device and of one    *)
(* age, and the live families never exceed AUTH_REFRESH_MAX_FAMILIES_PER_USER *)
(* (prepareRefreshFamilySlot, refreshSession).                              *)
THEOREM FamiliesStaySound == Spec => []FamiliesSound
  <1>1. FamilyInv => FamiliesSound
    BY DEF FamilyInv, IInv, FamiliesSound
  <1> QED
    BY <1>1, FamilyInvariance, PTL

-----------------------------------------------------------------------------
(* What a step may do to the families.                                     *)

(* A family that is no longer live has been closed or has expired.          *)
LEMMA CloseStep ==
    ASSUME FamilyInv, [Next]_vars,
           NEW f \in FamiliesOf(Live) \ FamiliesOf(Live)'
    PROVE  f \in ended' \/ \E t \in LiveIn({f}) : Expired(t)
  <1>1. /\ IInv /\ LookedUp /\ TypeOK /\ RowsNamed /\ RevokingLive
    BY DEF FamilyInv, IInv
  <1>2. PICK t \in Live : row[t].family = f
    BY DEF FamiliesOf
  <1>3. t \in Present /\ Kept(t) /\ t \in Token
    BY <1>1, RowsKept DEF Live, Present
  <1>4. t \notin Live'
    BY <1>2, <1>3 DEF FamiliesOf, Kept
  <1>5. ~ RowsAlone
    BY <1>4 DEF RowsAlone, Live
  <1>6. ASSUME NEW p \in Process, RetireExpired(p), Revoked({tok[p]})
        PROVE  \E u \in LiveIn({f}) : Expired(u)
    <2>1. t = tok[p]
      BY <1>2, <1>4, <1>6, RevokedSets
    <2>2. Expired(t)
      BY <1>1, <1>6, <2>1 DEF LookedUp, RetireExpired
    <2> QED
      BY <1>2, <2>2 DEF LiveIn
  <1>7. ASSUME NEW p \in Process, RevokeApply(p), Revoked(targets[p] \cap Live)
        PROVE  f \in ended'
    BY <1>2, <1>4, <1>7, RevokedSets DEF RevokeApply, FamiliesOf
  <1>8. ASSUME NEW p \in Process, NEW n \in Token, Rotated(p, n)
        PROVE  FALSE
    <2>1. /\ Live' = (Live \ {tok[p]}) \cup {n}
          /\ row'[n].family = row[tok[p]].family
      BY <1>8, RotatedSets DEF Rotated, Successor
    <2>2. t = tok[p]
      BY <1>2, <1>4, <2>1
    <2> QED
      BY <1>2, <2>1, <2>2 DEF FamiliesOf
  <1>9. ASSUME NEW p \in Process, NEW n \in Token, CommitSignIn(p), Opened(p, n)
        PROVE  f \in ended'
    BY <1>2, <1>4, <1>9, OpenedSets DEF CommitSignIn, FamiliesOf
  <1> QED
    BY <1>1, <1>5, <1>6, <1>7, <1>8, <1>9, RowSteps

(* A sign-in leaves no other family on its device, and displaces one of     *)
(* another device only if it is no younger than those that stay.            *)
LEMMA DisplaceStep ==
    ASSUME FamilyInv, [Next]_vars,
           NEW n \in Live' \ Live, row'[n].family = n
    PROVE  LET stay == {t \in Live \cap Live' : t # n}
               gone == Live \ Live'
           IN  /\ row'[n].device # None =>
                     \A t \in stay : row[t].device # row'[n].device
               /\ \A g \in gone, t \in stay :
                     \/ row[g].device = row'[n].device
                     \/ row[g].born <= row[t].born
  <1>1. /\ IInv /\ SlotPrepared /\ RowsNamed
    BY DEF FamilyInv, IInv
  <1>2. ~ RowsAlone
    BY DEF RowsAlone, Live
  <1>3. ASSUME NEW S, Revoked(S) PROVE FALSE
    BY <1>3, RevokedSets
  <1>4. ASSUME NEW p \in Process, NEW m \in Token, Rotated(p, m) PROVE FALSE
    <2>1. /\ n = m /\ m \notin Present /\ tok[p] \in Present
          /\ row'[m].family = row[tok[p]].family
      BY <1>4, RotatedSets DEF Rotated, Successor
    <2> QED
      BY <1>1, <2>1 DEF RowsNamed
  <1>5. PICK p \in Process, m \in Token : CommitSignIn(p) /\ Opened(p, m)
    BY <1>1, <1>2, <1>3, <1>4, RowSteps
  <1>6. /\ m \notin Present /\ Live' = (Live \ revoking[p]) \cup {m}
        /\ row'[m].device = dev[p]
    BY <1>5, OpenedSets DEF Opened, FirstRow
  <1>7. n = m /\ m \notin Live
    BY <1>6 DEF Live, Present
  <1>8. SlotReady(p) /\ pc[p] = "issue"
    BY <1>1, <1>5 DEF SlotPrepared, CommitSignIn
  <1> QED
    BY <1>6, <1>7, <1>8 DEF SlotReady

(* A family loses its live token only by a revocation or sign-in that names *)
(* it, or because the token had expired; and a sign-in takes the place of   *)
(* its own device's families and of the oldest ones only (refreshSession's  *)
(* transaction, prepareRefreshFamilySlot).                                  *)
THEOREM FamiliesGiveWayOnPurpose == Spec => FamilySteps
  <1> DEFINE OnPurpose == \A f \in FamiliesOf(Live) \ FamiliesOf(Live)' :
                             f \in ended' \/ \E t \in LiveIn({f}) : Expired(t)
             Displaces == \A n \in Live' \ Live :
                row'[n].family = n =>
                   LET stay == {t \in Live \cap Live' : t # n}
                       gone == Live \ Live'
                   IN  /\ row'[n].device # None =>
                             \A t \in stay : row[t].device # row'[n].device
                       /\ \A g \in gone, t \in stay :
                             \/ row[g].device = row'[n].device
                             \/ row[g].born <= row[t].born
  <1>1. FamilyInv /\ [Next]_vars => OnPurpose
    BY CloseStep
  <1>2. FamilyInv /\ [Next]_vars => Displaces
    <2> SUFFICES ASSUME FamilyInv, [Next]_vars PROVE Displaces
      OBVIOUS
    <2> QED
      BY DisplaceStep
  <1>3. Spec => [][OnPurpose]_vars
    <2> HIDE DEF OnPurpose
    <2> QED
      BY <1>1, FamilyInvariance, PTL DEF Spec
  <1>4. Spec => [][Displaces]_vars
    <2> HIDE DEF Displaces
    <2> QED
      BY <1>2, FamilyInvariance, PTL DEF Spec
  <1> QED
    BY <1>3, <1>4, PTL DEF FamilySteps, ClosedOnlyOnPurpose, SignInDisplaces

-----------------------------------------------------------------------------
(* The rows implement the ledger.                                          *)

familyOf == [t \in Token |-> row[t].family]

(* What the ledger calls issued and open.                                   *)
LEMMA LedgerSets ==
    ASSUME IInv
    PROVE  Ledger!Issued = Present /\ Ledger!Open = FamiliesOf(Live)
  <1>1. RowsNamed /\ None \notin Token /\ Present \subseteq Token /\ Live \subseteq Token
    BY NoneAssumption DEF IInv, Present, Live
  <1>2. Ledger!Issued = Present
    BY <1>1 DEF Ledger!Issued, RowsNamed
  <1>3. Ledger!Open = FamiliesOf(Live)
    BY <1>1 DEF Ledger!Open, FamiliesOf
  <1> QED
    BY <1>2, <1>3

(* An empty table is an empty ledger.                                       *)
LEMMA LedgerInit == Init => Ledger!Init
  <1> SUFFICES ASSUME Init PROVE Ledger!Init
    OBVIOUS
  <1>1. Live = {}
    BY DEF Init, Live, NoRow
  <1>2. familyOf = [t \in Token |-> None]
    BY DEF Init, familyOf, NoRow
  <1> QED
    BY <1>1, <1>2 DEF Ledger!Init, familyOf

(* A revocation closes the families of the live rows it hits, if any.       *)
LEMMA LedgerClose ==
    ASSUME IInv, NEW S, Revoked(S)
    PROVE  [Ledger!Next]_(Ledger!vars)
  <1> DEFINE hit == S \cap Live
             closing == FamiliesOf(hit)
  <1>1. Live' = Live \ S /\ Live \subseteq Token
    BY RevokedSets DEF Live
  <1>2. familyOf' = familyOf
    BY DEF Revoked, Kept, familyOf
  <1>3. CASE hit = {}
    <2>1. Live' = Live
      BY <1>1, <1>3
    <2> QED
      BY <1>2, <2>1 DEF Ledger!vars, familyOf
  <1>4. CASE hit # {}
    <2>1. closing # {} /\ closing \subseteq FamiliesOf(Live)
      BY <1>4 DEF FamiliesOf
    <2>2. \A t \in Live : row[t].family \in closing <=> t \in S
      BY DEF FamiliesOf, IInv, OneLivePerFamily
    <2> HIDE DEF closing
    <2>3. Live' = {t \in Live : familyOf[t] \notin closing}
      BY <1>1, <2>2 DEF familyOf
    <2>4. Ledger!Close(closing)
      BY <1>2, <2>1, <2>3, LedgerSets DEF Ledger!Close, familyOf
    <2> QED
      BY <2>1, <2>4, LedgerSets DEF Ledger!Next
  <1> QED
    BY <1>3, <1>4

(* A rotation passes the session on.                                        *)
LEMMA LedgerPassOn ==
    ASSUME IInv, NEW p \in Process, NEW n \in Token, Rotated(p, n)
    PROVE  Ledger!Next
  <1>1. /\ tok[p] \in Live /\ tok[p] \in Token /\ n \notin Present
        /\ Live' = (Live \ {tok[p]}) \cup {n}
    BY RotatedSets DEF Rotated, Live
  <1>2. familyOf' = [familyOf EXCEPT ![n] = familyOf[tok[p]]]
    <2>1. row'[n].family = row[tok[p]].family
      BY DEF Rotated, Successor
    <2> QED
      BY <1>1, <2>1 DEF Rotated, Kept, familyOf
  <1>3. Ledger!PassOn(tok[p], n)
    BY <1>1, <1>2, LedgerSets DEF Ledger!PassOn, familyOf
  <1> QED
    BY <1>1, <1>3 DEF Ledger!Next

(* The ledger counts as the rows do.                                        *)
LEMMA SameCount ==
    ASSUME NEW S
    PROVE  Ledger!Cardinality(S) = Cardinality(S)
  BY DEF Cardinality, Ledger!Cardinality

(* A sign-in opens a session, and closes those it displaces.                *)
LEMMA LedgerOpen ==
    ASSUME IInv, NEW p \in Process, NEW n \in Token, SlotReady(p), CommitSignIn(p), Opened(p, n)
    PROVE  Ledger!Next
  <1> DEFINE away == FamiliesOf(revoking[p])
  <1>1. /\ n \notin Present /\ Live \subseteq Token /\ revoking[p] \subseteq Live
        /\ Live' = (Live \ revoking[p]) \cup {n}
    BY OpenedSets DEF Opened, Live
  <1>2. familyOf' = [familyOf EXCEPT ![n] = n]
    <2>1. row'[n].family = n
      BY DEF Opened, FirstRow
    <2> QED
      BY <1>1, <2>1 DEF Opened, Kept, familyOf
  <1>3. away \subseteq FamiliesOf(Live)
    BY <1>1 DEF FamiliesOf
  <1>4. \A t \in Live : row[t].family \in away <=> t \in revoking[p]
    BY <1>1 DEF FamiliesOf, IInv, OneLivePerFamily
  <1>5. FamiliesOf(Live) \ away \subseteq OpenFamilies(p)
    BY DEF OpenFamilies, FamiliesOf
  <1> HIDE DEF away
  <1>6. Live' = {t \in Live : familyOf[t] \notin away} \cup {n}
    BY <1>1, <1>4 DEF familyOf
  <1>7. Cardinality((FamiliesOf(Live) \ away) \cup {n}) <= MaxFamilies
    <2> DEFINE O == OpenFamilies(p)
    <2>1. TypeOK /\ Live \ revoking[p] \in SUBSET Token
      BY <1>1 DEF IInv
    <2>2. IsFiniteSet(O) /\ Cardinality(O) \in Nat /\ Cardinality(O) < MaxFamilies
      BY <2>1, FamiliesFinite DEF OpenFamilies, SlotReady, CommitSignIn
    <2>3. /\ IsFiniteSet(O \cup {n}) /\ Cardinality(O \cup {n}) \in Nat
          /\ Cardinality(O \cup {n}) <= Cardinality(O) + 1
      BY <2>2, OneMore
    <2>4. (FamiliesOf(Live) \ away) \cup {n} \subseteq O \cup {n}
      BY <1>5
    <2>5. /\ Cardinality((FamiliesOf(Live) \ away) \cup {n}) \in Nat
          /\ Cardinality((FamiliesOf(Live) \ away) \cup {n}) <= Cardinality(O \cup {n})
      BY <2>3, <2>4, FS_Subset, FS_CardinalityType
    <2> QED
      BY <2>2, <2>3, <2>5, LimitsAssumption
  <1>8. Ledger!OpenSession(n, away)
    <2>1. Ledger!Issued = Present /\ Ledger!Open = FamiliesOf(Live)
      BY LedgerSets
    <2>2. n \notin Ledger!Issued /\ away \subseteq Ledger!Open
      BY <1>1, <1>3, <2>1
    <2>3. Ledger!Cardinality((Ledger!Open \ away) \cup {n}) <= MaxFamilies
      BY <1>7, <2>1, SameCount
    <2>4. /\ Live' = {t \in Live : [u \in Token |-> row[u].family][t] \notin away} \cup {n}
          /\ [t \in Token |-> row[t].family]' = [[t \in Token |-> row[t].family] EXCEPT ![n] = n]
      BY <1>2, <1>6 DEF familyOf
    <2> QED
      BY <2>2, <2>3, <2>4 DEF Ledger!OpenSession
  <1>9. away \in SUBSET Ledger!Open
    BY <1>3, LedgerSets
  <1>10. \E f \in Token, c \in SUBSET Ledger!Open : Ledger!OpenSession(f, c)
    <2>1. \E c \in SUBSET Ledger!Open : Ledger!OpenSession(n, c)
      BY <1>8, <1>9 DEF Ledger!OpenSession
    <2> QED
      BY <2>1
  <1> QED
    BY <1>10 DEF Ledger!Next

(* The committed rows implement the ledger: a session starts within the     *)
(* limit, is passed from token to token and, once closed, is not resumed    *)
(* (the RefreshToken table under every statement of auth.service.ts).       *)
THEOREM RowsImplementLedger == Spec => LedgerSpec
  <1>1. FamilyInv /\ [Next]_vars => [Ledger!Next]_(Ledger!vars)
    <2> SUFFICES ASSUME FamilyInv, [Next]_vars PROVE [Ledger!Next]_(Ledger!vars)
      OBVIOUS
    <2>1. IInv /\ SlotPrepared
      BY DEF FamilyInv
    <2>2. CASE RowsAlone
      BY <2>2 DEF RowsAlone, Ledger!vars, Live
    <2>3. ASSUME NEW p \in Process, NEW n \in Token, CommitSignIn(p), Opened(p, n)
          PROVE  Ledger!Next
      BY <2>1, <2>3, LedgerOpen DEF SlotPrepared
    <2> QED
      BY <2>1, <2>2, <2>3, LedgerClose, LedgerPassOn, RowSteps
  <1> QED
    BY <1>1, LedgerInit, FamilyInvariance, PTL DEF Spec, LedgerSpec, Ledger!Spec

-----------------------------------------------------------------------------
(* Requests never all wait.                                                 *)

(* An id is left for every request that may insert a row.                   *)
RoomKept == IsFiniteSet(Inserting) /\ Cardinality(Inserting) <= Cardinality(Unused)

LEMMA UnusedFinite == IsFiniteSet(Unused) /\ Cardinality(Unused) \in Nat
  BY TokenAssumption, FS_Subset, FS_CardinalityType DEF Unused

(* Requests that end or turn to a revocation leave the ids to the others.   *)
LEMMA RoomLeft ==
    ASSUME RoomKept, Unused' = Unused, Inserting' \subseteq Inserting
    PROVE  RoomKept'
  <1>1. IsFiniteSet(Inserting') /\ Cardinality(Inserting') <= Cardinality(Inserting)
        /\ Cardinality(Inserting') \in Nat /\ Cardinality(Inserting) \in Nat
    BY FS_Subset, FS_CardinalityType DEF RoomKept
  <1>2. Cardinality(Unused') = Cardinality(Unused) /\ Cardinality(Unused) \in Nat
    BY UnusedFinite
  <1> QED
    BY <1>1, <1>2 DEF RoomKept

(* A request that starts to insert found an id to spare.                    *)
LEMMA RoomTaken ==
    ASSUME RoomKept, RoomForInsert, NEW p, Unused' = Unused, Inserting' \subseteq Inserting \cup {p}
    PROVE  RoomKept'
  <1>1. IsFiniteSet(Inserting \cup {p}) /\ Cardinality(Inserting \cup {p}) \in Nat
        /\ Cardinality(Inserting \cup {p}) <= Cardinality(Inserting) + 1 /\ Cardinality(Inserting) \in Nat
    BY OneMore, FS_CardinalityType DEF RoomKept
  <1>2. IsFiniteSet(Inserting') /\ Cardinality(Inserting') <= Cardinality(Inserting \cup {p})
        /\ Cardinality(Inserting') \in Nat
    BY <1>1, FS_Subset, FS_CardinalityType
  <1>3. Cardinality(Unused') = Cardinality(Unused) /\ Cardinality(Unused) \in Nat
    BY UnusedFinite
  <1>4. Cardinality(Inserting) < Cardinality(Unused)
    BY <1>1, <1>3 DEF RoomForInsert
  <1> QED
    BY <1>1, <1>2, <1>3, <1>4 DEF RoomKept

(* A request that has inserted its row gives back its claim on an id.       *)
LEMMA RoomUsed ==
    ASSUME RoomKept, NEW p \in Inserting, NEW n \in Unused,
           Unused' = Unused \ {n}, Inserting' \subseteq Inserting \ {p}
    PROVE  RoomKept'
  <1>1. IsFiniteSet(Inserting \ {p}) /\ Cardinality(Inserting \ {p}) = Cardinality(Inserting) - 1
        /\ Cardinality(Inserting) \in Nat
    BY FS_RemoveElement, FS_CardinalityType DEF RoomKept
  <1>2. IsFiniteSet(Inserting') /\ Cardinality(Inserting') <= Cardinality(Inserting \ {p})
        /\ Cardinality(Inserting') \in Nat
    BY <1>1, FS_Subset, FS_CardinalityType
  <1>3. Cardinality(Unused') = Cardinality(Unused) - 1 /\ Cardinality(Unused) \in Nat
    BY UnusedFinite, FS_RemoveElement
  <1> QED
    BY <1>1, <1>2, <1>3 DEF RoomKept

LEMMA RoomStep ==
    ASSUME IInv, RoomKept, [Next]_vars
    PROVE  RoomKept'
  <1>1. TypeOK /\ GoalFits
    BY DEF IInv
  <1>2. ASSUME NEW p \in Process, NEW n \in Token, CommitRotation(p) \/ CommitSignIn(p), Rotated(p, n) \/ Opened(p, n)
        PROVE  RoomKept'
    <2>1. n \in Unused /\ Present' = Present \cup {n}
      BY <1>2, RotatedSets, OpenedSets DEF Rotated, Opened
    <2>2. Unused' = Unused \ {n}
      BY <2>1 DEF Unused
    <2>3. p \in Inserting
      BY <1>1, <1>2 DEF CommitRotation, CommitSignIn, GoalFits, Inserting
    <2>4. goal' = [goal EXCEPT ![p] = "none"]
      BY <1>2 DEF CommitRotation, CommitSignIn, Forget
    <2>5. Inserting' \subseteq Inserting \ {p}
      BY <1>1, <2>4 DEF Inserting, TypeOK
    <2> QED
      BY <2>1, <2>2, <2>3, <2>5, RoomUsed
  <1>3. ASSUME NEW p \in Process, RetireExpired(p) \/ RevokeApply(p), NEW S, Revoked(S)
        PROVE  RoomKept'
    <2>1. Unused' = Unused
      BY <1>3, RevokedSets DEF Unused
    <2>2. goal' = [goal EXCEPT ![p] = "none"]
      BY <1>3 DEF RetireExpired, RevokeApply, Forget
    <2>3. Inserting' \subseteq Inserting
      BY <1>1, <2>2 DEF Inserting, TypeOK
    <2> QED
      BY <2>1, <2>3, RoomLeft
  <1>4. CASE RowsAlone
    <2>1. Unused' = Unused
      BY <1>4 DEF RowsAlone, Unused, Present
    <2>2. ASSUME NEW p \in Process, RoomForInsert, NEW g, goal' = [goal EXCEPT ![p] = g]
          PROVE  RoomKept'
      <3>1. Inserting' \subseteq Inserting \cup {p}
        BY <1>1, <2>2 DEF Inserting, TypeOK
      <3> QED
        BY <2>1, <2>2, <3>1, RoomTaken
    <2>3. ASSUME NEW p \in Process, NEW g \in {"none", "family", "user"}, goal' = [goal EXCEPT ![p] = g]
          PROVE  RoomKept'
      <3>1. Inserting' \subseteq Inserting
        BY <1>1, <2>3 DEF Inserting, TypeOK
      <3> QED
        BY <2>1, <3>1, RoomLeft
    <2>4. CASE goal' = goal
      <3>1. Inserting' = Inserting
        BY <2>4 DEF Inserting
      <3> QED
        BY <2>1, <3>1, RoomLeft
    <2>5. ASSUME NEW p \in Process, BeginRefresh(p)
          PROVE  RoomKept'
      <3>1. \/ goal' = [goal EXCEPT ![p] = "family"] \/ goal' = [goal EXCEPT ![p] = "none"]
            \/ RoomForInsert /\ goal' = [goal EXCEPT ![p] = "rotate"]
        BY <2>5 DEF BeginRefresh, RefreshReused, RefreshExpired, RefreshTooOld, RefreshLive, Enter
      <3> QED
        BY <2>2, <2>3, <3>1
    <2>6. ASSUME NEW p \in Process, BeginLogout(p) \/ BeginLogoutAll(p)
          PROVE  RoomKept'
      <3>1. goal' = [goal EXCEPT ![p] = "family"] \/ goal' = [goal EXCEPT ![p] = "user"]
        BY <2>6 DEF BeginLogout, BeginLogoutAll, Enter
      <3> QED
        BY <2>3, <3>1
    <2>7. ASSUME NEW p \in Process, BeginSignIn(p)
          PROVE  RoomKept'
      BY <2>2, <2>7 DEF BeginSignIn
    <2>8. ASSUME NEW p \in Process, Recheck(p) \/ ClaimLost(p) \/ Fail(p) \/ RetireExpired(p) \/ RevokeApply(p)
                                    \/ CommitRotation(p) \/ CommitSignIn(p)
          PROVE  RoomKept'
      <3>1. goal' = [goal EXCEPT ![p] = "family"] \/ goal' = [goal EXCEPT ![p] = "none"]
        BY <2>8 DEF Recheck, RecheckReused, RecheckLive, Enter, Forget, ClaimLost, Fail, RetireExpired,
                    RevokeApply, CommitRotation, CommitSignIn
      <3> QED
        BY <2>3, <3>1
    <2>9. ASSUME NEW p \in Process, LockUser(p) \/ Claim(p) \/ RevokeSnapshot(p) \/ ReplaceDevice(p) \/ EvictOldest(p)
          PROVE  RoomKept'
      BY <2>4, <2>9 DEF LockUser, Goto, Claim, RevokeSnapshot, ReplaceDevice, EvictOldest
    <2>10. CASE Tick \/ UNCHANGED vars
      BY <2>4, <2>10 DEF Tick, requestVars, vars
    <2> QED
      BY <2>5, <2>6, <2>7, <2>8, <2>9, <2>10 DEF Next, Begin, Advance, Rotate, Revoke, SignIn
  <1> QED
    BY <1>2, <1>3, <1>4, RowSteps

(* A finite set of numbers that is not empty has a least one: otherwise the *)
(* numbers of those below each would be an injection into fewer numbers.    *)
LEMMA LeastOf ==
    ASSUME NEW V \in SUBSET Nat, IsFiniteSet(V), V # {}
    PROVE  \E m \in V : \A v \in V : m <= v
  <1> SUFFICES ASSUME \A m \in V : \E v \in V : v < m
               PROVE  FALSE
    OBVIOUS
  <1> DEFINE Below(x) == {v \in V : v < x}
             n == Cardinality(V)
             f == [x \in V |-> Cardinality(Below(x))]
  <1>1. n \in Nat /\ n # 0
    BY FS_CardinalityType, FS_EmptySet
  <1>2. ASSUME NEW x \in V
        PROVE  IsFiniteSet(Below(x)) /\ Cardinality(Below(x)) \in 1..(n - 1)
    <2>1. IsFiniteSet(Below(x)) /\ Cardinality(Below(x)) \in Nat /\ Cardinality(Below(x)) <= n
          /\ (Cardinality(Below(x)) = n => Below(x) = V)
      BY FS_Subset, FS_CardinalityType
    <2>2. Below(x) # V /\ Below(x) # {}
      OBVIOUS
    <2>3. Cardinality(Below(x)) # 0
      BY <2>1, <2>2, FS_EmptySet
    <2> HIDE DEF Below
    <2> QED
      BY <1>1, <2>1, <2>2, <2>3
  <1>3. ASSUME NEW x \in V, NEW y \in V, x < y
        PROVE  Cardinality(Below(x)) # Cardinality(Below(y))
    <2>1. Below(x) \subseteq Below(y)
      <3> SUFFICES ASSUME NEW v \in V, v < x PROVE v < y
        OBVIOUS
      <3> QED
        BY <1>3
    <2>2. x \in Below(y) /\ x \notin Below(x)
      BY <1>3
    <2> QED
      BY <1>2, <2>1, <2>2, FS_Subset
  <1>4. f \in Injection(V, 1..(n - 1))
    <2> HIDE DEF Below
    <2>1. f \in [V -> 1..(n - 1)]
      BY <1>2
    <2>2. \A x, y \in V : f[x] = f[y] => x = y
      BY <1>3
    <2> QED
      BY <2>1, <2>2 DEF Injection, IsInjective
  <1>5. IsFiniteSet(1..(n - 1)) /\ Cardinality(1..(n - 1)) = n - 1
    <2>1. 1 \in Int /\ n - 1 \in Int /\ ~ 1 > (n - 1) + 1
      BY <1>1
    <2>2. Cardinality(1..(n - 1)) = (IF 1 > n - 1 THEN 0 ELSE (n - 1) - 1 + 1)
      BY <2>1, FS_Interval
    <2>3. IsFiniteSet(1..(n - 1))
      BY <2>1, FS_Interval
    <2> QED
      BY <1>1, <2>2, <2>3
  <1>6. n <= n - 1
    BY <1>4, <1>5, FS_Injection
  <1> QED
    BY <1>1, <1>6

(* The rows another transaction has locked are the lock holder's.           *)
LEMMA NoRowLocks ==
    ASSUME IInv, NEW p \in Process, lock \in {p, None}, NEW S
    PROVE  CanWrite(S, p)
  <1> SUFFICES ASSUME NEW t \in S, NEW q \in Process \ {p}, t \in revoking[q]
               PROVE  FALSE
    BY DEF CanWrite, RowLocked
  <1>1. pc[q] \in {"commit", "evict", "issue"}
    BY DEF IInv, RevokingLive
  <1>2. lock = q
    BY <1>1 DEF IInv, LockHeld, InTransaction
  <1> QED
    BY <1>2, NoneAssumption

(* A sign-in over the limit has one family to evict, and there is an oldest *)
(* one among those that are open.                                           *)
LEMMA OldestExists ==
    ASSUME FamilyInv, NEW p \in Process
    PROVE  \E F \in SUBSET OpenFamilies(p) : OldestFirst(p, F)
  <1> DEFINE Open == OpenFamilies(p)
  <1>1. TypeOK /\ RowsNamed /\ FamilyCap
    BY DEF FamilyInv, IInv
  <1>2. Live \in SUBSET Token /\ Open \in SUBSET FamiliesOf(Live)
    BY DEF Live, OpenFamilies, FamiliesOf
  <1>3. IsFiniteSet(Open) /\ Cardinality(Open) \in Nat /\ Cardinality(Open) <= MaxFamilies
    BY <1>1, <1>2, FamiliesFinite, LimitsAssumption DEF FamilyCap
  <1>4. CASE Overflow(p) <= 0
    <2>1. Cardinality({}) = 0
      BY FS_EmptySet
    <2>2. OldestFirst(p, {})
      BY <1>3, <1>4, <2>1, LimitsAssumption DEF OldestFirst, Overflow
    <2> QED
      BY <2>2
  <1>5. CASE Overflow(p) > 0
    <2>1. Overflow(p) = 1 /\ Open # {}
      BY <1>3, <1>5, LimitsAssumption, FS_EmptySet DEF Overflow
    <2>2. \A f \in Open : f \in Token /\ BornOf(f) \in Nat
      <3> SUFFICES ASSUME NEW t \in Live
                   PROVE  row[t].family \in Token /\ row[row[t].family].born \in Nat
        BY DEF OpenFamilies, FamiliesOf, BornOf
      <3>1. row[t].family \in Token
        BY <1>1 DEF RowsNamed, Live, Present
      <3>2. row[row[t].family] \in Row
        BY <1>1, <3>1 DEF TypeOK
      <3> QED
        BY <3>1, <3>2 DEF Row
    <2> DEFINE born_ == [f \in Open |-> BornOf(f)]
               ages == {BornOf(f) : f \in Open}
    <2>3. ages \in SUBSET Nat /\ ages # {}
      BY <2>1, <2>2
    <2>4. IsFiniteSet(ages)
      <3>1. born_ \in Surjection(Open, ages)
        BY DEF Surjection
      <3> QED
        BY <1>3, <3>1, FS_Surjection
    <2>5. PICK m \in ages : \A v \in ages : m <= v
      BY <2>3, <2>4, LeastOf
    <2>6. PICK f \in Open : BornOf(f) = m
      OBVIOUS
    <2>7. Cardinality({f}) = 1
      BY FS_Singleton
    <2>8. \A g \in Open \ {f} : BornOf(f) <= BornOf(g)
      BY <2>5, <2>6
    <2>9. OldestFirst(p, {f})
      BY <2>1, <2>7, <2>8 DEF OldestFirst
    <2> QED
      BY <2>6, <2>9
  <1>6. Overflow(p) \in Int
    BY <1>3, LimitsAssumption DEF Overflow
  <1> QED
    BY <1>4, <1>5, <1>6

LEMMA HolderReady ==
    ASSUME FamilyInv, RoomKept, NEW p \in Process, InTransaction(p)
    PROVE  Ready(p)
  <1>1. IInv /\ lock = p /\ \A S : CanWrite(S, p)
    <2>1. IInv /\ lock = p
      BY DEF FamilyInv, IInv, LockHeld
    <2> QED
      BY <2>1, NoRowLocks
  <1>2. CASE pc[p] \in {"commit", "issue"}
    <2>1. p \in Inserting
      BY <1>1, <1>2 DEF IInv, GoalFits, Inserting
    <2>2. Cardinality(Inserting) \in Nat /\ Cardinality(Inserting) # 0
      BY <2>1, FS_EmptySet, FS_CardinalityType DEF RoomKept
    <2>3. Cardinality(Unused) # 0
      BY <2>2, UnusedFinite DEF RoomKept
    <2>4. Unused # {}
      BY <2>3, FS_EmptySet
    <2> QED
      BY <1>2, <2>4 DEF Ready
  <1>3. CASE pc[p] = "evict"
    BY <1>1, <1>3, OldestExists DEF Ready
  <1>4. CASE pc[p] \in {"claim", "snapshot", "apply", "replace"}
    BY <1>1, <1>4 DEF Ready
  <1> QED
    BY <1>2, <1>3, <1>4 DEF InTransaction

(* As long as a request is under way, the holder of the advisory lock, or   *)
(* any request if nobody holds it, has the locks and the id its next        *)
(* statement waits for: requests never all wait for each other              *)
(* (lockRefreshUser, and its release on every way out).                     *)
THEOREM RequestsNeverAllWait == Spec => []SomeoneReady
  <1>1. Init => RoomKept
    <2> SUFFICES ASSUME Init PROVE RoomKept
      OBVIOUS
    <2>1. Inserting = {}
      BY DEF Init, Inserting
    <2> QED
      BY <2>1, UnusedFinite, FS_EmptySet DEF RoomKept
  <1>2. FamilyInv /\ RoomKept /\ [Next]_vars => RoomKept'
    BY RoomStep DEF FamilyInv
  <1>3. FamilyInv /\ RoomKept => SomeoneReady
    <2> SUFFICES ASSUME FamilyInv, RoomKept, NEW p \in Process, pc[p] # "idle"
                 PROVE  \E q \in Process : Ready(q)
      BY DEF SomeoneReady
    <2>1. IInv /\ TypeOK
      BY DEF FamilyInv, IInv
    <2>2. CASE lock \in Process
      <3>1. InTransaction(lock)
        BY <2>1, <2>2 DEF IInv, LockHeld
      <3> QED
        BY <2>2, <3>1, HolderReady
    <2>3. CASE lock = None
      <3>1. ~ InTransaction(p)
        BY <2>1, <2>3, NoneAssumption DEF IInv, LockHeld
      <3>2. pc[p] \in {"lock", "retire", "recheck"}
        BY <2>1, <3>1 DEF TypeOK, Steps, InTransaction
      <3>3. CanWrite({tok[p]}, p)
        BY <2>1, <2>3, NoRowLocks
      <3>4. pc[p] = "recheck" => tok[p] \in Present
        BY <2>1 DEF IInv, GoalFits
      <3> QED
        BY <2>3, <3>2, <3>3, <3>4 DEF Ready
    <2> QED
      BY <2>1, <2>2, <2>3 DEF TypeOK
  <1> QED
    BY <1>1, <1>2, <1>3, FamilyInvariance, PTL DEF Spec
=============================================================================
