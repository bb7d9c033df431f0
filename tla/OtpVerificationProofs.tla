----------------------- MODULE OtpVerificationProofs -----------------------
(***************************************************************************)
(* Proofs about module OtpVerification: the inductive invariant, that a    *)
(* code mints at most one session and stays consumed once it is closed,    *)
(* that all answers under a key are one session, and that a verification   *)
(* neither mints from a closed code nor refuses a request its own stored   *)
(* answer, for any number of requests, keys, devices and codes; and that   *)
(* only transactions that retire codes are waited for.                     *)
(***************************************************************************)
EXTENDS OtpVerification, TLAPS

LocalsTyped ==
    /\ pc \in [Process -> {"idle", "served", "limits", "find", "compare", "wrong",
                         "consume", "pick", "retire", "catch"}]
    /\ req \in [Process -> Request \cup {NoRequest}]
    /\ rec \in [Process -> [code : Code \cup {None}, attempts : 0..MaxAttempts, inTime : BOOLEAN]]
    /\ goal \in [Process -> {"none", "mint", "lock"}]
    /\ targets \in [Process -> SUBSET Code]
    /\ held \in [Process -> SUBSET Code]

(* Codes are numbers in the order they are issued.                          *)
LEMMA CodesNumbered == Code \subseteq Nat \ {0} /\ None \notin Code
  BY VerifyAssumption DEF Code

(* No code, no request and no answer.                                       *)
LEMMA InitInvariant == Init => IInv
  <1> SUFFICES ASSUME Init PROVE IInv
    OBVIOUS
  <1>1. NoRow \in Row /\ NoRequest \in Request \cup {NoRequest}
        /\ NoRecord \in [code : Code \cup {None}, attempts : 0..MaxAttempts, inTime : BOOLEAN]
    BY VerifyAssumption DEF NoRow, Row, NoRecord
  <1>2. TypeOK
    BY <1>1, VerifyAssumption DEF Init, TypeOK
  <1>3. \A c \in Code : row[c] = NoRow
    BY DEF Init
  <1>4. RowsFit /\ KeysUnique
    BY <1>3, VerifyAssumption DEF RowsFit, KeysUnique, NoRow
  <1>5. InOrder
    BY <1>3 DEF InOrder, Created, NoRow
  <1>6. \A p \in Process : Knows(p) /\ Holds(p)
    BY VerifyAssumption DEF Init, Knows, Holds, Started, Reading, NoRecord
  <1>7. HeldByOne /\ ClosedStaysConsumed /\ SameAnswer
    BY DEF Init, HeldByOne, ClosedStaysConsumed, SameAnswer
  <1> QED
    BY <1>2, <1>4, <1>5, <1>6, <1>7 DEF IInv

-----------------------------------------------------------------------------
(* Requests that a step does not concern.                                   *)

(* What they rely on: a code settled without an answer stays so, the rows   *)
(* they hold stay live, and only the newest code comes to life.             *)
RowsAdvance(S) ==
    /\ Created \subseteq Created'
    /\ S \subseteq LiveCodes'
    /\ \A d \in Code : row[d].status = "consumed" /\ row[d].key = None =>
                          row'[d].status = "consumed" /\ row'[d].key = None
    /\ \A d \in LiveCodes' : d \in LiveCodes \/ \A e \in Created : e < d

Same(q) == /\ pc'[q] = pc[q] /\ req'[q] = req[q] /\ rec'[q] = rec[q]
           /\ goal'[q] = goal[q] /\ targets'[q] = targets[q] /\ held'[q] = held[q]
OthersSame(p) == \A q \in Process \ {p} : Same(q)

(* Rows that do not change have advanced.                                   *)
LEMMA RowsAlone ==
    ASSUME row' = row, NEW S \in SUBSET LiveCodes
    PROVE  RowsAdvance(S)
  BY DEF RowsAdvance, Created, LiveCodes

(* A request that a step leaves alone, with the rows it holds, still knows  *)
(* and holds what it did.                                                   *)
LEMMA Unconcerned ==
    ASSUME NEW q \in Process, Knows(q), Holds(q), Same(q), RowsAdvance(held[q])
    PROVE  Knows(q)' /\ Holds(q)'
  <1>1. Knows(q)'
    BY DEF Knows, Same, RowsAdvance, Started, Reading, Created
  <1>2. Holds(q)'
    <2>1. ASSUME pc[q] = "retire", goal[q] = "mint", NEW d \in LiveCodes', d < rec[q].code
          PROVE  d \in held[q] \cup targets[q]
      <3>1. rec[q].code \in Created
        BY <2>1 DEF Knows, Reading
      <3>2. PICK c \in Created : c = rec[q].code
        BY <3>1
      <3>3. c \in Nat /\ d \in Nat
        BY CodesNumbered DEF Created, LiveCodes
      <3>4. d \in LiveCodes
        BY <2>1, <3>2, <3>3 DEF RowsAdvance
      <3> QED
        BY <2>1, <3>4 DEF Holds
    <2> QED
      BY <2>1 DEF Holds, Same, RowsAdvance
  <1> QED
    BY <1>1, <1>2

-----------------------------------------------------------------------------
(* Steps that leave the codes alone.                                        *)

(* A request goes on and no row changes.                                    *)
LEMMA QuietStep ==
    ASSUME IInv, NEW p \in Process, OthersSame(p), row' = row, closed' = closed,
           LocalsTyped', replies' \subseteq Reply, faults' \in 0..MaxFaults,
           Knows(p)', Holds(p)', HeldByOne', SameAnswer'
    PROVE  IInv'
  <1>1. TypeOK /\ RowsFit /\ KeysUnique /\ InOrder /\ ClosedStaysConsumed
    BY DEF IInv
  <1>2. TypeOK'
    BY <1>1 DEF TypeOK, LocalsTyped
  <1>3. RowsFit' /\ KeysUnique' /\ InOrder' /\ ClosedStaysConsumed'
    BY <1>1 DEF RowsFit, KeysUnique, InOrder, ClosedStaysConsumed, Created, Selectable, LiveCodes
  <1>4. ASSUME NEW q \in Process PROVE Knows(q)' /\ Holds(q)'
    <2>1. CASE q = p
      BY <2>1
    <2>2. CASE q # p
      <3>1. Knows(q) /\ Holds(q) /\ Same(q) /\ held[q] \subseteq LiveCodes
        BY <2>2 DEF IInv, Holds, OthersSame
      <3> QED
        BY <3>1, RowsAlone, Unconcerned
    <2> QED
      BY <2>1, <2>2
  <1> QED
    BY <1>2, <1>3, <1>4 DEF IInv

(* No new answer and no changed row: the answers still agree.               *)
LEMMA AnswersKept ==
    ASSUME IInv, row' = row, replies' = replies
    PROVE  replies' \subseteq Reply /\ SameAnswer'
  BY DEF IInv, TypeOK, SameAnswer

(* What a request knows and holds when it is over: nothing.                 *)
LEMMA Leaving ==
    ASSUME TypeOK, NEW p \in Process, NEW as \in {"idle", "served"}, Leave(p, as)
    PROVE  LocalsTyped' /\ OthersSame(p) /\ Knows(p)' /\ Holds(p)' /\ held'[p] = {}
  <1>1. NoRecord \in [code : Code \cup {None}, attempts : 0..MaxAttempts, inTime : BOOLEAN]
        /\ NoRecord.attempts = 0
    BY VerifyAssumption DEF NoRecord
  <1>2. LocalsTyped'
    BY <1>1 DEF Leave, TypeOK, LocalsTyped
  <1>3. OthersSame(p)
    BY DEF Leave, TypeOK, OthersSame, Same
  <1>4. /\ pc'[p] = as /\ rec'[p] = NoRecord /\ goal'[p] = "none" /\ targets'[p] = {}
        /\ held'[p] = {}
    BY DEF Leave, TypeOK
  <1>5. Knows(p)'
    <2>1. rec'[p].attempts < MaxAttempts
      BY <1>1, <1>4, VerifyAssumption
    <2> QED
      BY <1>4, <2>1 DEF Knows, Started, Reading
  <1>6. Holds(p)'
    BY <1>4 DEF Holds
  <1> QED
    BY <1>2, <1>3, <1>4, <1>5, <1>6

(* Fewer rows held are still held by one.                                   *)
LEMMA HeldLess ==
    ASSUME IInv, NEW p \in Process, OthersSame(p), held'[p] \subseteq held[p]
    PROVE  HeldByOne'
  <1>1. \A q \in Process : held'[q] \subseteq held[q]
    BY DEF OthersSame, Same
  <1> QED
    BY <1>1 DEF IInv, HeldByOne

(* A request ends without writing.                                          *)
LEMMA LeaveStep ==
    ASSUME IInv, NEW p \in Process, NEW as \in {"idle", "served"}, Leave(p, as), row' = row,
           closed' = closed, faults' \in 0..MaxFaults, replies' \subseteq Reply, SameAnswer'
    PROVE  IInv'
  <1>1. LocalsTyped' /\ OthersSame(p) /\ Knows(p)' /\ Holds(p)' /\ held'[p] = {}
    BY Leaving DEF IInv
  <1> QED
    BY <1>1, HeldLess, QuietStep

(* A verification is refused.                                               *)
LEMMA RefuseStep ==
    ASSUME IInv, NEW p \in Process, Refuse(p), UNCHANGED <<row, replies, closed>>,
           faults' \in 0..MaxFaults
    PROVE  IInv'
  BY AnswersKept, LeaveStep DEF Refuse

(* The answers stored under a key are what has been told under it.          *)
LEMMA AnswersSame ==
    ASSUME IInv, NEW q \in Request, row' = row, replies' = replies \cup Answer(q)
    PROVE  replies' \subseteq Reply /\ SameAnswer'
  <1>1. /\ TypeOK /\ RowsFit /\ KeysUnique /\ SameAnswer /\ q.key \in Key /\ q.key # None
    BY VerifyAssumption DEF IInv, Request
  <1>2. ASSUME NEW r \in Answer(q)
        PROVE  r.key = q.key /\ r.code \in Code /\ r.nth = 1 /\ row[r.code].key = q.key
               /\ row[r.code].minted = 1 /\ r \in Reply
    <2>1. PICK c \in Code : row[c].key = q.key
                            /\ r = [key |-> q.key, code |-> c, nth |-> row[c].minted]
      BY DEF Answer, Stored
    <2>2. row[c].minted = 1
      BY <1>1, <2>1 DEF RowsFit
    <2> QED
      BY <1>1, <2>1, <2>2 DEF Reply
  <1>3. replies' \subseteq Reply
    BY <1>1, <1>2 DEF TypeOK
  <1>4. ASSUME NEW r \in Answer(q), NEW s \in replies', s.key = r.key PROVE s = r
    <2>1. CASE s \in Answer(q)
      <3>1. s.code = r.code /\ s.nth = r.nth
        BY <1>1, <1>2, <2>1 DEF KeysUnique
      <3> QED
        BY <1>2, <1>4, <2>1, <3>1 DEF Reply
    <2>2. CASE s \in replies
      <3>1. s \in Reply /\ row[s.code].key = q.key /\ row[s.code].minted >= s.nth
        BY <1>1, <1>2, <1>4, <2>2 DEF SameAnswer, TypeOK
      <3>2. s.code = r.code
        BY <1>1, <1>2, <3>1 DEF KeysUnique, Reply
      <3>3. s.nth = 1
        BY <1>2, <3>1, <3>2 DEF Reply
      <3> QED
        BY <1>2, <1>4, <3>1, <3>2, <3>3 DEF Reply
    <2> QED
      BY <2>1, <2>2
  <1>5. ASSUME NEW r \in replies'
        PROVE  /\ row'[r.code].key = r.key
               /\ row'[r.code].minted >= r.nth
               /\ \A s \in replies' : s.key = r.key => s = r
    <2>1. CASE r \in Answer(q)
      BY <1>2, <1>4, <2>1
    <2>2. CASE r \in replies
      <3>1. \A s \in Answer(q) : s.key = r.key => s = r
        BY <1>4, <2>2
      <3> QED
        BY <1>1, <2>2, <3>1 DEF SameAnswer
    <2> QED
      BY <2>1, <2>2
  <1> QED
    BY <1>3, <1>5 DEF SameAnswer

(* The answer stored under the key is given again, to the same input.       *)
LEMMA ServeStoredStep ==
    ASSUME IInv, NEW p \in Process, Started(p), ServeStored(p), UNCHANGED <<row, closed, faults>>
    PROVE  IInv'
  <1>1. req[p] \in Request /\ faults \in 0..MaxFaults
    BY DEF IInv, Knows, TypeOK
  <1>2. CASE Answer(req[p]) = {}
    BY <1>1, <1>2, RefuseStep DEF ServeStored
  <1>3. CASE Answer(req[p]) # {}
    <2>1. PICK q \in Request : q = req[p]
      BY <1>1
    <2>2. Leave(p, "served") /\ replies' = replies \cup Answer(q)
      BY <1>3, <2>1 DEF ServeStored, Serve
    <2>3. replies' \subseteq Reply /\ SameAnswer'
      BY <2>2, AnswersSame
    <2> QED
      BY <1>1, <2>2, <2>3, LeaveStep
  <1> QED
    BY <1>2, <1>3

(* The transaction is given up, the request is not.                         *)
LEMMA RollbackStep ==
    ASSUME IInv, NEW p \in Process, Started(p), Rollback(p), UNCHANGED <<row, replies, closed>>,
           faults' \in 0..MaxFaults
    PROVE  IInv'
  <1>1. TypeOK /\ Knows(p)
    BY DEF IInv
  <1>2. LocalsTyped' /\ OthersSame(p)
    BY <1>1 DEF Rollback, TypeOK, LocalsTyped, OthersSame, Same
  <1>3. /\ pc'[p] = "catch" /\ goal'[p] = "none" /\ held'[p] = {} /\ req' = req /\ rec' = rec
    BY <1>1 DEF Rollback, TypeOK
  <1>4. Knows(p)' /\ Holds(p)'
    BY <1>1, <1>3 DEF Knows, Holds, Started, Reading, Created
  <1> QED
    BY <1>2, <1>3, <1>4, HeldLess, AnswersKept, QuietStep

(* A statement fails: rollback and refusal, or a look under the key.        *)
LEMMA AbortStep ==
    ASSUME IInv, NEW p \in Process, Started(p), Abort(p), UNCHANGED <<row, replies, closed>>,
           faults' \in 0..MaxFaults
    PROVE  IInv'
  BY RollbackStep, RefuseStep DEF Abort

(* verifyOtp begins with the answer stored under its key.                   *)
LEMMA BeginStep ==
    ASSUME IInv, NEW p \in Process, Begin(p)
    PROVE  IInv'
  <1>1. /\ TypeOK /\ Knows(p) /\ Holds(p) /\ ~ Started(p) /\ UNCHANGED <<row, closed, faults>>
        /\ faults' \in 0..MaxFaults
    BY DEF IInv, Begin, TypeOK
  <1>2. PICK q \in [key : Key, guess : Created \cup {None}, device : Device] :
           \/ Serve(p, Answer(q))
           \/ /\ req' = [req EXCEPT ![p] = q]
              /\ pc' = [pc EXCEPT ![p] = "limits"]
              /\ UNCHANGED <<rec, goal, targets, held, replies>>
    BY DEF Begin
  <1>3. q \in Request /\ q.guess \in Created \cup {None}
    BY DEF Request, Created
  <1>4. CASE Serve(p, Answer(q))
    <2>1. replies' \subseteq Reply /\ SameAnswer'
      BY <1>1, <1>3, <1>4, AnswersSame DEF Serve
    <2> QED
      BY <1>1, <1>4, <2>1, LeaveStep DEF Serve
  <1>5. CASE /\ req' = [req EXCEPT ![p] = q]
             /\ pc' = [pc EXCEPT ![p] = "limits"]
             /\ UNCHANGED <<rec, goal, targets, held, replies>>
    <2>1. LocalsTyped' /\ OthersSame(p)
      BY <1>1, <1>3, <1>5 DEF TypeOK, LocalsTyped, OthersSame, Same
    <2>2. pc'[p] = "limits" /\ req'[p] = q /\ goal[p] = "none" /\ held[p] = {}
      BY <1>1, <1>5 DEF TypeOK, Holds, Started
    <2>3. Knows(p)'
      BY <1>1, <1>3, <1>5, <2>2 DEF Knows, Started, Reading, Created
    <2>4. Holds(p)'
      BY <1>5, <2>2 DEF Holds
    <2> QED
      BY <1>1, <1>5, <2>1, <2>2, <2>3, <2>4, HeldLess, AnswersKept, QuietStep
  <1> QED
    BY <1>2, <1>4, <1>5

(* The verification limit of the hour.                                      *)
LEMMA LimitsStep ==
    ASSUME IInv, NEW p \in Process, LimitReached(p) \/ WithinLimits(p)
    PROVE  IInv'
  <1>1. TypeOK /\ Knows(p) /\ Holds(p) /\ faults \in 0..MaxFaults
    BY DEF IInv, TypeOK
  <1>2. CASE LimitReached(p)
    BY <1>1, <1>2, RefuseStep DEF LimitReached
  <1>3. CASE WithinLimits(p)
    <2>1. /\ pc[p] = "limits" /\ pc' = [pc EXCEPT ![p] = "find"]
          /\ UNCHANGED <<req, rec, goal, targets, held, row, replies, closed, faults>>
      BY <1>3 DEF WithinLimits, Goto
    <2>2. LocalsTyped' /\ OthersSame(p) /\ pc'[p] = "find"
      BY <1>1, <2>1 DEF TypeOK, LocalsTyped, OthersSame, Same
    <2>3. Knows(p)' /\ Holds(p)'
      BY <1>1, <2>1, <2>2 DEF Knows, Holds, Started, Reading, Created, LiveCodes
    <2> QED
      BY <1>1, <2>1, <2>2, <2>3, HeldLess, AnswersKept, QuietStep
  <1> QED
    BY <1>2, <1>3

(* A guess of a newer code than the one found is of a consumed one without  *)
(* an answer: codes expire and are retired in their order.                  *)
LEMMA NewestFound ==
    ASSUME IInv, NEW c \in Selectable, \A d \in Selectable : d <= c,
           NEW e \in Created, e > c
    PROVE  row[e].status = "consumed" /\ row[e].key = None
  <1>1. TypeOK /\ RowsFit /\ InOrder /\ c \in Code /\ e \in Code /\ row[e].status # "absent"
        /\ c \in LiveCodes
    BY DEF IInv, Created, Selectable, LiveCodes
  <1>2. c \in Nat /\ e \in Nat
    BY <1>1, CodesNumbered
  <1>3. e \notin Selectable
    BY <1>2
  <1>4. ~ (row[e].status = "live" /\ row[e].expired) /\ row[e].key = None
    BY <1>1, <1>2 DEF InOrder
  <1>5. row[e] \in Row
    BY <1>1 DEF TypeOK
  <1> QED
    BY <1>1, <1>3, <1>4, <1>5 DEF Selectable, LiveCodes, Row

(* The newest code that is live is read, with its attempts.                 *)
LEMMA FindStep ==
    ASSUME IInv, NEW p \in Process, Find(p)
    PROVE  IInv'
  <1>1. /\ TypeOK /\ RowsFit /\ Knows(p) /\ Holds(p) /\ pc[p] = "find" /\ faults' \in 0..MaxFaults
        /\ pc' = [pc EXCEPT ![p] = "compare"]
        /\ UNCHANGED <<row, req, goal, targets, held, replies, closed, faults>>
    BY DEF IInv, Find, TypeOK
  <1>2. PICK c \in Selectable :
           /\ \A d \in Selectable : d <= c
           /\ rec' = [rec EXCEPT ![p] = [code |-> c, attempts |-> row[c].attempts,
                                         inTime |-> FALSE]]
    BY DEF Find
  <1>3. c \in Code /\ c \in Created /\ row[c].status = "live" /\ row[c] \in Row
    BY <1>1 DEF Selectable, LiveCodes, Created, TypeOK
  <1>4. row[c].attempts \in 0..MaxAttempts /\ row[c].attempts < MaxAttempts
    BY <1>1, <1>3 DEF RowsFit, Row
  <1>5. /\ [code |-> c, attempts |-> row[c].attempts, inTime |-> FALSE]
              \in [code : Code \cup {None}, attempts : 0..MaxAttempts, inTime : BOOLEAN]
    BY <1>3, <1>4
  <1>6. LocalsTyped' /\ OthersSame(p)
    BY <1>1, <1>2, <1>5 DEF TypeOK, LocalsTyped, OthersSame, Same
  <1>7. pc'[p] = "compare" /\ rec'[p].code = c /\ rec'[p].attempts = row[c].attempts
    BY <1>1, <1>2 DEF TypeOK
  <1>8. Started(p) /\ goal[p] = "none" /\ held[p] = {}
    BY <1>1 DEF Started, Holds, TypeOK
  <1>9. ASSUME req[p].guess \in Code, req[p].guess > c
        PROVE  row[req[p].guess].status = "consumed" /\ row[req[p].guess].key = None
    <2>1. PICK e \in Created : e = req[p].guess
      BY <1>1, <1>8, <1>9, CodesNumbered DEF Knows
    <2> QED
      BY <1>2, <1>9, <2>1, NewestFound
  <1>10. Knows(p)'
    BY <1>1, <1>3, <1>4, <1>7, <1>8, <1>9 DEF Knows, Started, Reading, Created
  <1>11. Holds(p)'
    BY <1>1, <1>7, <1>8 DEF Holds
  <1> QED
    BY <1>1, <1>6, <1>10, <1>11, HeldLess, AnswersKept, QuietStep

(* bcrypt compares, outside of any transaction.                             *)
LEMMA CompareStep ==
    ASSUME IInv, NEW p \in Process, Compare(p)
    PROVE  IInv'
  <1>1. /\ TypeOK /\ Knows(p) /\ Holds(p) /\ pc[p] = "compare" /\ faults' \in 0..MaxFaults
        /\ UNCHANGED <<row, req, goal, targets, held, replies, closed, faults>>
    BY DEF IInv, Compare, TypeOK
  <1>2. PICK s \in {"consume", "wrong"}, t \in BOOLEAN :
           /\ pc' = [pc EXCEPT ![p] = s] /\ rec' = [rec EXCEPT ![p].inTime = t]
           /\ s = "consume" <=> req[p].guess = rec[p].code
    <2>1. CASE req[p].guess = rec[p].code
      <3>1. PICK t \in BOOLEAN : t = ~ row[rec[p].code].expired
        OBVIOUS
      <3> QED
        BY <2>1, <3>1 DEF Compare
    <2>2. CASE req[p].guess # rec[p].code
      <3>1. PICK t \in BOOLEAN : t = rec[p].inTime
        BY <1>1 DEF TypeOK
      <3>2. rec = [rec EXCEPT ![p].inTime = t]
        BY <1>1, <3>1 DEF TypeOK
      <3> QED
        BY <2>2, <3>2 DEF Compare
    <2> QED
      BY <2>1, <2>2
  <1>3. LocalsTyped' /\ OthersSame(p)
    BY <1>1, <1>2 DEF TypeOK, LocalsTyped, OthersSame, Same
  <1>4. pc'[p] = s /\ rec'[p].code = rec[p].code /\ rec'[p].attempts = rec[p].attempts
    BY <1>1, <1>2 DEF TypeOK
  <1>5. Started(p) /\ Reading(p) /\ goal[p] = "none" /\ held[p] = {}
    BY <1>1 DEF Started, Reading, Holds, TypeOK
  <1>6. Knows(p)'
    BY <1>1, <1>2, <1>4, <1>5 DEF Knows, Started, Reading, Created
  <1>7. Holds(p)'
    BY <1>1, <1>4, <1>5 DEF Holds
  <1> QED
    BY <1>1, <1>3, <1>6, <1>7, HeldLess, AnswersKept, QuietStep

(* The code is consumed if it is live still.                                *)
LEMMA ConsumeStep ==
    ASSUME IInv, NEW p \in Process, Consume(p)
    PROVE  IInv'
  <1>1. /\ TypeOK /\ Knows(p) /\ Holds(p) /\ HeldByOne /\ pc[p] = "consume"
        /\ faults' \in 0..MaxFaults /\ LockedBy(rec[p].code) = {} /\ row[rec[p].code].status = "live"
        /\ held' = [held EXCEPT ![p] = {rec[p].code}] /\ goal' = [goal EXCEPT ![p] = "mint"]
        /\ pc' = [pc EXCEPT ![p] = "pick"]
        /\ UNCHANGED <<row, req, rec, targets, replies, closed, faults>>
    BY DEF IInv, Consume, TypeOK
  <1>2. PICK c \in Created : c = rec[p].code
    BY <1>1 DEF Knows, Reading
  <1>3. c \in Code /\ c \in LiveCodes
    BY <1>1, <1>2 DEF Created, LiveCodes
  <1>4. LocalsTyped' /\ OthersSame(p)
    BY <1>1, <1>2, <1>3 DEF TypeOK, LocalsTyped, OthersSame, Same
  <1>5. pc'[p] = "pick" /\ goal'[p] = "mint" /\ held'[p] = {c}
    BY <1>1, <1>2 DEF TypeOK
  <1>6. Knows(p)'
    BY <1>1, <1>5 DEF Knows, Started, Reading, Created
  <1>7. Holds(p)'
    BY <1>1, <1>2, <1>3, <1>5 DEF Holds, LiveCodes
  <1>8. HeldByOne'
    <2>1. \A q \in Process \ {p} : c \notin held[q] /\ held'[q] = held[q]
      BY <1>1, <1>2, <1>4 DEF LockedBy, OthersSame, Same
    <2> QED
      BY <1>1, <1>5, <2>1 DEF HeldByOne
  <1> QED
    BY <1>1, <1>4, <1>6, <1>7, <1>8, AnswersKept, QuietStep

(* The other live codes are found, to be retired.                           *)
LEMMA PickStep ==
    ASSUME IInv, NEW p \in Process, Pick(p)
    PROVE  IInv'
  <1>1. /\ TypeOK /\ Knows(p) /\ Holds(p) /\ pc[p] = "pick" /\ faults' \in 0..MaxFaults
        /\ targets' = [targets EXCEPT ![p] = LiveCodes \ held[p]]
        /\ pc' = [pc EXCEPT ![p] = "retire"]
        /\ UNCHANGED <<row, req, rec, goal, held, replies, closed, faults>>
    BY DEF IInv, Pick, TypeOK
  <1>2. LocalsTyped' /\ OthersSame(p)
    BY <1>1 DEF TypeOK, LocalsTyped, OthersSame, Same, LiveCodes
  <1>3. pc'[p] = "retire" /\ targets'[p] = LiveCodes \ held[p]
    BY <1>1 DEF TypeOK
  <1>4. Knows(p)'
    BY <1>1, <1>3 DEF Knows, Started, Reading, Created
  <1>5. Holds(p)'
    BY <1>1, <1>3 DEF Holds, LiveCodes
  <1> QED
    BY <1>1, <1>2, <1>4, <1>5, HeldLess, AnswersKept, QuietStep

(* One of them is locked and retired.                                       *)
LEMMA RetireStep ==
    ASSUME IInv, NEW p \in Process, Retire(p)
    PROVE  IInv'
  <1>1. /\ TypeOK /\ Knows(p) /\ Holds(p) /\ HeldByOne /\ pc[p] = "retire"
        /\ faults' \in 0..MaxFaults
        /\ UNCHANGED <<row, pc, req, rec, goal, replies, closed, faults>>
    BY DEF IInv, Retire, TypeOK
  <1>2. PICK c \in targets[p] :
           /\ LockedBy(c) = {}
           /\ targets' = [targets EXCEPT ![p] = targets[p] \ {c}]
           /\ held' = [held EXCEPT ![p] = IF row[c].status = "live" THEN held[p] \cup {c}
                                                                    ELSE held[p]]
    BY DEF Retire
  <1>3. c \in Code
    BY <1>1 DEF TypeOK
  <1>4. LocalsTyped' /\ OthersSame(p)
    BY <1>1, <1>2, <1>3 DEF TypeOK, LocalsTyped, OthersSame, Same
  <1>5. /\ targets'[p] = targets[p] \ {c}
        /\ held'[p] = IF c \in LiveCodes THEN held[p] \cup {c} ELSE held[p]
    BY <1>1, <1>2, <1>3 DEF TypeOK, LiveCodes
  <1>6. Knows(p)'
    BY <1>1 DEF Knows, Started, Reading, Created
  <1>7. Holds(p)'
    BY <1>1, <1>5 DEF Holds, LiveCodes
  <1>8. HeldByOne'
    <2>1. \A q \in Process \ {p} : c \notin held[q] /\ held'[q] = held[q]
      BY <1>2, <1>4 DEF LockedBy, OthersSame, Same
    <2> QED
      BY <1>1, <1>5, <2>1 DEF HeldByOne
  <1> QED
    BY <1>1, <1>4, <1>6, <1>7, <1>8, AnswersKept, QuietStep

-----------------------------------------------------------------------------
(* Steps that write the codes.                                              *)

(* A step that changes codes and answers and no request.                    *)
LEMMA CodesStep ==
    ASSUME IInv, TypeOK', RowsFit', KeysUnique', InOrder', ClosedStaysConsumed', SameAnswer',
           HeldByOne',
           \A q \in Process : \/ Same(q) /\ RowsAdvance(held[q])
                              \/ Knows(q)' /\ Holds(q)'
    PROVE  IInv'
  <1>1. \A q \in Process : Knows(q)' /\ Holds(q)'
    BY Unconcerned DEF IInv
  <1> QED
    BY <1>1 DEF IInv

(* One code's row changes; what a request holds or has been told does not.  *)
Touched(c) == row' \in [Code -> Row] /\ \A d \in Code \ {c} : row'[d] = row[d]

(* One row changes, by the service or by time, in nothing that a request    *)
(* goes by.                                                                 *)
LEMMA TouchStep ==
    ASSUME IInv, UNCHANGED <<requestVars, replies, closed, faults>>, NEW c \in Code, Touched(c),
           row'[c].key = row[c].key, row'[c].minted = row[c].minted,
           row[c].status # "absent" => row'[c].status = row[c].status,
           RowsFit', InOrder', \A S \in SUBSET LiveCodes : RowsAdvance(S)
    PROVE  IInv'
  <1>1. /\ TypeOK /\ KeysUnique /\ ClosedStaysConsumed /\ SameAnswer /\ HeldByOne
        /\ \A q \in Process : Holds(q)
    BY DEF IInv
  <1>2. TypeOK'
    BY <1>1 DEF TypeOK, Touched, requestVars
  <1>3. \A d \in Code : row'[d].key = row[d].key /\ row'[d].minted = row[d].minted
    BY DEF Touched
  <1>4. KeysUnique' /\ HeldByOne'
    BY <1>1, <1>3 DEF KeysUnique, HeldByOne, requestVars
  <1>5. ClosedStaysConsumed'
    BY <1>1 DEF ClosedStaysConsumed, Touched, TypeOK
  <1>6. SameAnswer'
    <2>1. \A r \in replies : r.code \in Code
      BY <1>1 DEF TypeOK, Reply
    <2> QED
      BY <1>1, <1>3, <2>1 DEF SameAnswer
  <1>7. \A q \in Process : Same(q) /\ RowsAdvance(held[q])
    BY <1>1 DEF Same, requestVars, Holds
  <1> QED
    BY <1>2, <1>4, <1>5, <1>6, <1>7, CodesStep

(* A code is issued; it is the newest.                                      *)
LEMMA NewCodeStep ==
    ASSUME IInv, NEW c \in Code, NewCode(c)
    PROVE  IInv'
  <1>1. /\ TypeOK /\ RowsFit /\ InOrder /\ row[c].status = "absent" /\ 1..(c - 1) \subseteq Created
        /\ row' = [row EXCEPT ![c].status = "live"] /\ row[c] \in Row
        /\ UNCHANGED <<requestVars, replies, closed, faults>>
    BY DEF IInv, NewCode, TypeOK
  <1>2. /\ row'[c] = [row[c] EXCEPT !.status = "live"]
        /\ row'[c] \in Row /\ row'[c].status = "live" /\ row'[c].key = row[c].key
        /\ row'[c].minted = row[c].minted /\ row'[c].attempts = row[c].attempts
        /\ row'[c].expired = row[c].expired
    BY <1>1 DEF TypeOK, Row
  <1>3. Touched(c)
    BY <1>1, <1>2 DEF Touched, TypeOK
  <1>4. RowsFit'
    BY <1>1, <1>2, <1>3 DEF RowsFit, Touched
  <1>5. Created' = Created \cup {c} /\ LiveCodes' = LiveCodes \cup {c} /\ c \notin Created
    BY <1>1, <1>2, <1>3 DEF Created, LiveCodes, Touched
  <1>6. \A e \in Created : e < c
    <2> SUFFICES ASSUME NEW e \in Created, ~ (e < c) PROVE FALSE
      OBVIOUS
    <2>1. e \in Nat /\ c \in Nat /\ e # c
      BY <1>5, CodesNumbered DEF Created
    <2> QED
      BY <1>1, <1>5, <2>1 DEF InOrder
  <1>7. \A d \in Code : d < c => d \in Created
    <2> SUFFICES ASSUME NEW d \in Code, d < c PROVE d \in Created
      OBVIOUS
    <2>1. d \in Nat \ {0} /\ c \in Nat
      BY CodesNumbered
    <2>2. d \in 1..(c - 1)
      BY <2>1
    <2> QED
      BY <1>1, <2>2
  <1>8. InOrder'
    <2> SUFFICES ASSUME NEW e \in Created', NEW d \in Code, d < e
                 PROVE  /\ d \in Created'
                        /\ d \in Selectable' => ~ (row'[e].status = "live" /\ row'[e].expired)
                        /\ d \in LiveCodes' => row'[e].key = None
      BY <1>1 DEF InOrder
    <2>1. CASE e = c
      <3>1. row'[c].key = None /\ ~ row'[c].expired
        BY <1>1, <1>2 DEF RowsFit
      <3> QED
        BY <1>5, <1>7, <2>1, <3>1
    <2>2. CASE e # c
      <3>1. e \in Created /\ d # c /\ e \in Code
        <4>1. e \in Created
          BY <1>5, <2>2
        <4>2. e \in Nat /\ c \in Nat /\ e < c
          BY <1>6, <4>1, CodesNumbered DEF Created
        <4> QED
          BY <4>1, <4>2 DEF Created
      <3>2. row'[e] = row[e] /\ row'[d] = row[d]
        BY <2>2, <3>1, <1>3 DEF Touched
      <3> QED
        BY <1>1, <1>5, <3>1, <3>2 DEF InOrder, Selectable, LiveCodes
    <2> QED
      BY <2>1, <2>2
  <1>9. \A S \in SUBSET LiveCodes : RowsAdvance(S)
    BY <1>1, <1>3, <1>5, <1>6 DEF RowsAdvance, Touched
  <1> QED
    BY <1>1, <1>2, <1>3, <1>4, <1>8, <1>9, TouchStep

(* A limit passes; no code is created, consumed or answered by that.        *)
LEMMA PassStep ==
    ASSUME IInv, UNCHANGED <<requestVars, replies, closed, faults>>, NEW c \in Code, Touched(c),
           row'[c].key = row[c].key, row'[c].minted = row[c].minted,
           row'[c].status = row[c].status, row'[c].attempts = row[c].attempts,
           row'[c].expired # row[c].expired => row[c].status = "live" /\ \A d \in Selectable : c <= d,
           row[c].expired => row'[c].expired
    PROVE  IInv'
  <1>1. TypeOK /\ RowsFit /\ InOrder
    BY DEF IInv
  <1>2. RowsFit'
    BY <1>1 DEF RowsFit, Touched
  <1>3. Created' = Created /\ LiveCodes' = LiveCodes
    BY DEF Created, LiveCodes, Touched
  <1>4. Selectable' \subseteq Selectable
    BY <1>1, <1>3 DEF Selectable, Touched, TypeOK, Row, LiveCodes
  <1>5. InOrder'
    <2> SUFFICES ASSUME NEW e \in Created, NEW d \in Code, d < e
                 PROVE  /\ d \in Created
                        /\ d \in Selectable' => ~ (row'[e].status = "live" /\ row'[e].expired)
                        /\ d \in LiveCodes => row'[e].key = None
      BY <1>3 DEF InOrder
    <2>1. e \in Code /\ d \in Nat /\ e \in Nat
      BY CodesNumbered DEF Created
    <2>2. row'[e].key = row[e].key /\ row'[e].status = row[e].status
      BY <2>1 DEF Touched
    <2>3. ASSUME d \in Selectable', row'[e].status = "live", row'[e].expired PROVE FALSE
      <3>1. d \in Selectable /\ row[e].status = "live"
        BY <1>4, <2>2, <2>3
      <3>2. ~ row[e].expired
        BY <1>1, <2>1, <3>1 DEF InOrder
      <3>3. e = c /\ \A s \in Selectable : c <= s
        BY <2>1, <2>3, <3>2 DEF Touched
      <3> QED
        BY <2>1, <3>1, <3>3
    <2> QED
      BY <1>1, <2>2, <2>3 DEF InOrder
  <1>6. \A S \in SUBSET LiveCodes : RowsAdvance(S)
    BY <1>3 DEF RowsAdvance, Touched
  <1> QED
    BY <1>2, <1>5, <1>6, TouchStep

(* The oldest selectable code expires.                                      *)
LEMMA ExpireStep ==
    ASSUME IInv, NEW c \in Code, Expire(c)
    PROVE  IInv'
  <1>1. /\ TypeOK /\ row[c].status = "live" /\ (\A d \in Selectable : c <= d) /\ row[c] \in Row
        /\ row' = [row EXCEPT ![c].expired = TRUE]
        /\ UNCHANGED <<requestVars, replies, closed, faults>>
    BY DEF IInv, Expire, TypeOK
  <1>2. /\ row'[c] \in Row /\ row'[c].status = row[c].status /\ row'[c].key = row[c].key
        /\ row'[c].minted = row[c].minted /\ row'[c].attempts = row[c].attempts
        /\ row'[c].expired = TRUE
    BY <1>1 DEF TypeOK, Row
  <1>3. Touched(c)
    BY <1>1, <1>2 DEF Touched, TypeOK
  <1> QED
    BY <1>1, <1>2, <1>3, PassStep

(* The window in which an answer is given again closes.                     *)
LEMMA WindowStep ==
    ASSUME IInv, NEW c \in Code, WindowCloses(c)
    PROVE  IInv'
  <1>1. /\ TypeOK /\ row[c] \in Row /\ row' = [row EXCEPT ![c].window = FALSE]
        /\ UNCHANGED <<requestVars, replies, closed, faults>>
    BY DEF IInv, WindowCloses, TypeOK
  <1>2. /\ row'[c] \in Row /\ row'[c].status = row[c].status /\ row'[c].key = row[c].key
        /\ row'[c].minted = row[c].minted /\ row'[c].attempts = row[c].attempts
        /\ row'[c].expired = row[c].expired
    BY <1>1 DEF TypeOK, Row
  <1>3. Touched(c)
    BY <1>1, <1>2 DEF Touched, TypeOK
  <1> QED
    BY <1>1, <1>2, <1>3, PassStep

(* A wrong guess finds the code in nobody's transaction, and it either      *)
(* counts it or, with the last attempt, consumes the code.                  *)
LEMMA WrongGuessStep ==
    ASSUME IInv, NEW p \in Process, WrongGuess(p)
    PROVE  IInv'
  <1>1. /\ TypeOK /\ RowsFit /\ KeysUnique /\ InOrder /\ ClosedStaysConsumed /\ SameAnswer
        /\ HeldByOne /\ Knows(p) /\ Holds(p) /\ pc[p] = "wrong" /\ LockedBy(rec[p].code) = {}
        /\ UNCHANGED <<replies, faults>>
    BY DEF IInv, WrongGuess
  <1>2. PICK c \in Created : c = rec[p].code
    BY <1>1 DEF Knows, Reading
  <1>3. PICK a \in 0..MaxAttempts : a = rec[p].attempts
    BY <1>1 DEF TypeOK
  <1>4. c \in Code /\ row[c] \in Row /\ row[c].status # "absent" /\ a < MaxAttempts
        /\ a + 1 \in 0..MaxAttempts
    BY <1>1, <1>3, VerifyAssumption DEF Created, TypeOK, Knows
  <1>5. Started(p) /\ Reading(p) /\ goal[p] = "none" /\ held[p] = {}
    BY <1>1 DEF Started, Reading, Holds, TypeOK
  <1>6. \A q \in Process : c \notin held[q] /\ held[q] \subseteq LiveCodes
    BY <1>1, <1>2 DEF IInv, LockedBy, Holds
  (* What the row keeps in either case is enough for most of it.            *)
  <1>7. ASSUME Touched(c), row'[c].key = row[c].key, row'[c].minted = row[c].minted,
               row'[c].expired = row[c].expired,
               \/ row'[c].status = row[c].status /\ row'[c].attempts < MaxAttempts
               \/ row'[c].status = "consumed"
        PROVE  /\ RowsFit' /\ KeysUnique' /\ InOrder' /\ SameAnswer'
               /\ \A q \in Process : RowsAdvance(held[q])
               /\ Created' = Created
               /\ \A d \in Code : row[d].status = "consumed" => row'[d].status = "consumed"
    <2>1. \A d \in Code : row'[d].key = row[d].key /\ row'[d].minted = row[d].minted
      BY <1>7 DEF Touched
    <2>2. RowsFit' /\ KeysUnique'
      BY <1>1, <1>4, <1>7, <2>1 DEF RowsFit, KeysUnique, Touched
    <2>3. SameAnswer'
      <3>1. \A r \in replies : r.code \in Code
        BY <1>1 DEF TypeOK, Reply
      <3> QED
        BY <1>1, <2>1, <3>1 DEF SameAnswer
    <2>4. Created' = Created /\ LiveCodes' \subseteq LiveCodes /\ LiveCodes \ {c} \subseteq LiveCodes'
      BY <1>4, <1>7 DEF Created, LiveCodes, Touched
    <2>5. Selectable' \subseteq Selectable
      BY <1>7, <2>4 DEF Selectable, Touched, LiveCodes
    <2>6. InOrder'
      <3> SUFFICES ASSUME NEW e \in Created, NEW d \in Code, d < e
                   PROVE  /\ d \in Created
                          /\ d \in Selectable' => ~ (row'[e].status = "live" /\ row'[e].expired)
                          /\ d \in LiveCodes' => row'[e].key = None
        BY <2>4 DEF InOrder
      <3>1. e \in Code
        BY DEF Created
      <3>2. row'[e].status = "live" /\ row'[e].expired => row[e].status = "live" /\ row[e].expired
        BY <1>7, <3>1 DEF Touched
      <3> QED
        BY <1>1, <2>1, <2>4, <2>5, <3>1, <3>2 DEF InOrder
    <2>7. \A d \in Code : row[d].status = "consumed" => row'[d].status = "consumed"
      BY <1>7 DEF Touched
    <2>8. \A q \in Process : RowsAdvance(held[q])
      BY <1>6, <2>1, <2>4, <2>7 DEF RowsAdvance
    <2> QED
      BY <2>2, <2>3, <2>4, <2>6, <2>7, <2>8
  <1>8. CASE a + 1 >= MaxAttempts
    <2>1. /\ row' = [row EXCEPT ![c].attempts = a + 1, ![c].status = "consumed"]
          /\ closed' = closed \cup {c} /\ pc' = [pc EXCEPT ![p] = "pick"]
          /\ goal' = [goal EXCEPT ![p] = "lock"] /\ UNCHANGED <<req, rec, targets, held>>
      BY <1>2, <1>3, <1>8 DEF WrongGuess
    <2>2. /\ row'[c] \in Row /\ row'[c].status = "consumed" /\ row'[c].key = row[c].key
          /\ row'[c].minted = row[c].minted /\ row'[c].expired = row[c].expired
          /\ Touched(c)
      <3> DEFINE r == [row[c] EXCEPT !.attempts = a + 1]
      <3>1. row' = [row EXCEPT ![c] = [r EXCEPT !.status = "consumed"]]
        BY <1>1, <1>4, <2>1 DEF TypeOK
      <3>2. r \in Row /\ r.key = row[c].key /\ r.minted = row[c].minted
            /\ r.expired = row[c].expired
        BY <1>4 DEF Row
      <3> HIDE DEF r
      <3>3. LET s == [r EXCEPT !.status = "consumed"] IN
            s \in Row /\ s.status = "consumed" /\ s.key = r.key /\ s.minted = r.minted
              /\ s.expired = r.expired
        BY <3>2 DEF Row
      <3> QED
        BY <1>1, <1>4, <3>1, <3>2, <3>3 DEF TypeOK, Touched
    <2>3. /\ RowsFit' /\ KeysUnique' /\ InOrder' /\ SameAnswer' /\ Created' = Created
          /\ \A q \in Process : RowsAdvance(held[q])
          /\ \A d \in Code : row[d].status = "consumed" => row'[d].status = "consumed"
      BY <1>7, <2>2
    <2>4. TypeOK' /\ OthersSame(p)
      BY <1>1, <1>4, <2>1, <2>2 DEF TypeOK, Touched, OthersSame, Same
    <2>5. pc'[p] = "pick" /\ goal'[p] = "lock" /\ held'[p] = {}
      BY <1>1, <1>5, <2>1 DEF TypeOK
    <2>6. ClosedStaysConsumed'
      BY <1>1, <2>1, <2>2, <2>3 DEF ClosedStaysConsumed, TypeOK
    <2>7. Knows(p)'
      <3>1. req[p].guess \in Code /\ req[p].guess > rec[p].code =>
              row'[req[p].guess].status = "consumed" /\ row'[req[p].guess].key = None
        BY <1>1, <1>5, <2>3 DEF Knows, RowsAdvance
      <3> QED
        BY <1>1, <1>5, <2>1, <2>3, <2>5, <3>1 DEF Knows, Started, Reading
    <2>8. Holds(p)'
      BY <2>5 DEF Holds
    <2>9. HeldByOne'
      BY <1>1, <2>1 DEF HeldByOne
    <2> QED
      BY <2>3, <2>4, <2>6, <2>7, <2>8, <2>9, CodesStep DEF OthersSame
  <1>9. CASE ~ (a + 1 >= MaxAttempts)
    <2>1. /\ row' = [row EXCEPT ![c].attempts = a + 1] /\ Leave(p, "idle") /\ closed' = closed
      BY <1>2, <1>3, <1>9 DEF WrongGuess, Refuse
    <2>2. /\ row'[c] \in Row /\ row'[c].status = row[c].status /\ row'[c].key = row[c].key
          /\ row'[c].minted = row[c].minted /\ row'[c].expired = row[c].expired
          /\ row'[c].attempts = a + 1 /\ Touched(c)
      <3>1. row'[c] = [row[c] EXCEPT !.attempts = a + 1]
        BY <1>1, <1>4, <2>1 DEF TypeOK
      <3>2. /\ row'[c] \in Row /\ row'[c].status = row[c].status /\ row'[c].key = row[c].key
            /\ row'[c].minted = row[c].minted /\ row'[c].expired = row[c].expired
            /\ row'[c].attempts = a + 1
        BY <1>4, <3>1 DEF Row
      <3> QED
        BY <1>1, <1>4, <2>1, <3>2 DEF TypeOK, Touched
    <2>3. /\ RowsFit' /\ KeysUnique' /\ InOrder' /\ SameAnswer'
          /\ \A q \in Process : RowsAdvance(held[q])
          /\ \A d \in Code : row[d].status = "consumed" => row'[d].status = "consumed"
      <3>1. a + 1 < MaxAttempts
        BY <1>4, <1>9, VerifyAssumption
      <3> QED
        BY <1>7, <2>2, <3>1
    <2>4. LocalsTyped' /\ OthersSame(p) /\ Knows(p)' /\ Holds(p)' /\ held'[p] = {}
      BY <1>1, <2>1, Leaving
    <2>5. TypeOK' /\ ClosedStaysConsumed'
      BY <1>1, <2>1, <2>2, <2>3, <2>4 DEF TypeOK, LocalsTyped, Touched, ClosedStaysConsumed
    <2>6. HeldByOne'
      BY <1>1, <2>4 DEF HeldByOne, OthersSame, Same
    <2> QED
      BY <2>3, <2>4, <2>5, <2>6, CodesStep DEF OthersSame
  <1> QED
    BY <1>8, <1>9

-----------------------------------------------------------------------------
(* A transaction commits: what it held is consumed and closed.              *)

(* What a commit makes of each row.                                         *)
LEMMA ConsumedRows ==
    ASSUME TypeOK, NEW p \in Process, NEW d \in Code
    PROVE  LET r == Consumed(p)[d] IN
           /\ r \in Row /\ r.key = row[d].key /\ r.minted = row[d].minted
           /\ r.expired = row[d].expired /\ r.attempts = row[d].attempts
           /\ r.status = IF d \in held[p] THEN "consumed" ELSE row[d].status
  <1>1. row[d] \in Row
    BY DEF TypeOK
  <1>2. CASE d \in held[p]
    <2>1. Consumed(p)[d] = [row[d] EXCEPT !.status = "consumed"]
      BY <1>2 DEF Consumed
    <2> QED
      BY <1>1, <1>2, <2>1 DEF Row
  <1>3. CASE d \notin held[p]
    <2>1. Consumed(p)[d] = row[d]
      BY <1>3 DEF Consumed
    <2> QED
      BY <1>1, <1>3, <2>1
  <1> QED
    BY <1>2, <1>3

Settles(p) ==
    /\ row' \in [Code -> Row]
    /\ closed' = closed \cup held[p]
    /\ \A d \in Code :
          /\ row'[d].expired = row[d].expired
          /\ row'[d].status = IF d \in held[p] THEN "consumed" ELSE row[d].status

(* A commit takes the rows it holds out of the live ones.                   *)
LEMMA SettledSets ==
    ASSUME NEW p \in Process, Holds(p), Settles(p)
    PROVE  /\ Created' = Created /\ LiveCodes' = LiveCodes \ held[p]
           /\ Selectable' = Selectable \ held[p]
  <1>1. \A d \in held[p] : d \in Code /\ row[d].status = "live"
    BY DEF Holds, LiveCodes
  <1>2. Created' = Created
    BY <1>1 DEF Created, Settles
  <1>3. LiveCodes' = LiveCodes \ held[p]
    BY DEF LiveCodes, Settles
  <1>4. Selectable' = Selectable \ held[p]
    <2>1. \A d \in LiveCodes : row'[d].expired = row[d].expired
      BY DEF LiveCodes, Settles
    <2> QED
      BY <1>3, <2>1 DEF Selectable
  <1> QED
    BY <1>2, <1>3, <1>4

(* A transaction commits and lets its rows go.                              *)
LEMMA SettleStep ==
    ASSUME IInv, NEW p \in Process, NEW as \in {"idle", "served"}, Leave(p, as), Settles(p),
           RowsFit', KeysUnique', SameAnswer', replies' \subseteq Reply, faults' = faults,
           \A e \in Code : row'[e].key # None =>
              \/ row[e].key # None
              \/ \A d \in Code : d < e => d \in Created /\ d \notin LiveCodes',
           \A d \in Code : row[d].status = "consumed" => row'[d].key = row[d].key
    PROVE  IInv'
  <1>1. /\ TypeOK /\ RowsFit /\ InOrder /\ ClosedStaysConsumed /\ HeldByOne
        /\ Holds(p) /\ \A q \in Process : Holds(q)
    BY DEF IInv
  <1>2. /\ Created' = Created /\ LiveCodes' = LiveCodes \ held[p]
        /\ Selectable' = Selectable \ held[p]
    BY <1>1, SettledSets
  <1>3. /\ LocalsTyped' /\ OthersSame(p) /\ Knows(p)' /\ Holds(p)' /\ held'[p] = {}
    BY <1>1, Leaving
  <1>4. TypeOK'
    BY <1>1, <1>3 DEF TypeOK, LocalsTyped, Settles
  <1>5. InOrder'
    <2> SUFFICES ASSUME NEW e \in Created, NEW d \in Code, d < e
                 PROVE  /\ d \in Created
                        /\ d \in Selectable' => ~ (row'[e].status = "live" /\ row'[e].expired)
                        /\ d \in LiveCodes' => row'[e].key = None
      BY <1>2 DEF InOrder
    <2>1. e \in Code
      BY DEF Created
    <2>2. row'[e].status = "live" => row[e].status = "live"
      BY <2>1 DEF Settles
    <2>3. d \in LiveCodes' => row'[e].key = None
      BY <1>1, <1>2, <2>1 DEF InOrder
    <2> QED
      BY <1>1, <1>2, <2>1, <2>2, <2>3 DEF InOrder, Settles
  <1>6. ClosedStaysConsumed'
    BY <1>1 DEF TypeOK, ClosedStaysConsumed, Settles
  <1>7. \A q \in Process \ {p} : RowsAdvance(held[q])
    <2> TAKE q \in Process \ {p}
    <2>1. held[q] \subseteq LiveCodes \ held[p]
      BY <1>1 DEF HeldByOne, Holds
    <2> QED
      BY <1>2, <2>1 DEF RowsAdvance, Settles
  <1>8. HeldByOne'
    BY <1>1, <1>3 DEF HeldByOne, OthersSame, Same
  <1> QED
    BY <1>3, <1>4, <1>5, <1>6, <1>7, <1>8, CodesStep DEF OthersSame

(* The lockout commits: the code is consumed and mints nothing.             *)
LEMMA CommitLockStep ==
    ASSUME IInv, NEW p \in Process, CommitLock(p)
    PROVE  IInv'
  <1>1. /\ TypeOK /\ RowsFit /\ KeysUnique /\ SameAnswer
        /\ row' = Consumed(p) /\ closed' = closed \cup held[p] /\ Refuse(p)
        /\ UNCHANGED <<replies, faults>>
    BY DEF IInv, CommitLock
  <1>2. \A d \in Code :
           /\ row'[d] \in Row /\ row'[d].key = row[d].key /\ row'[d].minted = row[d].minted
           /\ row'[d].expired = row[d].expired /\ row'[d].attempts = row[d].attempts
           /\ row'[d].status = IF d \in held[p] THEN "consumed" ELSE row[d].status
    BY <1>1, ConsumedRows
  <1>3. row' \in [Code -> Row]
    BY <1>1, <1>2 DEF Consumed
  <1>4. Settles(p)
    BY <1>1, <1>2, <1>3 DEF Settles
  <1>5. RowsFit' /\ KeysUnique'
    BY <1>1, <1>2 DEF RowsFit, KeysUnique
  <1>6. SameAnswer'
    <2>1. \A r \in replies : r.code \in Code
      BY <1>1 DEF TypeOK, Reply
    <2> QED
      BY <1>1, <1>2, <2>1 DEF SameAnswer
  <1>7. replies' \subseteq Reply
    BY <1>1 DEF TypeOK
  <1>8. \A e \in Code : row'[e].key = row[e].key
    BY <1>2
  <1> QED
    BY <1>1, <1>4, <1>5, <1>6, <1>7, <1>8, SettleStep DEF Refuse

(* The code was live until now, so the session is its first, and no answer  *)
(* has been given under the key.                                            *)
LEMMA CommitMintStep ==
    ASSUME IInv, NEW p \in Process, CommitMint(p)
    PROVE  IInv'
  <1> DEFINE c == rec[p].code
             k == req[p].key
             first == [key |-> k, code |-> c, nth |-> 1]
  <1>1. /\ TypeOK /\ RowsFit /\ KeysUnique /\ SameAnswer /\ Knows(p) /\ Holds(p) /\ InOrder
        /\ pc[p] = "retire" /\ goal[p] = "mint" /\ targets[p] = {}
        /\ Stored(k) = {} /\ closed' = closed \cup held[p] /\ faults' = faults
    BY DEF IInv, CommitMint
  <1>2. /\ c \in Code /\ c \in held[p] /\ c \in Created /\ row[c].status = "live"
        /\ row[c].key = None /\ row[c].minted = 0
        /\ k \in Key /\ k # None /\ req[p].device \in Device
    <2>1. c \in Code /\ c \in held[p] /\ c \in Created /\ row[c].status = "live"
      BY <1>1 DEF Knows, Holds, Reading, Created, LiveCodes
    <2>2. row[c].key = None /\ row[c].minted = 0
      BY <1>1, <2>1 DEF RowsFit
    <2>3. req[p] \in Request
      BY <1>1 DEF Knows, Started
    <2> QED
      BY <2>1, <2>2, <2>3, VerifyAssumption DEF Request
  <1>3. /\ row' = [Consumed(p) EXCEPT ![c].key = k, ![c].device = req[p].device,
                                      ![c].window = TRUE, ![c].minted = 1]
        /\ Serve(p, {first})
    <2>1. (IF row[c].minted < 2 THEN row[c].minted + 1 ELSE 2) = 1
      BY <1>2
    <2> QED
      BY <2>1, Zenon DEF CommitMint
  <1> HIDE DEF c, k
  <1>4. /\ Consumed(p)[c] \in Row
        /\ Consumed(p) = [d \in Code |-> Consumed(p)[d]]
    BY <1>1, <1>2, ConsumedRows DEF Consumed
  <1>5. /\ row'[c] \in Row /\ row'[c].key = k /\ row'[c].minted = 1
        /\ row'[c].expired = row[c].expired /\ row'[c].attempts = row[c].attempts
        /\ row'[c].status = "consumed"
    <2> DEFINE r == Consumed(p)[c]
    <2>1. row'[c] = [[[[r EXCEPT !.key = k] EXCEPT !.device = req[p].device]
                           EXCEPT !.window = TRUE] EXCEPT !.minted = 1]
      BY <1>2, <1>3, <1>4
    <2>2. /\ r \in Row /\ r.expired = row[c].expired /\ r.attempts = row[c].attempts
          /\ r.status = "consumed"
      BY <1>1, <1>2, ConsumedRows
    <2> HIDE DEF r
    <2> DEFINE r1 == [r EXCEPT !.key = k]
               r2 == [r1 EXCEPT !.device = req[p].device]
               r3 == [r2 EXCEPT !.window = TRUE]
               r4 == [r3 EXCEPT !.minted = 1]
    <2>3. r1 \in Row /\ r1.key = k /\ r1.expired = r.expired /\ r1.attempts = r.attempts
          /\ r1.status = r.status
      BY <1>2, <2>2 DEF Row
    <2> HIDE DEF r1
    <2>4. r2 \in Row /\ r2.key = k /\ r2.expired = r.expired /\ r2.attempts = r.attempts
          /\ r2.status = r.status
      BY <1>2, <2>3 DEF Row
    <2> HIDE DEF r2
    <2>5. r3 \in Row /\ r3.key = k /\ r3.expired = r.expired /\ r3.attempts = r.attempts
          /\ r3.status = r.status
      BY <2>4 DEF Row
    <2> HIDE DEF r3
    <2>6. r4 \in Row /\ r4.key = k /\ r4.minted = 1 /\ r4.expired = r.expired
          /\ r4.attempts = r.attempts /\ r4.status = r.status
      BY <2>5 DEF Row
    <2>7. row'[c] = r4
      BY <2>1 DEF r1, r2, r3
    <2> QED
      BY <2>2, <2>6, <2>7
  <1>6. \A d \in Code \ {c} : row'[d] = Consumed(p)[d]
    BY <1>2, <1>3, <1>4
  <1>7. \A d \in Code \ {c} :
           /\ row'[d] \in Row /\ row'[d].key = row[d].key /\ row'[d].minted = row[d].minted
           /\ row'[d].expired = row[d].expired /\ row'[d].attempts = row[d].attempts
           /\ row'[d].status = IF d \in held[p] THEN "consumed" ELSE row[d].status
    BY <1>1, <1>6, ConsumedRows
  <1>8. row' \in [Code -> Row]
    BY <1>3, <1>4, <1>5, <1>7
  <1>9. Settles(p)
    BY <1>1, <1>2, <1>5, <1>7, <1>8 DEF Settles
  <1>10. RowsFit' /\ KeysUnique'
    BY <1>1, <1>2, <1>5, <1>7 DEF RowsFit, KeysUnique, Stored
  <1>11. replies' = replies \cup {first} /\ first \in Reply
    BY <1>2, <1>3 DEF Serve, Reply
  <1>12. SameAnswer'
    <2>1. \A r \in replies : r.code \in Code /\ r.key # None
      BY <1>1, VerifyAssumption DEF TypeOK, Reply
    <2>2. \A r \in replies : r.code # c /\ r.key # k
      BY <1>1, <1>2, <2>1 DEF SameAnswer, Stored
    <2>3. first.code = c /\ first.key = k /\ first.nth = 1
      OBVIOUS
    <2> HIDE DEF first
    <2> QED
      BY <1>1, <1>5, <1>7, <1>11, <2>1, <2>2, <2>3 DEF SameAnswer
  <1>13. ASSUME NEW e \in Code, row'[e].key # None
         PROVE  \/ row[e].key # None
                \/ \A d \in Code : d < e => d \in Created /\ d \notin LiveCodes'
    <2>1. CASE e # c
      BY <1>7, <1>13, <2>1
    <2>2. CASE e = c
      <3>1. \A d \in Code : d < c => d \in Created
        BY <1>1, <1>2 DEF InOrder
      <3>2. \A d \in LiveCodes : d < c => d \in held[p]
        BY <1>1 DEF Holds, c
      <3>3. LiveCodes' = LiveCodes \ held[p]
        BY <1>1, <1>9, SettledSets
      <3> QED
        BY <2>2, <3>1, <3>2, <3>3
    <2> QED
      BY <2>1, <2>2
  <1>14. \A d \in Code : row[d].status = "consumed" => row'[d].key = row[d].key
    BY <1>2, <1>7
  <1>15. Leave(p, "served") /\ replies' \subseteq Reply
    BY <1>1, <1>3, <1>11 DEF Serve, TypeOK
  <1> QED
    BY <1>1, <1>9, <1>10, <1>12, <1>13, <1>14, <1>15, SettleStep

(* Who stands in a cycle waits for someone and is waited for.               *)
LEMMA InCycle ==
    ASSUME NEW p, Deadlocked(p)
    PROVE  /\ BlockedBy(p) # {}
           /\ \E q \in Process : p \in BlockedBy(q)
  <1>0. PICK n \in 1..Cardinality(Process) : \E g \in [0..n -> Process] :
          /\ g[0] = p /\ g[n] = p
          /\ \A i \in 1..n : g[i] \in BlockedBy(g[i - 1])
    BY DEF Deadlocked
  <1>1. PICK f \in [0..n -> Process] :
          /\ f[0] = p /\ f[n] = p
          /\ \A i \in 1..n : f[i] \in BlockedBy(f[i - 1])
    BY <1>0
  <1>2. n \in Nat /\ 1 \in 1..n /\ n \in 1..n /\ n - 1 \in 0..n /\ 1 - 1 = 0
    OBVIOUS
  <1>3. f[1] \in BlockedBy(p)
    BY <1>1, <1>2
  <1>4. f[n - 1] \in Process /\ p \in BlockedBy(f[n - 1])
    BY <1>1, <1>2
  <1> QED
    BY <1>3, <1>4

-----------------------------------------------------------------------------
(* Every step keeps the invariant.                                          *)
LEMMA NextInvariant == IInv /\ [Next]_vars => IInv'
  <1> SUFFICES ASSUME IInv, [Next]_vars PROVE IInv'
    OBVIOUS
  <1>1. TypeOK /\ faults \in 0..MaxFaults
    BY DEF IInv, TypeOK
  <1>2. ASSUME NEW c \in Code, NewCode(c) \/ Expire(c) \/ WindowCloses(c) PROVE IInv'
    BY <1>2, NewCodeStep, ExpireStep, WindowStep
  <1>3. ASSUME NEW p \in Process, Lookup(p) PROVE IInv'
    <2>1. CASE FindNone(p)
      BY <2>1, ServeStoredStep DEF FindNone, Started
    <2> QED
      BY <1>3, <2>1, LimitsStep, FindStep, CompareStep DEF Lookup
  <1>4. ASSUME NEW p \in Process, Mint(p) PROVE IInv'
    <2>1. CASE ConsumeLost(p) \/ KeyTaken(p)
      BY <1>1, <2>1, RollbackStep DEF ConsumeLost, KeyTaken, Started
    <2>2. CASE Catch(p)
      BY <2>2, ServeStoredStep DEF Catch, Started
    <2> QED
      BY <1>4, <2>1, <2>2, ConsumeStep, CommitMintStep DEF Mint
  <1>5. ASSUME NEW p \in Process, BreakDeadlock(p) PROVE IInv'
    <2>1. Started(p)
      BY <1>5, InCycle DEF BreakDeadlock, BlockedBy, Started
    <2> QED
      BY <1>1, <1>5, <2>1, AbortStep DEF BreakDeadlock
  <1>6. ASSUME NEW p \in Process, Fail(p) \/ Crash(p) PROVE IInv'
    <2>1. faults' \in 0..MaxFaults
      BY <1>1, <1>6, VerifyAssumption DEF Fail, Crash
    <2> QED
      BY <1>6, <2>1, AbortStep, RefuseStep DEF Fail, Crash
  <1>7. CASE UNCHANGED vars
    <2>1. TypeOK' /\ RowsFit' /\ KeysUnique' /\ InOrder' /\ HeldByOne' /\ ClosedStaysConsumed'
          /\ SameAnswer'
      BY <1>7 DEF IInv, TypeOK, RowsFit, KeysUnique, InOrder, HeldByOne, ClosedStaysConsumed,
                  SameAnswer, vars, requestVars, Created, LiveCodes, Selectable
    <2>2. \A q \in Process : Same(q) /\ RowsAdvance(held[q])
      <3> TAKE q \in Process
      <3>1. held[q] \subseteq LiveCodes
        BY DEF IInv, Holds
      <3> QED
        BY <1>7, <3>1, RowsAlone DEF vars, requestVars, Same
    <2> QED
      BY <2>1, <2>2, CodesStep
  <1> QED
    BY <1>2, <1>3, <1>4, <1>5, <1>6, <1>7, BeginStep, WrongGuessStep, PickStep, RetireStep,
       CommitLockStep
    DEF Next, Advance

-----------------------------------------------------------------------------
(* Every state of the verification satisfies the inductive invariant.       *)
THEOREM Invariance == Spec => []IInv
  <1> QED
    BY InitInvariant, NextInvariant, PTL DEF Spec

(* However many requests hold a code, retry it or race a lockout, it mints  *)
(* at most one session, and a closed code stays consumed (the conditional   *)
(* consume of issueVerifiedSession, retireLiveOtpsForUser).                 *)
THEOREM CodesStaySound == Spec => []CodesSound
  <1>1. IInv => CodesSound
    <2> SUFFICES ASSUME IInv PROVE OneSessionPerCode
      BY DEF IInv, CodesSound
    <2>1. \A c \in Code : row[c].minted = 0 \/ row[c].minted = 1
      BY DEF IInv, RowsFit
    <2> QED
      BY <2>1 DEF OneSessionPerCode
  <1> QED
    BY <1>1, Invariance, PTL

(* All successful answers under one key are one committed session: the key  *)
(* is unique among the codes, and only a code with an answer has a key      *)
(* (issueVerifiedSession, replayOtpVerification).                           *)
THEOREM AnswersAgree == Spec => []SameAnswer
  <1>1. IInv => SameAnswer
    BY DEF IInv
  <1> QED
    BY <1>1, Invariance, PTL

-----------------------------------------------------------------------------
(* The steps of a verification.                                             *)

(* Only the commit of issueVerifiedSession mints, from the code its         *)
(* transaction holds; a closed code is consumed and in no transaction.      *)
LEMMA RetiredStep ==
    ASSUME IInv, [Next]_vars, NEW c \in closed
    PROVE  row'[c].minted = row[c].minted
  <1>1. /\ c \in Code /\ row \in [Code -> Row] /\ row[c] \in Row /\ row[c].status = "consumed"
        /\ \A p \in Process : Knows(p) /\ Holds(p) /\ c \notin held[p]
    BY DEF IInv, TypeOK, ClosedStaysConsumed, Holds, LiveCodes
  <1>2. ASSUME NEW d \in Code, NewCode(d) \/ Expire(d) \/ WindowCloses(d)
        PROVE  row'[c].minted = row[c].minted
    BY <1>1, <1>2 DEF NewCode, Expire, WindowCloses, Row
  <1>3. ASSUME NEW p \in Process, WrongGuess(p) PROVE row'[c].minted = row[c].minted
    BY <1>1, <1>3 DEF WrongGuess, Row
  <1>4. ASSUME NEW p \in Process, CommitLock(p) PROVE row'[c].minted = row[c].minted
    BY <1>1, <1>4 DEF CommitLock, Consumed
  <1>5. ASSUME NEW p \in Process, CommitMint(p) PROVE row'[c].minted = row[c].minted
    <2>1. rec[p].code # c
      BY <1>1, <1>5 DEF CommitMint, Holds
    <2>2. row'[c] = Consumed(p)[c]
      BY <1>1, <1>5, <2>1 DEF CommitMint, Consumed
    <2> QED
      BY <1>1, <2>2 DEF Consumed
  <1>6. CASE row' = row
    BY <1>6
  <1>7. ASSUME NEW p \in Process,
               \/ Begin(p) \/ Lookup(p) \/ Pick(p) \/ Retire(p) \/ BreakDeadlock(p)
               \/ Fail(p) \/ Crash(p)
        PROVE  row' = row
    BY <1>7 DEF Begin, Lookup, LimitReached, WithinLimits, Find, FindNone, Compare, Pick, Retire,
                BreakDeadlock, Fail, Crash
  <1>8. ASSUME NEW p \in Process, Consume(p) \/ ConsumeLost(p) \/ KeyTaken(p) \/ Catch(p)
        PROVE  row' = row
    BY <1>8 DEF Consume, ConsumeLost, KeyTaken, Catch
  <1> QED
    BY <1>2, <1>3, <1>4, <1>5, <1>6, <1>7, <1>8 DEF Next, Advance, Mint, vars

(* A code that answers a request under way is the one it guessed, and it    *)
(* has been consumed.                                                       *)
LEMMA AnsweredCode ==
    ASSUME IInv, NEW p \in Process, Started(p), NEW c \in Created, Answers(c, req[p])
    PROVE  /\ c \in Code /\ req[p].guess = c /\ row[c].key # None
           /\ row[c].status = "consumed" /\ Answer(req[p]) # {}
  <1>1. c \in Code /\ row[c] \in Row /\ req[p] \in Request /\ req[p].key # None
    BY VerifyAssumption DEF IInv, TypeOK, Created, Knows, Request
  <1>2. req[p].guess = c /\ row[c].key = req[p].key /\ row[c].key # None
    BY <1>1 DEF Answers
  <1>3. row[c].status = "consumed"
    BY <1>1, <1>2 DEF IInv, RowsFit
  <1>4. c \in {d \in Stored(req[p].key) : Answers(d, req[p])}
    BY <1>1, <1>2 DEF Stored
  <1> QED
    BY <1>1, <1>2, <1>3, <1>4 DEF Answer

(* If no newer code exists, such a request works on that code.              *)
LEMMA ReadsItsCode ==
    ASSUME IInv, NEW p \in Process, Started(p), Reading(p), NEW c \in Created,
           Answers(c, req[p]), Newest(c)
    PROVE  req[p].guess = rec[p].code
  <1>1. c \in Code /\ req[p].guess = c /\ row[c].key # None
    BY AnsweredCode
  <1>2. PICK d \in Created : d = rec[p].code
    BY DEF IInv, Knows
  <1>3. c \in Nat /\ d \in Nat /\ d <= c
    BY <1>1, CodesNumbered DEF Newest, Created
  <1>4. ~ (c > d)
    BY <1>1, <1>2 DEF IInv, Knows
  <1> QED
    BY <1>1, <1>2, <1>3, <1>4

(* A request that is past the limits and has its own answer stored is not   *)
(* turned away with an error: it is not about to count a wrong guess or to  *)
(* complete a lockout, every lookup serves the answer, and a failed         *)
(* transaction is caught and looked up once more.                           *)
LEMMA OwnResultStep ==
    ASSUME IInv, [Next]_vars, NEW p \in Process, NEW c \in Created,
           Answers(c, req[p]), Newest(c)
    PROVE  ~ Refused(p)
  <1> SUFFICES ASSUME Refused(p) PROVE FALSE
    OBVIOUS
  <1>1. /\ Started(p) /\ pc[p] # "limits" /\ pc'[p] = "idle" /\ faults' = faults
        /\ pc[p] \notin {"idle", "served"}
    BY DEF Refused, Started
  <1>2. /\ TypeOK /\ Knows(p) /\ Holds(p) /\ pc \in [Process -> {"idle", "served", "limits",
               "find", "compare", "wrong", "consume", "pick", "retire", "catch"}]
        /\ faults \in Int
    BY DEF IInv, TypeOK
  <1>3. /\ c \in Code /\ req[p].guess = c /\ row[c].key # None /\ row[c].status = "consumed"
        /\ Answer(req[p]) # {}
    BY <1>1, AnsweredCode
  <1>4. ASSUME Reading(p) PROVE pc[p] # "wrong" /\ goal[p] # "lock" /\ rec[p].code = c
    <2>1. req[p].guess = rec[p].code
      BY <1>1, <1>4, ReadsItsCode
    <2> QED
      BY <1>2, <1>3, <2>1 DEF Knows
  <1>5. ASSUME NEW q \in Process,
               NEW s \in {"served", "limits", "find", "compare", "wrong", "consume", "pick",
                          "retire", "catch"},
               pc' = [pc EXCEPT ![q] = s]
        PROVE  FALSE
    BY <1>1, <1>2, <1>5
  <1>6. ASSUME NEW q \in Process, Refuse(q) PROVE q = p
    BY <1>1, <1>2, <1>6 DEF Refuse, Leave
  <1>7. ASSUME NEW q \in Process, ServeStored(q) PROVE FALSE
    <2>1. CASE Answer(req[q]) = {}
      <3>1. q = p
        BY <1>6, <1>7, <2>1 DEF ServeStored
      <3> QED
        BY <1>3, <2>1, <3>1
    <2>2. CASE Answer(req[q]) # {}
      BY <1>5, <1>7, <2>2 DEF ServeStored, Serve, Leave
    <2> QED
      BY <2>1, <2>2
  <1>8. ASSUME NEW q \in Process, Begin(q) PROVE FALSE
    BY <1>5, <1>8 DEF Begin, Serve, Leave
  <1>9. ASSUME NEW q \in Process, Lookup(q) PROVE FALSE
    <2>1. CASE LimitReached(q)
      BY <1>1, <1>6, <2>1 DEF LimitReached
    <2>2. CASE WithinLimits(q) \/ Find(q)
      BY <1>5, <2>2 DEF WithinLimits, Goto, Find
    <2>3. CASE FindNone(q)
      BY <1>7, <2>3 DEF FindNone
    <2>4. CASE Compare(q)
      BY <1>5, <2>4 DEF Compare
    <2> QED
      BY <1>9, <2>1, <2>2, <2>3, <2>4 DEF Lookup
  <1>10. ASSUME NEW q \in Process, WrongGuess(q) PROVE FALSE
    <2>1. pc[q] = "wrong" /\ (pc' = [pc EXCEPT ![q] = "pick"] \/ Refuse(q))
      BY <1>10 DEF WrongGuess
    <2>2. q = p
      BY <1>5, <1>6, <2>1
    <2> QED
      BY <1>4, <2>1, <2>2 DEF Reading
  <1>11. ASSUME NEW q \in Process, CommitLock(q) PROVE FALSE
    <2>1. q = p /\ pc[q] = "retire" /\ goal[q] = "lock"
      BY <1>6, <1>11 DEF CommitLock
    <2> QED
      BY <1>4, <2>1 DEF Reading
  <1>12. ASSUME NEW q \in Process, Mint(q) PROVE FALSE
    <2>1. CASE Consume(q) \/ ConsumeLost(q) \/ KeyTaken(q)
      BY <1>5, <2>1 DEF Consume, ConsumeLost, KeyTaken, Rollback
    <2>2. CASE CommitMint(q)
      BY <1>5, <2>2 DEF CommitMint, Serve, Leave
    <2>3. CASE Catch(q)
      BY <1>7, <2>3 DEF Catch
    <2> QED
      BY <1>12, <2>1, <2>2, <2>3 DEF Mint
  <1>13. ASSUME NEW q \in Process, Pick(q) PROVE FALSE
    BY <1>5, <1>13 DEF Pick
  <1>14. ASSUME NEW q \in Process, BreakDeadlock(q) PROVE FALSE
    <2>1. q = p /\ goal[p] # "mint" /\ BlockedBy(p) # {}
      <3>1. goal[q] # "mint" /\ Refuse(q)
        BY <1>5, <1>14 DEF BreakDeadlock, Abort, Rollback
      <3>2. BlockedBy(q) # {}
        BY <1>14, InCycle DEF BreakDeadlock
      <3> QED
        BY <1>6, <3>1, <3>2
    <2>2. pc[p] \in {"wrong", "consume", "retire"}
      BY <1>2, <2>1 DEF BlockedBy
    <2>3. Reading(p)
      BY <2>2 DEF Reading
    <2>4. pc[p] = "consume"
      <3>1. pc[p] # "wrong" /\ goal[p] # "lock"
        BY <1>4, <2>3
      <3>2. pc[p] # "retire"
        BY <1>2, <2>1, <3>1 DEF Holds, TypeOK
      <3> QED
        BY <2>2, <3>1, <3>2
    <2>5. LockedBy(c) # {}
      BY <1>4, <2>1, <2>3, <2>4 DEF BlockedBy
    <2> QED
      BY <1>3, <2>5 DEF IInv, Holds, LockedBy, LiveCodes
  <1>15. ASSUME NEW q \in Process, Fail(q) \/ Crash(q) PROVE FALSE
    BY <1>1, <1>2, <1>15 DEF Fail, Crash
  <1>16. ASSUME pc' = pc PROVE FALSE
    BY <1>1, <1>16
  <1>17. ASSUME NEW d \in Code, NewCode(d) \/ Expire(d) \/ WindowCloses(d) PROVE FALSE
    BY <1>16, <1>17 DEF NewCode, Expire, WindowCloses, requestVars
  <1>18. ASSUME NEW q \in Process, Retire(q) PROVE FALSE
    BY <1>16, <1>18 DEF Retire
  <1>19. CASE UNCHANGED vars
    BY <1>16, <1>19 DEF vars, requestVars
  <1> QED
    BY <1>8, <1>9, <1>10, <1>11, <1>12, <1>13, <1>14, <1>15, <1>17, <1>18, <1>19
    DEF Next, Advance

(* Whatever happens between its lookups, a verification is not refused the  *)
(* result stored for exactly it, and a retired code mints no session        *)
(* (verifyOtp, issueVerifiedSession, replayOtpVerification).                *)
THEOREM VerificationsStepSoundly == Spec => VerificationSteps
  <1> DEFINE Found == \A p \in Process : \A c \in Created :
                         Answers(c, req[p]) /\ Newest(c) => ~Refused(p)
             Kept == \A c \in closed : row'[c].minted = row[c].minted
  <1>1. IInv /\ [Next]_vars => [Found]_vars
    BY OwnResultStep
  <1>2. IInv /\ [Next]_vars => [Kept]_vars
    BY RetiredStep
  <1>3. Spec => [][Found]_vars
    <2> HIDE DEF Found
    <2> QED
      BY <1>1, Invariance, PTL DEF Spec
  <1>4. Spec => [][Kept]_vars
    <2> HIDE DEF Kept
    <2> QED
      BY <1>2, Invariance, PTL DEF Spec
  <1> QED
    BY <1>3, <1>4, PTL DEF VerificationSteps, OwnResultFound, RetiredNeverMints

-----------------------------------------------------------------------------
(* Which verifications wait for each other.                                 *)

(* Every row that is held is held by a transaction that retires codes.      *)
LEMMA HoldersRetire ==
    ASSUME IInv, NEW c, NEW q \in LockedBy(c)
    PROVE  pc[q] \in {"pick", "retire"}
  <1>1. q \in Process /\ c \in held[q]
    BY DEF LockedBy
  <1>2. goal[q] # "none"
    BY <1>1 DEF IInv, Holds
  <1> QED
    BY <1>1, <1>2 DEF IInv, Holds

(* Whoever a request waits for holds a row.                                 *)
LEMMA BlockersHold ==
    ASSUME NEW p \in Process, NEW q \in BlockedBy(p)
    PROVE  \E c : q \in LockedBy(c)
  <1>1. CASE pc[p] \in {"wrong", "consume"}
    BY <1>1 DEF BlockedBy
  <1>2. CASE pc[p] = "retire" /\ \A c \in targets[p] : LockedBy(c) # {}
    <2>1. BlockedBy(p) = UNION {LockedBy(c) : c \in targets[p]}
      <3>1. pc[p] \notin {"wrong", "consume"}
        BY <1>2
      <3> QED
        BY <1>2, <3>1, Zenon DEF BlockedBy
    <2> QED
      BY <2>1
  <1>3. CASE ~ (\/ pc[p] \in {"wrong", "consume"}
                \/ pc[p] = "retire" /\ \A c \in targets[p] : LockedBy(c) # {})
    BY <1>3 DEF BlockedBy
  <1> QED
    BY <1>1, <1>2, <1>3

(* Wrong guesses and consumptions wait, but nobody waits for them: only     *)
(* transactions that retire codes hold rows, and only these can wait in a   *)
(* cycle for the database to break (issueVerifiedSession,                   *)
(* retireLiveOtpsForUser).                                                  *)
THEOREM OnlyRetirementsHold == Spec => []RetirementsHold
  <1>1. IInv => RetirementsHold
    <2> SUFFICES ASSUME IInv, NEW p \in Process
                 PROVE  /\ \A q \in BlockedBy(p) : pc[q] \in {"pick", "retire"}
                        /\ Deadlocked(p) => pc[p] = "retire"
      BY DEF RetirementsHold
    <2>1. ASSUME NEW r \in Process, NEW q \in BlockedBy(r) PROVE pc[q] \in {"pick", "retire"}
      BY <2>1, BlockersHold, HoldersRetire
    <2>2. ASSUME Deadlocked(p) PROVE pc[p] = "retire"
      <3>1. pc[p] \in {"pick", "retire"}
        BY <2>1, <2>2, InCycle
      <3>2. pc[p] # "pick"
        BY <2>2, InCycle DEF BlockedBy
      <3> QED
        BY <3>1, <3>2
    <2> QED
      BY <2>1, <2>2
  <1> QED
    BY <1>1, Invariance, PTL
=============================================================================
