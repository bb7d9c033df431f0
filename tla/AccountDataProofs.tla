--------------------------- MODULE AccountDataProofs ---------------------------
(***************************************************************************)
(* Proofs about module AccountData: the inductive invariant, that nothing  *)
(* of a deleted account is left, that a deletion which fails removes       *)
(* nothing, that a consent in force was given and that a block ends with   *)
(* its deletion, for any number of requests, API instances and inserts.    *)
(***************************************************************************)
EXTENDS AccountData, TLAPS

(* The rows of different tables are different.                              *)
LEMMA RowsApart ==
    /\ User \notin Jobs \cup Codes \cup Goals \cup Events \cup {Pref}
    /\ Pref \notin Jobs \cup Codes \cup Goals \cup Events
    /\ \A j \in Jobs : j \notin Codes \cup Goals \cup Events /\ Kind(j) \in {"job", "legacy"}
    /\ \A e \in Events : Kind(e) = "event"
    /\ Kind(User) # "legacy" /\ Kind(Pref) # "legacy"
    /\ \A r \in Codes \cup Goals : r \notin Events /\ Kind(r) # "legacy"
  BY DEF User, Pref, Jobs, Codes, Goals, Events, Kind

-----------------------------------------------------------------------------
(* What the invariant says of one request.                                  *)
Typed(q) ==
    /\ DOMAIN draft[q] \subseteq Row /\ shared[q] \subseteq {User}
    /\ req[q] \in Requests \cup {NoRequest}
    /\ pc[q] = "idle" <=> req[q] = NoRequest
    /\ late[q] \subseteq Events
Fits(q) == Typed(q) /\ Transaction(q) /\ Consenting(q)

RowsTyped == db[Pref] \in [Category -> BOOLEAN] \cup {Absent}
BlocksTyped ==
    /\ blocked \subseteq Instance /\ searching \subseteq Instance
    /\ \A i \in Instance : ownIds[i] \subseteq Jobs /\ blockedJobs[i] \subseteq Jobs

(* The invariant, taken apart by request and by instance.                   *)
LEMMA Parts ==
    IInv <=> /\ StateTyped /\ RowsTyped /\ BlocksTyped /\ GrantedOnRecord /\ ClosedWhole
             /\ \A q \in Process : Fits(q)
             /\ \A p, q \in Process : p # q => Locked(p, q)
             /\ \A i \in Instance : Blocks(i)
  <1>1. TypeOK <=> RowsTyped /\ BlocksTyped /\ \A q \in Process : Typed(q)
    BY DEF TypeOK, Typed, RowsTyped, BlocksTyped
  <1>2. (\A q \in Process : Fits(q)) <=>
           (\A q \in Process : Typed(q)) /\ \A q \in Process : Transaction(q) /\ Consenting(q)
    BY DEF Fits
  <1> QED
    BY <1>1, <1>2 DEF IInv, ConsentsSound

(* The same after a step: enough that every part holds again.               *)
LEMMA PartsKept ==
    ASSUME StateTyped', RowsTyped', BlocksTyped', GrantedOnRecord', ClosedWhole',
           \A q \in Process : Fits(q)',
           \A p, q \in Process : p # q => Locked(p, q)',
           \A i \in Instance : Blocks(i)'
    PROVE  IInv'
  <1>1. TypeOK'
    BY DEF TypeOK, Typed, Fits, RowsTyped, BlocksTyped
  <1>2. \A q \in Process : Transaction(q)' /\ Consenting(q)'
    BY DEF Fits
  <1> QED
    BY <1>1, <1>2 DEF IInv, ConsentsSound

(* An account without preferences and with nothing under way satisfies it.  *)
LEMMA InitInvariant == Init => IInv
  <1> SUFFICES ASSUME Init PROVE IInv
    OBVIOUS
  <1>1. DOMAIN <<>> = {} /\ <<>> \in Seq(BOOLEAN)
    OBVIOUS
  <1>2. User \in Row /\ Pref \in Row /\ Jobs \subseteq Row
    BY DEF Row
  <1>3. Present(User) /\ db[Pref] = Absent
    BY <1>2, RowsApart, AccountAssumption DEF Init, Present
  <1>4. StateTyped
    BY <1>1 DEF Init, StateTyped, NoDelivery
  <1>5. RowsTyped /\ BlocksTyped /\ GrantedOnRecord /\ ClosedWhole
    BY <1>3 DEF Init, RowsTyped, BlocksTyped, GrantedOnRecord, ClosedWhole
  <1>6. ASSUME NEW q \in Process PROVE Fits(q)
    <2>1. /\ pc[q] = "idle" /\ draft[q] = <<>> /\ shared[q] = {} /\ req[q] = NoRequest
          /\ late[q] = {}
      BY DEF Init
    <2> QED
      BY <1>1, <2>1 DEF Fits, Typed, Transaction, Consenting, Closing, Deleting, Swept
  <1>7. \A p, q \in Process : p # q => Locked(p, q)
    BY <1>1 DEF Init, Locked
  <1>8. \A i \in Instance : Blocks(i)
    BY DEF Init, Blocks
  <1> QED
    BY <1>4, <1>5, <1>6, <1>7, <1>8, Parts

-----------------------------------------------------------------------------
(* What a request relies on while others write rows.                        *)
Same(q) == /\ pc'[q] = pc[q] /\ req'[q] = req[q] /\ found'[q] = found[q]
           /\ draft'[q] = draft[q] /\ shared'[q] = shared[q]

LateKept(q) ==
    /\ late'[q] \subseteq Events
    /\ late[q] \subseteq late'[q]

RowsAdvance ==
    /\ Present(User)' =>
          /\ Present(User)
          /\ \A j \in Jobs : Present(j) => Present(j)'
          /\ \A c \in Category : Granted(c) => Granted(c)'
    /\ \A j \in Jobs : Kind(j) = "legacy" /\ Present(j)' => Present(j)
    /\ \A j \in Jobs : Unread(j) /\ Present(j)' => Unread(j)'

LeftAlone(q) ==
    /\ LateKept(q)
    /\ pc[q] = "append" => Present(User)'
    /\ pc[q] = "close" => \A r \in Row : Present(r)' => Present(r) \/ r \in late'[q]
    /\ Swept(q) => \A e \in Events : Present(e)' => Present(e) \/ e \in late'[q]

(* A request whose own state a step leaves alone, and none of whose locked  *)
(* rows it writes, still fits.                                              *)
LEMMA Unconcerned ==
    ASSUME NEW q \in Process, Fits(q), Same(q), RowsAdvance, LeftAlone(q)
    PROVE  Fits(q)'
  <1>1. Typed(q)'
    BY DEF Fits, Typed, Same, LeftAlone, LateKept
  <1>2. Transaction(q)'
    <2>1. ASSUME NEW j \in Jobs, Kind(j) = "legacy", Present(j)', ~ Unread(j)'
          PROVE  Present(j) /\ ~ Unread(j)
      BY <2>1 DEF RowsAdvance
    <2>2. ASSUME NEW r \in Row, Present(r)', Unread(r), ~ Unread(r)' PROVE FALSE
      BY <2>2, RowsApart DEF RowsAdvance, Row, Unread
    <2>3. ASSUME pc[q] = "close", NEW r \in Row, Present(r)'
          PROVE  r \in DOMAIN draft[q] \cup late'[q] \/ Unread(r)'
      <3>1. CASE Present(r)
        BY <2>2, <2>3, <3>1 DEF Fits, Transaction, LeftAlone, LateKept
      <3>2. CASE ~ Present(r)
        BY <2>3, <3>2 DEF LeftAlone
      <3> QED
        BY <3>1, <3>2
    <2>4. ASSUME Swept(q), NEW e \in Events, Present(e)'
          PROVE  e \in DOMAIN draft[q] \cup late'[q]
      BY <2>4 DEF Fits, Transaction, LeftAlone, LateKept
    <2> QED
      BY <2>1, <2>3, <2>4 DEF Fits, Same, LeftAlone, Transaction, Closing, Deleting, Swept
  <1>3. Consenting(q)'
    BY DEF Fits, Same, RowsAdvance, LeftAlone, Consenting, Changed
  <1> QED
    BY <1>1, <1>2, <1>3 DEF Fits

OthersSame(p) == \A q \in Process \ {p} : Same(q)

(* One request moves: the others keep their rows and their locks.           *)
LEMMA RequestStep ==
    ASSUME IInv, NEW p \in Process, OthersSame(p), Fits(p)', RowsAdvance,
           \A q \in Process \ {p} :
              /\ LeftAlone(q)
              /\ DOMAIN draft'[p] \cap DOMAIN draft[q] = {}
              /\ pc'[p] = "close" => pc[q] # "append"
              /\ pc'[p] = "append" => pc[q] # "close",
           StateTyped', RowsTyped', BlocksTyped', GrantedOnRecord', ClosedWhole',
           \A i \in Instance : Blocks(i)'
    PROVE  IInv'
  <1>1. /\ \A q \in Process : Fits(q)
        /\ \A q, r \in Process : q # r => Locked(q, r)
    BY Parts
  <1>2. \A q \in Process : Fits(q)'
    BY <1>1, Unconcerned DEF OthersSame
  <1>3. ASSUME NEW q \in Process, NEW r \in Process, q # r PROVE Locked(q, r)'
    <2>1. Locked(q, r) /\ Locked(r, q)
      BY <1>1, <1>3
    <2>2. CASE q # p /\ r # p
      BY <2>1, <2>2 DEF Locked, OthersSame, Same
    <2>3. CASE q = p
      BY <1>3, <2>3 DEF Locked, OthersSame, Same
    <2>4. CASE r = p
      <3>1. DOMAIN draft'[p] \cap DOMAIN draft[q] = {} /\ Same(q)
        BY <1>3, <2>4 DEF OthersSame
      <3>2. DOMAIN draft'[q] \cap DOMAIN draft'[r] = {}
        BY <2>4, <3>1 DEF Same
      <3> QED
        BY <1>3, <2>4, <3>1, <3>2 DEF Locked, Same
    <2> QED
      BY <2>2, <2>3, <2>4
  <1> QED
    BY <1>2, <1>3, PartsKept

(* No request moves.                                                        *)
LEMMA OutsideStep ==
    ASSUME IInv, UNCHANGED <<draft, shared, reqVars>>, RowsAdvance,
           \A q \in Process : LeftAlone(q),
           StateTyped', RowsTyped', BlocksTyped', GrantedOnRecord', ClosedWhole',
           \A i \in Instance : Blocks(i)'
    PROVE  IInv'
  <1>1. /\ \A q \in Process : Fits(q) /\ Same(q)
        /\ \A q, r \in Process : q # r => Locked(q, r)
    BY Parts DEF Same, reqVars
  <1>2. \A q \in Process : Fits(q)'
    BY <1>1, Unconcerned
  <1>3. \A q, r \in Process : q # r => Locked(q, r)'
    BY <1>1 DEF Locked, Same
  <1> QED
    BY <1>2, <1>3, PartsKept

(* The same rows are there, with the same choices, and the same history.    *)
RowsStay ==
    /\ DOMAIN db' = Row /\ db'[Pref] = db[Pref] /\ history' = history
    /\ \A r \in Row : Present(r)' <=> Present(r)
    /\ \A r \in Row : Unread(r) => Unread(r)'

(* A request that is not deleting does not begin to after the customer is   *)
(* gone, nor loses what came too late for its deletion.                     *)
StaysOut(q) ==
    pc[q] # "discover" /\ ~ Closing(q) =>
        /\ Present(User) \/ (pc'[q] # "discover" /\ ~ Closing(q)')
        /\ late'[q] = late[q]

(* If no row moves, what is said of rows and histories stays.               *)
LEMMA RowsStayed ==
    ASSUME IInv, RowsStay, \A q \in Process : StaysOut(q)
    PROVE  /\ RowsAdvance /\ RowsTyped' /\ GrantedOnRecord' /\ ClosedWhole'
           /\ \A q \in Process : late'[q] = late[q] => LeftAlone(q)
  <1>1. User \in Row /\ Jobs \subseteq Row /\ Events \subseteq Row
    BY DEF Row
  <1>2. /\ RowsTyped /\ GrantedOnRecord /\ ClosedWhole
        /\ \A q \in Process : late[q] \subseteq Events
        /\ \A q \in Process : pc[q] = "append" => Present(User)
    BY Parts DEF Fits, Typed, Transaction
  <1>3. \A c \in Category : Granted(c)' <=> Granted(c)
    BY DEF RowsStay, Granted
  <1>4. RowsAdvance
    BY <1>1, <1>3 DEF RowsStay, RowsAdvance
  <1>5. RowsTyped' /\ GrantedOnRecord'
    BY <1>2 DEF RowsStay, RowsTyped, GrantedOnRecord
  <1>6. ClosedWhole'
    <2> SUFFICES ASSUME ~ Present(User)' PROVE \E q \in Process : Closed(q)'
      BY DEF ClosedWhole
    <2>1. ~ Present(User)
      BY <1>1 DEF RowsStay
    <2>2. PICK q \in Process : Closed(q)
      BY <1>2, <2>1 DEF ClosedWhole
    <2>3. pc'[q] # "discover" /\ ~ Closing(q)' /\ late'[q] = late[q]
      BY <2>1, <2>2 DEF Closed, StaysOut
    <2>4. \A r \in Row : Present(r)' => Unread(r)' \/ r \in late'[q]
      BY <2>2, <2>3 DEF Closed, RowsStay
    <2> QED
      BY <2>3, <2>4 DEF Closed
  <1> QED
    BY <1>1, <1>2, <1>4, <1>5, <1>6 DEF RowsStay, LeftAlone, LateKept

(* A job whose payload cannot be read does not become readable.             *)
LEMMA UnreadStays ==
    ASSUME RowsAdvance, Present(User)', NEW j \in Jobs, Unread(j)
    PROVE  Unread(j)'
  <1>1. Present(j)
    BY AccountAssumption DEF Unread, Present, Redacted
  <1> QED
    BY <1>1 DEF RowsAdvance

(* An instance where nothing is blocked, released or forgotten by anyone    *)
(* who blocks.                                                              *)
LEMMA BlockKept ==
    ASSUME IInv, NEW i \in Instance, at' = at, RowsAdvance,
           i \in blocked' => i \in blocked, i \in searching' => i \in searching,
           ownIds'[i] = ownIds[i], blockedJobs'[i] = blockedJobs[i],
           timers[i] # 0 => timers'[i] # 0,
           \A q \in Process : \/ at[q] # i
                              \/ pc'[q] = pc[q]
                              \/ ~ Closing(q) /\ pc[q] # "discover"
                              \/ Closing(q) /\ Closing(q)'
    PROVE  Blocks(i)'
  <1>1. Blocks(i) /\ ownIds[i] \subseteq Jobs /\ blockedJobs[i] \subseteq Jobs
    BY Parts DEF BlocksTyped
  <1>2. \A q \in Process : at[q] = i =>
          /\ pc[q] = "discover" => pc'[q] = "discover"
          /\ Closing(q) => Closing(q)'
    BY DEF Closing, Deleting
  <1>3. i \in searching' => \E q \in Process : at'[q] = i /\ pc'[q] = "discover"
    BY <1>1, <1>2 DEF Blocks
  <1>4. i \in blocked' \/ ownIds'[i] # {} =>
          timers'[i] # 0 \/ \E q \in Process : at'[q] = i /\ (pc'[q] = "discover" \/ Closing(q)')
    BY <1>1, <1>2 DEF Blocks
  <1>5. ASSUME Present(User)'
        PROVE  /\ \A j \in blockedJobs'[i] : j \in ownIds'[i] \/ Unread(j)'
               /\ \A j \in ownIds'[i] : Present(j)'
    <2>1. Present(User)
      BY <1>5 DEF RowsAdvance
    <2>2. \A j \in blockedJobs[i] : Unread(j) => Unread(j)'
      BY <1>1, <1>5, UnreadStays
    <2> QED
      BY <1>1, <1>5, <2>1, <2>2 DEF Blocks, RowsAdvance
  <1> QED
    BY <1>3, <1>4, <1>5 DEF Blocks

(* A step that neither starts nor ends a deletion, nor stops a timer, keeps *)
(* what is blocked.                                                         *)
LEMMA BlocksKept ==
    ASSUME IInv, UNCHANGED <<blocked, blockedJobs, ownIds, at>>, RowsAdvance,
           searching' \subseteq searching,
           \A i \in Instance : timers[i] # 0 => timers'[i] # 0,
           \A q \in Process : \/ pc'[q] = pc[q]
                              \/ ~ Closing(q) /\ pc[q] # "discover"
                              \/ Closing(q) /\ Closing(q)'
    PROVE  BlocksTyped' /\ \A i \in Instance : Blocks(i)'
  <1>1. BlocksTyped'
    BY Parts DEF BlocksTyped
  <1>2. \A i \in Instance : Blocks(i)'
    BY BlockKept
  <1> QED
    BY <1>1, <1>2

-----------------------------------------------------------------------------
(* Requests that come, read and go.                                         *)
Steps == {"idle", "profile", "export", "history", "consents", "upsert", "append", "delete",
          "discover", "jobs", "events", "codes", "choices", "goals", "user", "close"}
RequestsTyped ==
    /\ DOMAIN draft = Process /\ DOMAIN shared = Process
    /\ DOMAIN req = Process /\ DOMAIN found = Process /\ pc \in [Process -> Steps]

(* A draft without rows has nothing to commit.                              *)
LEMMA EmptyDraft == DOMAIN <<>> = {}
  OBVIOUS

(* A request that is over has nothing and holds nothing.                    *)
LEMMA Forgetting ==
    ASSUME RequestsTyped, NEW p \in Process, Forget(p),
           \/ UNCHANGED <<draft, shared>> /\ DOMAIN draft[p] = {} /\ shared[p] = {}
           \/ Release(p),
           late'[p] \subseteq Events
    PROVE  /\ RequestsTyped' /\ OthersSame(p) /\ Fits(p)'
           /\ pc'[p] = "idle" /\ DOMAIN draft'[p] = {}
  <1>1. /\ DOMAIN draft' = Process /\ DOMAIN shared' = Process
        /\ DOMAIN draft'[p] = {} /\ shared'[p] = {}
        /\ \A q \in Process \ {p} : draft'[q] = draft[q] /\ shared'[q] = shared[q]
    <2>1. CASE UNCHANGED <<draft, shared>> /\ DOMAIN draft[p] = {} /\ shared[p] = {}
      BY <2>1 DEF RequestsTyped
    <2>2. CASE Release(p)
      BY <2>2, EmptyDraft DEF RequestsTyped, Release
    <2> QED
      BY <2>1, <2>2
  <1>2. /\ RequestsTyped' /\ pc'[p] = "idle" /\ req'[p] = NoRequest
        /\ \A q \in Process \ {p} : pc'[q] = pc[q] /\ req'[q] = req[q] /\ found'[q] = found[q]
    BY <1>1 DEF Forget, RequestsTyped, Steps
  <1>3. OthersSame(p)
    BY <1>1, <1>2 DEF OthersSame, Same
  <1>4. Fits(p)'
    BY <1>1, <1>2 DEF Fits, Typed, Transaction, Consenting, Closing, Deleting, Swept
  <1> QED
    BY <1>1, <1>2, <1>3, <1>4

(* The state apart from requests and rows.                                  *)
RestTyped ==
    /\ DOMAIN ownIds = Instance /\ DOMAIN blockedJobs = Instance /\ DOMAIN consumer = Instance
    /\ \A i \in Instance : consumer[i] \in {NoDelivery} \cup Delivery
    /\ at \in [Process -> Instance] /\ timers \in [Instance -> Nat] /\ adds \in Nat
    /\ history \in [Category -> Seq(BOOLEAN)] /\ DOMAIN late = Process

(* What the variables are, by requests and by the rest.                     *)
LEMMA StateParts == StateTyped <=> DOMAIN db = Row /\ RequestsTyped /\ RestTyped
  BY DEF StateTyped, RequestsTyped, RestTyped, Steps

(* The same, after a step.                                                  *)
LEMMA StatePartsKept ==
    ASSUME DOMAIN db' = Row, RequestsTyped', RestTyped'
    PROVE  StateTyped'
  BY DEF StateTyped, RequestsTyped, RestTyped, Steps

(* The block, the consumers and the history keep their type where a step    *)
(* leaves them.                                                             *)
LEMMA RestUntouched ==
    ASSUME RestTyped, UNCHANGED <<blockVars, sendVars, history, late, adds, at>>
    PROVE  RestTyped'
  BY DEF RestTyped, blockVars, sendVars

(* A request that is neither deleting nor about to write moves on, and the  *)
(* rows stay.                                                               *)
LEMMA QuietStep ==
    ASSUME IInv, NEW p \in Process, OthersSame(p), RowsStay, Fits(p)', RequestsTyped', RestTyped',
           ~ Closing(p), pc[p] # "discover", pc'[p] \notin {"append", "discover"}, ~ Closing(p)',
           DOMAIN draft'[p] \subseteq DOMAIN draft[p],
           UNCHANGED <<blocked, blockedJobs, ownIds, searching, timers, at, late>>
    PROVE  IInv'
  <1>1. /\ \A q, r \in Process : q # r => Locked(q, r)
    BY Parts
  <1>2. /\ RowsAdvance /\ RowsTyped' /\ GrantedOnRecord' /\ ClosedWhole'
        /\ \A q \in Process : LeftAlone(q)
    BY RowsStayed DEF OthersSame, Same, StaysOut, Closing, Deleting
  <1>3. StateTyped'
    BY StatePartsKept DEF RowsStay
  <1>4. \A q \in Process \ {p} : pc'[q] = pc[q]
    BY DEF OthersSame, Same
  <1>5. BlocksTyped' /\ \A i \in Instance : Blocks(i)'
    BY <1>2, <1>4, BlocksKept
  <1>6. \A q \in Process \ {p} : DOMAIN draft'[p] \cap DOMAIN draft[q] = {}
    BY <1>1 DEF Locked
  <1> QED
    BY <1>2, <1>3, <1>5, <1>6, RequestStep DEF Closing

(* A request that ends outside of a deletion, with rows as they were.       *)
LEMMA ForgetStep ==
    ASSUME IInv, NEW p \in Process, Forget(p), RowsStay,
           (UNCHANGED <<draft, shared>> /\ pc[p] # "append") \/ Release(p),
           ~ Closing(p), pc[p] # "discover",
           UNCHANGED <<blockVars, sendVars, late, adds>>
    PROVE  IInv'
  <1>1. RequestsTyped /\ RestTyped /\ Transaction(p) /\ late[p] \subseteq Events
    BY Parts, StateParts DEF Fits, Typed
  <1>2. UNCHANGED <<draft, shared>> /\ pc[p] # "append" => DOMAIN draft[p] = {} /\ shared[p] = {}
    BY <1>1 DEF Transaction
  <1>3. /\ RequestsTyped' /\ OthersSame(p) /\ Fits(p)' /\ pc'[p] = "idle" /\ DOMAIN draft'[p] = {}
    BY <1>1, <1>2, Forgetting
  <1>4. RestTyped'
    BY <1>1, RestUntouched DEF RowsStay, Forget
  <1> QED
    BY <1>3, <1>4, QuietStep DEF Forget, blockVars, Closing, Deleting

(* Unchanged tables and history mean that rows stay.                        *)
LEMMA RowsAsBefore ==
    ASSUME IInv, db' = db, history' = history
    PROVE  RowsStay
  BY Parts DEF RowsStay, StateTyped, Present, Unread

(* A request arrives at the account controller.                             *)
LEMMA ArriveStep ==
    ASSUME IInv, NEW p \in Process, Arrive(p)
    PROVE  IInv'
  <1>1. RequestsTyped /\ RestTyped /\ Typed(p) /\ Transaction(p)
    BY Parts, StateParts DEF Fits
  <1>2. PICK r \in Requests : /\ pc[p] = "idle" /\ pc' = [pc EXCEPT ![p] = r.op]
                              /\ req' = [req EXCEPT ![p] = r]
    BY DEF Arrive, Step
  <1>3. /\ UNCHANGED <<db, draft, shared, at, found, blocked, blockedJobs, ownIds, searching, timers,
                       history, late, adds>>
        /\ UNCHANGED <<blockVars, sendVars>>
    BY DEF Arrive, txVars, blockVars
  <1>4. r.op \in {"consents", "profile", "export", "delete"} /\ r # NoRequest
    BY DEF Requests, NoRequest
  <1>5. /\ RequestsTyped' /\ pc'[p] = r.op /\ req'[p] = r /\ OthersSame(p)
    BY <1>1, <1>2, <1>3, <1>4 DEF RequestsTyped, Steps, OthersSame, Same
  <1>6. DOMAIN draft[p] = {} /\ shared[p] = {}
    BY <1>1, <1>2 DEF Transaction, Closing, Deleting, Swept
  <1>7. Fits(p)'
    BY <1>1, <1>3, <1>4, <1>5, <1>6 DEF Fits, Typed, Transaction, Consenting, Closing, Deleting, Swept
  <1>8. RowsStay /\ RestTyped'
    BY <1>1, <1>3, RowsAsBefore, RestUntouched
  <1> QED
    BY <1>2, <1>3, <1>4, <1>5, <1>7, <1>8, QuietStep DEF Closing, Deleting

(* updateProfile writes the user's row, if it is there.                     *)
LEMMA ProfileStep ==
    ASSUME IInv, NEW p \in Process, Profile(p)
    PROVE  IInv'
  <1>1. /\ pc[p] = "profile" /\ Forget(p) /\ UNCHANGED <<draft, shared, history, late, adds>>
        /\ UNCHANGED <<blockVars, sendVars>>
        /\ db' = Over(IF Present(User) THEN Only(User, [name |-> "new"]) ELSE <<>>, db)
    BY DEF Profile, Write
  <1>2. DOMAIN db = Row /\ User \in Row /\ Pref \in Row /\ User # Pref
        /\ [name |-> "new"] # Absent
    BY Parts, RowsApart, AccountAssumption DEF StateTyped, Row
  <1>3. RowsStay
    <2>1. CASE Present(User)
      <3>1. /\ DOMAIN db' = Row /\ db'[User] = [name |-> "new"]
            /\ \A r \in Row \ {User} : db'[r] = db[r]
        BY <1>1, <1>2, <2>1 DEF Only, Over
      <3> QED
        BY <1>1, <1>2, <2>1, <3>1, RowsApart DEF RowsStay, Present, Unread
    <2>2. CASE ~ Present(User)
      <3>1. DOMAIN db' = Row /\ \A r \in Row : db'[r] = db[r]
        BY <1>1, <1>2, <2>2, EmptyDraft DEF Over
      <3> QED
        BY <1>1, <1>2, <3>1 DEF RowsStay, Present, Unread
    <2> QED
      BY <2>1, <2>2
  <1> QED
    BY <1>1, <1>3, ForgetStep DEF Closing, Deleting

(* exportData reads in two statements and writes nothing.                   *)
LEMMA ExportStep ==
    ASSUME IInv, NEW p \in Process, Export(p) \/ ExportHistory(p)
    PROVE  IInv'
  <1>1. RequestsTyped /\ RestTyped /\ Typed(p) /\ Transaction(p)
    BY Parts, StateParts DEF Fits
  <1>2. CASE Export(p)
    <2>1. /\ pc[p] = "export" /\ pc' = [pc EXCEPT ![p] = "history"] /\ DOMAIN found' = Process
          /\ \A q \in Process \ {p} : found'[q] = found[q]
          /\ UNCHANGED <<db, draft, shared, at, req, blocked, blockedJobs, ownIds, searching, timers,
                         history, late, adds>>
          /\ UNCHANGED <<blockVars, sendVars>>
      BY <1>1, <1>2 DEF Export, Step, RequestsTyped, txVars, blockVars
    <2>2. RequestsTyped' /\ pc'[p] = "history" /\ OthersSame(p)
      BY <1>1, <2>1 DEF RequestsTyped, Steps, OthersSame, Same
    <2>3. Fits(p)'
      BY <1>1, <2>1, <2>2 DEF Fits, Typed, Transaction, Consenting, Closing, Deleting, Swept
    <2>4. RowsStay /\ RestTyped'
      BY <1>1, <2>1, RowsAsBefore, RestUntouched
    <2> QED
      BY <2>1, <2>2, <2>3, <2>4, QuietStep DEF Closing, Deleting
  <1>3. CASE ExportHistory(p)
    BY <1>3, RowsAsBefore, ForgetStep DEF ExportHistory, txVars, Closing, Deleting
  <1> QED
    BY <1>2, <1>3

(* The stored choices, as a request outside a transaction reads them.       *)
LEMMA ReadRows ==
    ASSUME NEW p, DOMAIN draft[p] = {}, NEW r \in DOMAIN db
    PROVE  Seen(p)[r] = db[r]
  BY DEF Seen, Over

(* updateConsents reads the preferences and notes which categories change.  *)
LEMMA ReadConsentsStep ==
    ASSUME IInv, NEW p \in Process, ReadConsents(p)
    PROVE  IInv'
  <1>1. RequestsTyped /\ RestTyped /\ Typed(p) /\ Transaction(p) /\ Consenting(p)
        /\ GrantedOnRecord /\ RowsTyped /\ DOMAIN db = Row
    BY Parts, StateParts DEF Fits
  <1>2. /\ pc[p] = "consents" /\ UNCHANGED <<db, draft, shared, history, late, adds>>
        /\ UNCHANGED <<blockVars, sendVars>>
    BY DEF ReadConsents, Step, txVars
  <1>3. RowsStay
    BY <1>2, RowsAsBefore
  <1>4. CASE Forget(p)
    BY <1>2, <1>3, <1>4, ForgetStep DEF Closing, Deleting
  <1>5. CASE ~ Forget(p)
    <2>1. PICK current \in [Category -> BOOLEAN] :
             /\ pc' = [pc EXCEPT ![p] = "upsert"] /\ found' = [found EXCEPT ![p] = current]
             /\ UNCHANGED <<req, at>>
             /\ current = IF db[Pref] = Absent THEN Unset ELSE db[Pref]
      <3>1. DOMAIN draft[p] = {} /\ Pref \in Row
        BY <1>1, <1>2 DEF Transaction, Closing, Deleting, Swept, Row
      <3>2. Seen(p)[Pref] = db[Pref]
        BY <1>1, <3>1, ReadRows
      <3>3. (IF db[Pref] = Absent THEN Unset ELSE db[Pref]) \in [Category -> BOOLEAN]
        BY <1>1 DEF RowsTyped, Unset
      <3> QED
        BY <1>5, <3>2, <3>3 DEF ReadConsents, Step
    <2>2. RequestsTyped' /\ pc'[p] = "upsert" /\ found'[p] = current /\ OthersSame(p)
      BY <1>1, <1>2, <2>1 DEF RequestsTyped, Steps, OthersSame, Same
    <2>3. \A c \in Category : current[c] => Granted(c)'
      BY <1>1, <1>2, <2>1 DEF GrantedOnRecord, Granted, Unset
    <2>4. Fits(p)'
      BY <1>1, <1>2, <2>1, <2>2, <2>3
      DEF Fits, Typed, Transaction, Consenting, Closing, Deleting, Swept
    <2>5. RestTyped'
      BY <1>1, <1>2, <2>1, RestUntouched
    <2> QED
      BY <1>2, <1>3, <2>1, <2>2, <2>4, <2>5, QuietStep DEF Closing, Deleting, blockVars
  <1> QED
    BY <1>4, <1>5

(* What an upsert writes: each category as it was asked for, or as it is.   *)
LEMMA UpsertedChoices ==
    ASSUME IInv, NEW p \in Process, pc[p] = "upsert", Present(User)
    PROVE  /\ Upserted(p) \in [Category -> BOOLEAN]
           /\ req[p].input \in Choices
           /\ \A c \in Category : Upserted(p)[c] =>
                Granted(c) \/ (c \in Changed(p) /\ req[p].input[c])
  <1>1. Typed(p) /\ Transaction(p) /\ Consenting(p) /\ GrantedOnRecord /\ RowsTyped
        /\ DOMAIN db = Row
    BY Parts DEF Fits, StateTyped
  <1>2. DOMAIN draft[p] = {} /\ Pref \in Row
    BY <1>1 DEF Transaction, Closing, Deleting, Swept, Row
  <1>3. Seen(p)[Pref] = db[Pref]
    BY <1>1, <1>2, ReadRows
  <1>4. req[p].input \in Choices
    BY <1>1 DEF Typed, Consenting, Requests, NoRequest
  <1>5. PICK C \in SUBSET Category : req[p].input \in [C -> BOOLEAN]
    BY <1>4 DEF Choices
  <1>6. found[p] \in [Category -> BOOLEAN] /\ \A c \in Category : found[p][c] => Granted(c)
    BY <1>1 DEF Consenting
  <1>7. PICK rest \in [Category -> BOOLEAN] :
           /\ rest = IF db[Pref] = Absent THEN found[p] ELSE db[Pref]
           /\ \A c \in Category : rest[c] => Granted(c)
    <2>1. CASE db[Pref] = Absent
      BY <1>6, <2>1
    <2>2. CASE db[Pref] # Absent
      BY <1>1, <2>2 DEF RowsTyped, GrantedOnRecord, Granted
    <2> QED
      BY <2>1, <2>2
  <1>8. Upserted(p) = Over(req[p].input, rest)
    BY <1>3, <1>7 DEF Upserted
  <1>9. Upserted(p) \in [Category -> BOOLEAN]
    BY <1>5, <1>8 DEF Over
  <1>10. ASSUME NEW c \in Category, Upserted(p)[c]
         PROVE  Granted(c) \/ (c \in Changed(p) /\ req[p].input[c])
    <2>1. CASE c \in C
      <3>1. req[p].input[c] /\ c \in DOMAIN req[p].input
        BY <1>5, <1>8, <1>10, <2>1 DEF Over
      <3>2. CASE found[p][c]
        BY <1>6, <3>2
      <3>3. CASE ~ found[p][c]
        BY <3>1, <3>3 DEF Changed
      <3> QED
        BY <3>2, <3>3
    <2>2. CASE c \notin C
      BY <1>5, <1>7, <1>8, <1>10, <2>2 DEF Over
    <2> QED
      BY <2>1, <2>2
  <1> QED
    BY <1>4, <1>9, <1>10

(* The upsert of the preferences locks them and refers to the user.         *)
LEMMA UpsertStep ==
    ASSUME IInv, NEW p \in Process, Upsert(p)
    PROVE  IInv'
  <1>1. RequestsTyped /\ RestTyped /\ Typed(p) /\ Transaction(p) /\ Consenting(p)
        /\ \A q \in Process : Transaction(q)
    BY Parts, StateParts DEF Fits
  <1>2. /\ pc[p] = "upsert" /\ UNCHANGED <<db, history, late, adds>> /\ UNCHANGED <<blockVars, sendVars>>
        /\ Writers(p, {Pref}) = {} /\ Removers(p, {User}) = {}
    BY DEF Upsert, Rollback
  <1>3. RowsStay
    BY <1>2, RowsAsBefore
  <1>4. CASE ~ Present(User)
    BY <1>2, <1>3, <1>4, ForgetStep DEF Upsert, Rollback, Closing, Deleting
  <1>5. CASE Present(User)
    <2>1. /\ pc' = [pc EXCEPT ![p] = "append"]
          /\ draft' = [draft EXCEPT ![p] = Over(Only(Pref, Upserted(p)), draft[p])]
          /\ shared' = [shared EXCEPT ![p] = shared[p] \cup {User}]
          /\ UNCHANGED <<req, at, found>>
      BY <1>5 DEF Upsert, Step, Stage, Refer
    <2>2. DOMAIN draft[p] = {} /\ shared[p] = {}
      BY <1>1, <1>2 DEF Transaction, Closing, Deleting, Swept
    <2>3. /\ DOMAIN draft'[p] = {Pref} /\ draft'[p][Pref] = Upserted(p) /\ shared'[p] = {User}
      BY <1>1, <2>1, <2>2 DEF RequestsTyped, Only, Over
    <2>4. RequestsTyped' /\ pc'[p] = "append" /\ OthersSame(p)
      BY <1>1, <1>2, <2>1 DEF RequestsTyped, Steps, OthersSame, Same
    <2>5. /\ Upserted(p) \in [Category -> BOOLEAN]
          /\ \A c \in Category : Upserted(p)[c] =>
                Granted(c) \/ (c \in Changed(p) /\ req[p].input[c])
      BY <1>2, <1>5, UpsertedChoices
    <2>6. Typed(p)'
      BY <1>1, <1>2, <2>1, <2>3, <2>4 DEF Typed, Row
    <2>7. Transaction(p)'
      BY <1>2, <1>5, <2>3, <2>4, <2>5 DEF Transaction, Closing, Deleting, Swept, Present
    <2>8. Consenting(p)'
      <3>1. \A c \in Category : Granted(c)' <=> Granted(c)
        BY <1>2 DEF Granted
      <3>2. Changed(p)' = Changed(p)
        BY <2>1 DEF Changed
      <3> QED
        BY <1>1, <1>2, <2>1, <2>3, <2>4, <2>5, <3>1, <3>2 DEF Consenting
    <2>9. /\ RowsAdvance /\ RowsTyped' /\ GrantedOnRecord' /\ ClosedWhole'
          /\ \A q \in Process : LeftAlone(q)
      BY <1>2, <1>3, <2>4, RowsStayed DEF OthersSame, Same, StaysOut, Closing, Deleting
    <2>10. StateTyped'
      BY <1>1, <1>2, <1>3, <2>1, <2>4, RestUntouched, StatePartsKept DEF RowsStay
    <2>11. BlocksTyped' /\ \A i \in Instance : Blocks(i)'
      BY <1>2, <2>1, <2>4, <2>9, BlocksKept DEF blockVars, OthersSame, Same, Closing, Deleting
    <2>12. ASSUME NEW q \in Process \ {p}
           PROVE  DOMAIN draft'[p] \cap DOMAIN draft[q] = {} /\ pc[q] # "close"
      <3>1. Pref \notin DOMAIN draft[q]
        BY <1>2 DEF Writers
      <3>2. ~ (User \in DOMAIN draft[q] /\ draft[q][User] = Absent)
        BY <1>2 DEF Removers
      <3>3. pc[q] # "close"
        BY <1>1, <3>2 DEF Transaction, Closing
      <3> QED
        BY <2>3, <3>1, <3>3
    <2> QED
      BY <2>4, <2>6, <2>7, <2>8, <2>9, <2>10, <2>11, <2>12, RequestStep DEF Fits
  <1> QED
    BY <1>4, <1>5

(* What is appended to the history does not take a grant away.              *)
LEMMA HistoryGrows ==
    ASSUME NEW s \in Seq(BOOLEAN), NEW b \in BOOLEAN
    PROVE  /\ Append(s, b) \in Seq(BOOLEAN)
           /\ (\E n \in 1..Len(s) : s[n]) => \E n \in 1..Len(Append(s, b)) : Append(s, b)[n]
           /\ b => \E n \in 1..Len(Append(s, b)) : Append(s, b)[n]
  <1>1. /\ Append(s, b) \in Seq(BOOLEAN) /\ Len(s) \in Nat /\ Len(Append(s, b)) = Len(s) + 1
        /\ Append(s, b)[Len(s) + 1] = b
        /\ \A n \in 1..Len(s) : Append(s, b)[n] = s[n]
    OBVIOUS
  <1>2. 1..Len(s) \subseteq 1..Len(Append(s, b)) /\ Len(s) + 1 \in 1..Len(Append(s, b))
    BY <1>1
  <1>3. ASSUME NEW n \in 1..Len(s), s[n] PROVE Append(s, b)[n]
    BY <1>1, <1>3
  <1>4. ASSUME b PROVE Append(s, b)[Len(s) + 1]
    BY <1>1, <1>4
  <1> QED
    BY <1>2, <1>3, <1>4

(* The history is appended and committed with the preferences.              *)
LEMMA AppendRecordsStep ==
    ASSUME IInv, NEW p \in Process, AppendRecords(p)
    PROVE  IInv'
  <1>1. RequestsTyped /\ RestTyped /\ Typed(p) /\ Transaction(p) /\ Consenting(p)
        /\ GrantedOnRecord /\ DOMAIN db = Row /\ User \in Row /\ Pref \in Row
        /\ \A q \in Process \ {p} : Locked(q, p)
    BY Parts, StateParts DEF Fits, Row
  <1>2. /\ pc[p] = "append" /\ db' = Seen(p) /\ Release(p) /\ Forget(p)
        /\ UNCHANGED <<blockVars, sendVars, late, adds>>
        /\ history' = [c \in Category |-> IF c \in Changed(p) THEN Append(history[c], req[p].input[c])
                                                              ELSE history[c]]
    BY DEF AppendRecords, Commit
  <1>3. Present(User) /\ DOMAIN draft[p] = {Pref} /\ draft[p][Pref] \in [Category -> BOOLEAN]
    BY <1>1, <1>2 DEF Transaction
  <1>4. DOMAIN db' = Row /\ db'[Pref] = draft[p][Pref] /\ \A r \in Row \ {Pref} : db'[r] = db[r]
    BY <1>1, <1>2, <1>3 DEF Seen, Over
  <1>5. Present(User)' /\ db'[Pref] \in [Category -> BOOLEAN]
    BY <1>1, <1>3, <1>4, RowsApart DEF Present
  <1>6. /\ \A r \in Jobs : (Present(r)' <=> Present(r)) /\ (Unread(r)' <=> Unread(r))
        /\ \A r \in Events : Present(r)' <=> Present(r)
    BY <1>4, RowsApart DEF Present, Unread, Row
  <1>7. PICK C \in SUBSET Category : req[p].input \in [C -> BOOLEAN]
    BY <1>1, <1>2 DEF Typed, Consenting, Requests, NoRequest, Choices
  <1>8. ASSUME NEW c \in Category
        PROVE  /\ history'[c] \in Seq(BOOLEAN)
               /\ Granted(c) => Granted(c)'
               /\ c \in Changed(p) /\ req[p].input[c] => Granted(c)'
    <2>1. history[c] \in Seq(BOOLEAN)
      BY <1>1 DEF RestTyped
    <2>2. CASE c \in Changed(p)
      <3>1. c \in C /\ req[p].input[c] \in BOOLEAN
        BY <1>7, <2>2 DEF Changed
      <3>2. history'[c] = Append(history[c], req[p].input[c])
        BY <1>2, <2>2
      <3> QED
        BY <2>1, <3>1, <3>2, HistoryGrows DEF Granted
    <2>3. CASE c \notin Changed(p)
      <3>1. history'[c] = history[c]
        BY <1>2, <2>3
      <3> QED
        BY <2>1, <2>3, <3>1 DEF Granted
    <2> QED
      BY <2>2, <2>3
  <1>9. RowsAdvance
    BY <1>3, <1>6, <1>8 DEF RowsAdvance
  <1>10. GrantedOnRecord'
    <2>1. \A c \in Category : draft[p][Pref][c] => Granted(c)'
      BY <1>1, <1>2, <1>8 DEF Consenting
    <2> QED
      BY <1>4, <2>1 DEF GrantedOnRecord, Granted
  <1>11. RequestsTyped' /\ OthersSame(p) /\ Fits(p)' /\ pc'[p] = "idle" /\ DOMAIN draft'[p] = {}
    BY <1>1, <1>2, Forgetting DEF Typed
  <1>12. RestTyped'
    <2>1. history' \in [Category -> Seq(BOOLEAN)]
      BY <1>2, <1>8
    <2> QED
      BY <1>1, <1>2, <2>1 DEF RestTyped, Forget, blockVars, sendVars
  <1>13. BlocksTyped' /\ \A i \in Instance : Blocks(i)'
    BY <1>2, <1>9, <1>11, BlocksKept DEF blockVars, Forget, OthersSame, Same, Closing, Deleting
  <1>14. \A q \in Process \ {p} : LeftAlone(q)
    <2>1. \A q \in Process : late[q] \subseteq Events
      BY Parts DEF Fits, Typed
    <2> QED
      BY <1>1, <1>2, <1>5, <1>6, <2>1 DEF LeftAlone, LateKept, Locked
  <1> QED
    BY <1>4, <1>5, <1>9, <1>10, <1>11, <1>12, <1>13, <1>14, StatePartsKept, RequestStep
    DEF RowsTyped, ClosedWhole

-----------------------------------------------------------------------------
(* Deletions.                                                               *)

(* Until its first table, a deletion has written nothing.                   *)
LEMMA NothingStaged ==
    ASSUME IInv, NEW p \in Process, pc[p] \in {"delete", "discover"}
    PROVE  /\ DOMAIN draft[p] = {} /\ shared[p] = {}
           /\ ~ Closing(p) /\ req[p] # NoRequest /\ req[p] \in Requests
  <1>1. Typed(p) /\ Transaction(p)
    BY Parts DEF Fits
  <1> QED
    BY <1>1 DEF Typed, Transaction, Closing, Deleting

(* deleteAccount blocks the user's deliveries before anything else.         *)
LEMMA BeginDeletionStep ==
    ASSUME IInv, NEW p \in Process, BeginDeletion(p)
    PROVE  IInv'
  <1>1. RequestsTyped /\ RestTyped /\ Typed(p) /\ Transaction(p) /\ BlocksTyped
        /\ \A q \in Process \ {p} : Locked(q, p)
    BY Parts, StateParts DEF Fits
  <1>2. /\ pc[p] = "delete" /\ UNCHANGED <<db, draft, shared, history, late, adds>>
        /\ UNCHANGED <<blockedJobs, ownIds, timers, consumer, tries>>
    BY DEF BeginDeletion, Step, txVars, sendVars
  <1>3. RowsStay
    BY <1>2, RowsAsBefore
  <1>4. CASE Forget(p) /\ UNCHANGED <<blocked, searching>>
    BY <1>2, <1>3, <1>4, ForgetStep DEF Closing, Deleting, blockVars, sendVars
  <1>5. CASE ~ (Forget(p) /\ UNCHANGED <<blocked, searching>>)
    <2>1. /\ pc' = [pc EXCEPT ![p] = "discover"] /\ UNCHANGED <<req, at, found>>
          /\ Present(User)
          /\ blocked' = blocked \cup {at[p]} /\ searching' = searching \cup {at[p]}
      BY <1>5 DEF BeginDeletion, Step, Blocking
    <2>2. RequestsTyped' /\ pc'[p] = "discover" /\ OthersSame(p)
      BY <1>1, <1>2, <2>1 DEF RequestsTyped, Steps, OthersSame, Same
    <2>3. Fits(p)'
      BY <1>1, <1>2, <2>1, <2>2, NothingStaged
      DEF Fits, Typed, Transaction, Consenting, Closing, Deleting, Swept
    <2>4. /\ RowsAdvance /\ RowsTyped' /\ GrantedOnRecord' /\ ClosedWhole'
          /\ \A q \in Process : LeftAlone(q)
      BY <1>2, <1>3, <2>1, <2>2, RowsStayed DEF OthersSame, Same, StaysOut, Closing, Deleting
    <2>5. RestTyped' /\ BlocksTyped' /\ at[p] \in Instance
      BY <1>1, <1>2, <2>1 DEF RestTyped, BlocksTyped
    <2>6. \A q \in Process \ {p} : pc'[q] = pc[q]
      BY <2>2 DEF OthersSame, Same
    <2>7. ASSUME NEW i \in Instance PROVE Blocks(i)'
      <3>1. CASE i = at[p]
        <4>1. /\ Blocks(i) /\ ownIds[i] \subseteq Jobs /\ blockedJobs[i] \subseteq Jobs
              /\ Present(User)' => \A j \in Jobs : Unread(j) => Unread(j)'
          BY <1>1, <2>4, Parts, UnreadStays DEF BlocksTyped
        <4> QED
          BY <1>2, <2>1, <2>2, <2>4, <3>1, <4>1 DEF Blocks, RowsAdvance
      <3>2. CASE i # at[p]
        BY <1>2, <2>1, <2>4, <2>6, <3>2, BlockKept
      <3> QED
        BY <3>1, <3>2
    <2>8. \A q \in Process \ {p} : DOMAIN draft'[p] \cap DOMAIN draft[q] = {}
      BY <1>2, NothingStaged
    <2> QED
      BY <1>3, <2>2, <2>3, <2>4, <2>5, <2>7, <2>8, StatePartsKept, RequestStep DEF RowsStay
  <1> QED
    BY <1>4, <1>5

(* The block is closed over the ids of the jobs found.                      *)
LEMMA DiscoverStep ==
    ASSUME IInv, NEW p \in Process, Discover(p)
    PROVE  IInv'
  <1>1. RequestsTyped /\ RestTyped /\ Typed(p) /\ Transaction(p) /\ BlocksTyped
    BY Parts, StateParts DEF Fits
  <1>2. PICK ids \in SUBSET Jobs :
           /\ ids = {j \in Jobs : Present(j) /\ ~ Unread(j)}
           /\ found' = [found EXCEPT ![p] = ids]
           /\ ownIds' = [ownIds EXCEPT ![at[p]] = ids]
           /\ blockedJobs' = [blockedJobs EXCEPT ![at[p]] = blockedJobs[at[p]] \cup ids]
    BY DEF Discover
  <1>3. /\ pc[p] = "discover" /\ pc' = [pc EXCEPT ![p] = "jobs"] /\ searching' = searching \ {at[p]}
        /\ UNCHANGED <<db, draft, shared, history, late, adds>>
        /\ UNCHANGED <<req, at, blocked, timers, consumer, tries>>
    BY DEF Discover, Step, txVars, sendVars
  <1>4. RowsStay
    BY <1>3, RowsAsBefore
  <1>5. RequestsTyped' /\ pc'[p] = "jobs" /\ found'[p] = ids /\ OthersSame(p)
    BY <1>1, <1>2, <1>3 DEF RequestsTyped, Steps, OthersSame, Same
  <1>6. DOMAIN draft[p] = {} /\ shared[p] = {}
    BY <1>3, NothingStaged
  <1>7. Fits(p)'
    <2>1. Typed(p)'
      BY <1>1, <1>3, <1>5 DEF Typed
    <2>2. Transaction(p)'
      BY <1>2, <1>3, <1>5, <1>6 DEF Transaction, Closing, Deleting, Swept, Present, Unread
    <2>3. Consenting(p)'
      BY <1>5 DEF Consenting
    <2> QED
      BY <2>1, <2>2, <2>3 DEF Fits
  <1>8. /\ RowsAdvance /\ RowsTyped' /\ GrantedOnRecord' /\ ClosedWhole'
        /\ \A q \in Process : LeftAlone(q)
    BY <1>3, <1>4, <1>5, RowsStayed DEF OthersSame, Same, StaysOut, Closing, Deleting
  <1>9. RestTyped' /\ at[p] \in Instance
    BY <1>1, <1>2, <1>3 DEF RestTyped
  <1>10. /\ ownIds'[at[p]] = ids /\ blockedJobs'[at[p]] = blockedJobs[at[p]] \cup ids
         /\ \A i \in Instance \ {at[p]} : ownIds'[i] = ownIds[i] /\ blockedJobs'[i] = blockedJobs[i]
    BY <1>1, <1>2, <1>9 DEF RestTyped
  <1>11. BlocksTyped'
    BY <1>1, <1>3, <1>9, <1>10 DEF BlocksTyped
  <1>12. ASSUME NEW i \in Instance PROVE Blocks(i)'
    <2>1. CASE i = at[p]
      <3>1. Blocks(i) /\ blockedJobs[i] \subseteq Jobs
        BY <1>1, Parts DEF BlocksTyped
      <3>2. i \notin searching'
        BY <1>3, <2>1
      <3>3. at'[p] = i /\ Closing(p)'
        BY <1>3, <1>5, <2>1 DEF Closing, Deleting
      <3>4. Present(User)' => /\ \A j \in blockedJobs'[i] : j \in ownIds'[i] \/ Unread(j)'
                              /\ \A j \in ownIds'[i] : Present(j)'
        BY <1>2, <1>3, <1>10, <2>1, <3>1 DEF Blocks, Present, Unread
      <3> QED
        BY <3>2, <3>3, <3>4 DEF Blocks
    <2>2. CASE i # at[p]
      <3>1. \A q \in Process : at[q] # i \/ pc'[q] = pc[q]
        BY <1>5, <2>2 DEF OthersSame, Same
      <3> QED
        BY <1>3, <1>8, <1>10, <2>2, <3>1, BlockKept
    <2> QED
      BY <2>1, <2>2
  <1>13. \A q \in Process \ {p} : DOMAIN draft'[p] \cap DOMAIN draft[q] = {}
    BY <1>3, <1>6
  <1> QED
    BY <1>4, <1>5, <1>7, <1>8, <1>9, <1>11, <1>12, <1>13, StatePartsKept, RequestStep DEF RowsStay

(* A deletion that fails removes nothing and releases what it has blocked.  *)
LEMMA DeletionFailsStep ==
    ASSUME IInv, NEW p \in Process, DeletionFails(p),
           \/ Deleting(p) /\ searching' = searching
           \/ pc[p] = "discover" /\ searching' = searching \ {at[p]}
    PROVE  IInv'
  <1>1. RequestsTyped /\ RestTyped /\ BlocksTyped
    BY Parts, StateParts
  <1>2. /\ db' = db /\ Release(p) /\ Forget(p) /\ UNCHANGED <<timers, consumer, tries, history, adds>>
        /\ late' = [late EXCEPT ![p] = {}]
        /\ blocked' = blocked \ {at[p]}
        /\ blockedJobs' = [blockedJobs EXCEPT ![at[p]] = blockedJobs[at[p]] \ ownIds[at[p]]]
        /\ ownIds' = [ownIds EXCEPT ![at[p]] = {}]
    BY DEF DeletionFails, Rollback, ClearBlock, Blocking, sendVars
  <1>3. RowsStay
    BY <1>2, RowsAsBefore
  <1>4. /\ RequestsTyped' /\ OthersSame(p) /\ Fits(p)' /\ pc'[p] = "idle" /\ DOMAIN draft'[p] = {}
        /\ \A q \in Process \ {p} : late'[q] = late[q]
    BY <1>1, <1>2, Forgetting DEF RestTyped
  <1>5. /\ RowsAdvance /\ RowsTyped' /\ GrantedOnRecord' /\ ClosedWhole'
        /\ \A q \in Process \ {p} : LeftAlone(q)
    BY <1>2, <1>3, <1>4, RowsStayed DEF OthersSame, Same, StaysOut, Closing, Deleting
  <1>6. RestTyped' /\ at[p] \in Instance /\ at' = at
    BY <1>1, <1>2 DEF RestTyped, Forget
  <1>7. /\ ownIds'[at[p]] = {} /\ blockedJobs'[at[p]] = blockedJobs[at[p]] \ ownIds[at[p]]
        /\ \A i \in Instance \ {at[p]} : ownIds'[i] = ownIds[i] /\ blockedJobs'[i] = blockedJobs[i]
    BY <1>1, <1>2, <1>6 DEF RestTyped
  <1>8. BlocksTyped'
    BY <1>1, <1>2, <1>6, <1>7 DEF BlocksTyped
  <1>9. ASSUME NEW i \in Instance PROVE Blocks(i)'
    <2>1. CASE i = at[p]
      <3>1. Blocks(i)
        BY Parts
      <3>2. i \in searching' => \E q \in Process : at'[q] = i /\ pc'[q] = "discover"
        <4>1. CASE searching' = searching \ {at[p]}
          BY <2>1, <4>1
        <4>2. CASE Deleting(p) /\ searching' = searching
          BY <1>4, <1>6, <3>1, <4>2 DEF Blocks, OthersSame, Same, Deleting
        <4> QED
          BY <4>1, <4>2
      <3>3. i \notin blocked' /\ ownIds'[i] = {}
        BY <1>2, <1>7, <2>1
      <3>4. Present(User)' => \A j \in blockedJobs'[i] : Unread(j)'
        BY <1>2, <1>7, <2>1, <3>1 DEF Blocks, Present, Unread
      <3> QED
        BY <3>2, <3>3, <3>4 DEF Blocks
    <2>2. CASE i # at[p]
      <3>1. \A q \in Process : at[q] # i \/ pc'[q] = pc[q]
        BY <1>4, <2>2 DEF OthersSame, Same
      <3>2. i \in searching' => i \in searching
        OBVIOUS
      <3> QED
        BY <1>2, <1>5, <1>6, <1>7, <2>2, <3>1, <3>2, BlockKept
    <2> QED
      BY <2>1, <2>2
  <1> QED
    BY <1>3, <1>4, <1>5, <1>6, <1>8, <1>9, StatePartsKept, RequestStep DEF RowsStay

(* The rows of a table, and those that go with them.                        *)
LEMMA TableRows ==
    ASSUME NEW ids \in SUBSET Jobs, NEW t \in {"jobs", "events", "codes", "choices", "goals", "user"}
    PROVE  /\ Table(t, ids) \cup Cascade(t) \subseteq Row
           /\ t # "user" => User \notin Table(t, ids) \cup Cascade(t)
           /\ t = "jobs" => ids \subseteq Table(t, ids)
           /\ t = "events" => Events \subseteq Table(t, ids)
           /\ t = "user" => /\ User \in Table(t, ids) /\ Pref \in Cascade(t)
                            /\ \A j \in Jobs : Kind(j) = "job" => j \in Cascade(t)
  BY RowsApart DEF Table, Cascade, Row

(* One more table: what the deletion has staged it holds alone, and with    *)
(* the customer's row every row there is has been staged.                   *)
LEMMA DeleteTableStep ==
    ASSUME IInv, NEW p \in Process, DeleteTable(p)
    PROVE  IInv'
  <1>1. RequestsTyped /\ RestTyped /\ Typed(p) /\ Transaction(p) /\ BlocksTyped
        /\ DOMAIN db = Row /\ \A q \in Process : Transaction(q)
    BY Parts, StateParts DEF Fits
  <1>2. PICK t \in {"jobs", "events", "codes", "choices", "goals", "user"} : t = pc[p]
    BY DEF DeleteTable, Deleting
  <1>3. PICK ids \in SUBSET Jobs : ids = found[p]
    BY <1>1, <1>2 DEF Transaction, Closing, Deleting, Swept
  <1>4. PICK rows : rows = {r \in Table(t, ids) \cup Cascade(t) : Present(r)}
    OBVIOUS
  <1>5. Holders(p, rows \cup (Table(t, ids) \cap {User})) = {}
    BY <1>2, <1>3, <1>4 DEF DeleteTable
  <1>6. CASE UNCHANGED searching /\ DeletionFails(p)
    BY <1>2, <1>6, DeletionFailsStep DEF Deleting
  <1>7. CASE ~ (UNCHANGED searching /\ DeletionFails(p))
    <2>1. /\ ~ Referred(p, t) /\ ~ (t = "user" /\ Seen(p)[User] = Absent)
          /\ pc' = [pc EXCEPT ![p] = NextTable[t]]
          /\ draft' = [draft EXCEPT ![p] = Over([r \in rows |-> Absent], draft[p])]
          /\ UNCHANGED <<db, shared, req, at, found, history, late, adds>>
          /\ UNCHANGED <<blockVars, sendVars>>
      BY <1>2, <1>3, <1>4, <1>7 DEF DeleteTable, Step, Stage
    <2>2. RowsStay
      BY <2>1, RowsAsBefore
    <2>3. NextTable[t] \in Steps
          /\ NextTable[t] \in {"events", "codes", "choices", "goals", "user", "close"}
          /\ (NextTable[t] = "close" <=> t = "user") /\ (NextTable[t] = "events" <=> t = "jobs")
      BY DEF NextTable, Steps
    <2>4. /\ RequestsTyped' /\ pc'[p] = NextTable[t] /\ OthersSame(p)
          /\ DOMAIN draft'[p] = rows \cup DOMAIN draft[p]
          /\ \A r \in rows : draft'[p][r] = Absent
          /\ \A r \in DOMAIN draft[p] \ rows : draft'[p][r] = draft[p][r]
      BY <1>1, <2>1, <2>3 DEF RequestsTyped, OthersSame, Same, Over
    <2>5. /\ shared[p] = {} /\ ids \subseteq Jobs /\ User \notin DOMAIN draft[p]
          /\ \A r \in DOMAIN draft[p] : draft[p][r] = Absent
          /\ \A j \in Jobs : Kind(j) = "legacy" /\ Present(j) /\ ~ Unread(j) =>
                j \in ids /\ (t # "jobs" => j \in DOMAIN draft[p])
          /\ t \notin {"jobs", "events"} =>
                \A e \in Events : Present(e) => e \in DOMAIN draft[p] \cup late[p]
      BY <1>1, <1>2, <1>3 DEF Transaction, Closing, Deleting, Swept
    <2>6. rows \subseteq Row /\ (t # "user" => User \notin rows)
      BY <1>4, TableRows
    <2>7. Typed(p)'
      BY <1>1, <1>2, <2>1, <2>3, <2>4, <2>6 DEF Typed
    <2>8. /\ \A j \in Jobs : Kind(j) = "legacy" /\ Present(j) /\ ~ Unread(j) => j \in DOMAIN draft'[p]
          /\ t # "jobs" => \A e \in Events : Present(e) => e \in DOMAIN draft'[p] \cup late[p]
      BY <1>4, <2>4, <2>5, TableRows
    <2>9. ASSUME t = "user"
          PROVE  /\ User \in DOMAIN draft'[p]
                 /\ \A r \in Row : Present(r) => r \in DOMAIN draft'[p] \cup late[p] \/ Unread(r)
      <3>1. User \in Row /\ Seen(p)[User] = db[User]
        BY <1>1, <2>5 DEF Row, Seen, Over
      <3>2. User \in rows
        BY <1>4, <2>1, <2>9, <3>1, TableRows DEF Present
      <3>3. ASSUME NEW r \in Codes \cup Goals, Present(r) PROVE r \in DOMAIN draft[p]
        <4>1. Seen(p)[r] = Absent
          BY <2>1, <2>9 DEF Referred
        <4> QED
          BY <1>1, <3>3, <4>1 DEF Seen, Over, Present, Row
      <3>4. ASSUME NEW r \in Jobs, Present(r), ~ Unread(r) PROVE r \in DOMAIN draft'[p]
        BY <1>4, <2>4, <2>8, <2>9, <3>4, TableRows, RowsApart
      <3>5. Present(Pref) => Pref \in rows
        BY <1>4, <2>9, TableRows
      <3> QED
        BY <2>4, <2>8, <2>9, <3>2, <3>3, <3>4, <3>5 DEF Row
    <2>10. Transaction(p)'
      <3>1. \A r \in DOMAIN draft'[p] : draft'[p][r] = Absent
        BY <2>4, <2>5
      <3>2. pc'[p] # "close" => User \notin DOMAIN draft'[p]
        BY <2>3, <2>4, <2>5, <2>6
      <3>3. /\ \A r \in Row : (Present(r)' <=> Present(r)) /\ (Unread(r)' <=> Unread(r))
            /\ late' = late
        BY <2>1 DEF Present, Unread
      <3>4. /\ \A j \in Jobs : Kind(j) = "legacy" /\ Present(j)' /\ ~ Unread(j)' =>
                  j \in ids /\ j \in DOMAIN draft'[p]
            /\ Swept(p)' => \A e \in Events : Present(e)' => e \in DOMAIN draft'[p] \cup late'[p]
        BY <2>3, <2>4, <2>5, <2>8, <3>3 DEF Row, Swept
      <3>5. pc'[p] = "close" =>
               /\ User \in DOMAIN draft'[p]
               /\ \A r \in Row : Present(r)' => r \in DOMAIN draft'[p] \cup late'[p] \/ Unread(r)'
        BY <2>3, <2>4, <2>9, <3>3
      <3>6. shared'[p] = {} /\ found'[p] = ids
        BY <1>3, <2>1, <2>5
      <3> QED
        BY <2>3, <2>4, <3>1, <3>2, <3>4, <3>5, <3>6 DEF Transaction, Closing, Deleting
    <2>11. Consenting(p)'
      BY <2>3, <2>4 DEF Consenting
    <2>12. /\ RowsAdvance /\ RowsTyped' /\ GrantedOnRecord' /\ ClosedWhole'
           /\ \A q \in Process : LeftAlone(q)
      BY <1>2, <2>1, <2>2, <2>4, RowsStayed DEF OthersSame, Same, StaysOut, Closing, Deleting
    <2>13. StateTyped'
      BY <1>1, <2>1, <2>2, <2>4, RestUntouched, StatePartsKept DEF RowsStay
    <2>14. BlocksTyped' /\ \A i \in Instance : Blocks(i)'
      <3>1. \A q \in Process \ {p} : pc'[q] = pc[q]
        BY <2>4 DEF OthersSame, Same
      <3>2. Closing(p) /\ Closing(p)'
        BY <1>2, <2>3, <2>4 DEF Closing, Deleting
      <3> QED
        BY <2>1, <2>12, <3>1, <3>2, BlocksKept DEF blockVars
    <2>15. ASSUME NEW q \in Process \ {p}
           PROVE  /\ DOMAIN draft'[p] \cap DOMAIN draft[q] = {}
                  /\ pc'[p] = "close" => pc[q] # "append"
      <3>1. Locked(p, q)
        BY Parts
      <3>2. q \notin Writers(p, rows \cup (Table(t, ids) \cap {User}))
            /\ (rows \cup (Table(t, ids) \cap {User})) \cap shared[q] = {}
        BY <1>5 DEF Holders
      <3>3. rows \cap DOMAIN draft[q] = {}
        BY <3>2 DEF Writers
      <3>4. DOMAIN draft'[p] \cap DOMAIN draft[q] = {}
        BY <2>4, <3>1, <3>3 DEF Locked
      <3>5. t = "user" => User \notin shared[q]
        BY <3>2, TableRows
      <3>6. pc[q] = "append" => shared[q] = {User}
        BY <1>1 DEF Transaction
      <3> QED
        BY <2>3, <2>4, <3>4, <3>5, <3>6
    <2> QED
      BY <2>3, <2>4, <2>7, <2>10, <2>11, <2>12, <2>13, <2>14, <2>15, RequestStep DEF Fits
  <1> QED
    BY <1>6, <1>7

(* The commit of a deletion leaves no row, and nobody was inserting.        *)
LEMMA CloseDeletionStep ==
    ASSUME IInv, NEW p \in Process, CloseDeletion(p)
    PROVE  IInv'
  <1>1. RequestsTyped /\ RestTyped /\ BlocksTyped /\ Transaction(p) /\ DOMAIN db = Row
        /\ \A q \in Process \ {p} : Locked(p, q) /\ Transaction(q)
    BY Parts, StateParts DEF Fits
  <1>2. /\ pc[p] = "close" /\ db' = Seen(p) /\ Release(p) /\ Forget(p)
        /\ timers' = [timers EXCEPT ![at[p]] = timers[at[p]] + 1]
        /\ history' = [c \in Category |-> <<>>]
        /\ UNCHANGED <<blocked, blockedJobs, ownIds, searching, consumer, tries, late, adds>>
    BY DEF CloseDeletion, Commit, sendVars
  <1>3. DOMAIN draft[p] \subseteq Row /\ \A q \in Process : late[q] \subseteq Events
    BY Parts DEF Fits, Typed
  <1>4. /\ DOMAIN db' = Row /\ db'[User] = Absent
        /\ \A r \in Row : \/ db'[r] = Absent
                          \/ db'[r] = db[r] /\ (r \in late[p] \/ Unread(r))
    <2>1. /\ \A r \in DOMAIN draft[p] : draft[p][r] = Absent
          /\ User \in DOMAIN draft[p]
          /\ \A r \in Row : Present(r) => r \in DOMAIN draft[p] \cup late[p] \/ Unread(r)
      BY <1>1, <1>2 DEF Transaction, Closing
    <2> QED
      BY <1>1, <1>2, <1>3, <2>1 DEF Seen, Over, Present
  <1>5. /\ ~ Present(User)'
        /\ \A r \in Row : Present(r)' => Present(r) /\ (r \in late[p] \/ (Unread(r) /\ Unread(r)'))
    BY <1>4 DEF Present, Unread
  <1>6. RowsAdvance /\ RowsTyped' /\ GrantedOnRecord' /\ ClosedWhole'
    <2>1. User \in Row /\ Pref \in Row /\ Jobs \subseteq Row
      BY DEF Row
    <2>2. db'[Pref] = Absent
      BY <1>3, <1>4, <2>1, RowsApart DEF Unread
    <2>3. RowsAdvance
      <3>1. \A j \in Jobs : Unread(j) /\ Present(j)' => Unread(j)'
        BY <1>4, <2>1 DEF Present, Unread
      <3> QED
        BY <1>5, <2>1, <3>1 DEF RowsAdvance
    <2>4. Closed(p)'
      <3>1. pc'[p] = "idle"
        BY <1>1, <1>2, <1>3, Forgetting
      <3> QED
        BY <1>2, <1>5, <3>1 DEF Closed, Closing, Deleting
    <2> QED
      BY <2>1, <2>2, <2>3, <2>4 DEF RowsTyped, GrantedOnRecord, ClosedWhole
  <1>7. RequestsTyped' /\ OthersSame(p) /\ Fits(p)' /\ pc'[p] = "idle" /\ DOMAIN draft'[p] = {}
    BY <1>1, <1>2, <1>3, Forgetting
  <1>8. /\ at[p] \in Instance /\ timers'[at[p]] # 0 /\ timers' \in [Instance -> Nat]
        /\ \A i \in Instance \ {at[p]} : timers'[i] = timers[i]
    BY <1>1, <1>2 DEF RestTyped
  <1>9. RestTyped'
    <2>1. history' \in [Category -> Seq(BOOLEAN)]
      BY <1>2
    <2> QED
      BY <1>1, <1>2, <1>8, <2>1 DEF RestTyped, Forget
  <1>10. BlocksTyped'
    BY <1>1, <1>2 DEF BlocksTyped
  <1>11. ASSUME NEW i \in Instance PROVE Blocks(i)'
    <2>1. \A q \in Process : pc[q] = "discover" => pc'[q] = "discover"
      BY <1>2, <1>7 DEF OthersSame, Same
    <2>2. CASE i = at[p]
      <3>1. Blocks(i)
        BY Parts
      <3>2. i \in searching' => \E q \in Process : at'[q] = i /\ pc'[q] = "discover"
        BY <1>2, <2>1, <3>1 DEF Blocks, Forget
      <3>3. timers'[i] # 0 /\ ~ Present(User)'
        BY <1>5, <1>8, <2>2 DEF Row
      <3> QED
        BY <3>2, <3>3 DEF Blocks
    <2>3. CASE i # at[p]
      <3>1. \A q \in Process : at[q] # i \/ pc'[q] = pc[q]
        BY <1>7, <2>3 DEF OthersSame, Same
      <3> QED
        BY <1>2, <1>6, <1>8, <2>3, <3>1, BlockKept DEF Forget
    <2> QED
      BY <2>2, <2>3
  <1>12. \A q \in Process \ {p} : LeftAlone(q)
    <2>1. ASSUME NEW q \in Process \ {p} PROVE pc[q] \notin {"append", "close"}
      BY <1>1, <1>2, <2>1 DEF Locked, Transaction, Closing
    <2>2. Events \subseteq Row
      BY DEF Row
    <2> QED
      BY <1>2, <1>3, <1>5, <2>1, <2>2 DEF LeftAlone, LateKept
  <1> QED
    BY <1>4, <1>6, <1>7, <1>9, <1>10, <1>11, <1>12, StatePartsKept, RequestStep

(* A transaction that fails rolls back, whichever it is.                    *)
LEMMA AbortStep ==
    ASSUME IInv, NEW p \in Process, Abort(p)
    PROVE  IInv'
  <1>1. CASE Deleting(p) /\ UNCHANGED searching /\ DeletionFails(p)
    BY <1>1, DeletionFailsStep
  <1>2. CASE pc[p] = "upsert" /\ Rollback(p) /\ Forget(p)
             /\ UNCHANGED <<blockVars, sendVars, history, late, handled, adds>>
    BY <1>2, RowsAsBefore, ForgetStep DEF Rollback, Closing, Deleting
  <1> QED
    BY <1>1, <1>2 DEF Abort

-----------------------------------------------------------------------------
(* What happens outside the requests.                                       *)

(* A timer that expires lifts the block when it is the last one.            *)
LEMMA TimerFiresStep ==
    ASSUME IInv, NEW k \in Instance, TimerFires(k)
    PROVE  IInv'
  <1>1. RequestsTyped /\ RestTyped /\ BlocksTyped
    BY Parts, StateParts
  <1>2. /\ UNCHANGED <<db, draft, shared, pc, req, at, found, searching, consumer, tries, history, late,
                       adds>>
        /\ UNCHANGED reqVars
        /\ timers' = [timers EXCEPT ![k] = timers[k] - 1] /\ timers[k] > 0
        /\ blocked' = blocked \ {k}
        /\ blockedJobs' = [blockedJobs EXCEPT ![k] = blockedJobs[k] \ ownIds[k]]
        /\ ownIds' = [ownIds EXCEPT ![k] = {}]
    BY DEF TimerFires, ClearBlock, Blocking, txVars, reqVars, sendVars
  <1>3. RowsStay
    BY <1>2, RowsAsBefore
  <1>4. /\ RowsAdvance /\ RowsTyped' /\ GrantedOnRecord' /\ ClosedWhole'
        /\ \A q \in Process : LeftAlone(q)
    BY <1>2, <1>3, RowsStayed DEF StaysOut, Closing, Deleting
  <1>5. RequestsTyped' /\ RestTyped'
    BY <1>1, <1>2 DEF RequestsTyped, RestTyped
  <1>6. /\ ownIds'[k] = {} /\ blockedJobs'[k] = blockedJobs[k] \ ownIds[k]
        /\ \A i \in Instance \ {k} : /\ ownIds'[i] = ownIds[i] /\ blockedJobs'[i] = blockedJobs[i]
                                     /\ timers'[i] = timers[i]
    BY <1>1, <1>2 DEF RestTyped
  <1>7. BlocksTyped'
    BY <1>1, <1>2, <1>6 DEF BlocksTyped
  <1>8. ASSUME NEW i \in Instance PROVE Blocks(i)'
    <2>1. CASE i = k
      <3>1. Blocks(i)
        BY Parts
      <3> QED
        BY <1>2, <1>6, <2>1, <3>1 DEF Blocks, Present, Unread
    <2>2. CASE i # k
      BY <1>2, <1>4, <1>6, <2>2, BlockKept
    <2> QED
      BY <2>1, <2>2
  <1> QED
    BY <1>2, <1>3, <1>4, <1>5, <1>7, <1>8, StatePartsKept, OutsideStep DEF RowsStay

(* A row is inserted for a customer whom nobody is about to remove.         *)
LEMMA InsertStep ==
    ASSUME IInv, NEW r \in Row \ {User, Pref}, r \in Jobs => Kind(r) = "job", NEW v,
           db' = Over(Only(r, v), db), Present(User), adds' \in Nat,
           \A q \in Process : LateKept(q),
           \/ r \notin Events /\ \A q \in Process : User \notin DOMAIN draft[q] /\ late'[q] = late[q]
           \/ r \in Events /\ \A q \in Process : Swept(q) => r \in late'[q],
           r \in Jobs => v # Absent, DOMAIN late' = Process,
           UNCHANGED <<draft, shared, reqVars, blockVars, sendVars, history>>
    PROVE  IInv'
  <1>1. /\ RequestsTyped /\ RestTyped /\ BlocksTyped /\ DOMAIN db = Row /\ User \in Row
        /\ Pref \in Row /\ GrantedOnRecord /\ RowsTyped /\ \A q \in Process : Transaction(q)
    BY Parts, StateParts DEF Fits, Row
  <1>2. /\ UNCHANGED <<draft, shared, pc, req, at, found, searching, consumer, tries, history,
                       blocked, blockedJobs, ownIds, timers>>
    BY DEF reqVars, blockVars, sendVars
  <1>3. DOMAIN db' = Row /\ db'[r] = v /\ \A s \in Row \ {r} : db'[s] = db[s]
    BY <1>1 DEF Over, Only
  <1>4. Present(User)' /\ db'[Pref] = db[Pref]
    BY <1>1, <1>3 DEF Present
  <1>5. \A j \in Jobs : /\ Present(j) => Present(j)'
                        /\ Kind(j) = "legacy" /\ Present(j)' => Present(j)
                        /\ Unread(j) => Unread(j)'
    BY <1>3 DEF Present, Unread, Row
  <1>6. RowsAdvance
    BY <1>2, <1>4, <1>5 DEF RowsAdvance, Granted
  <1>7. RowsTyped' /\ GrantedOnRecord' /\ ClosedWhole'
    BY <1>1, <1>2, <1>4 DEF RowsTyped, GrantedOnRecord, ClosedWhole
  <1>8. \A q \in Process : LeftAlone(q)
    <2>1. ASSUME NEW q \in Process, pc[q] = "close" \/ Swept(q), NEW s \in Row, Present(s)'
          PROVE  s \in late'[q] \/ Present(s) \/ (r \notin Events /\ pc[q] # "close" /\ s = r)
      <3>1. CASE s # r
        BY <1>3, <2>1, <3>1 DEF Present
      <3>2. CASE s = r /\ r \in Events
        BY <2>1, <3>2 DEF Swept
      <3>3. CASE s = r /\ r \notin Events
        BY <1>1, <2>1, <3>3 DEF Transaction
      <3> QED
        BY <3>1, <3>2, <3>3
    <2>2. Events \subseteq Row
      BY DEF Row
    <2> QED
      BY <1>1, <1>4, <2>1, <2>2 DEF LeftAlone, Transaction
  <1>9. RequestsTyped' /\ RestTyped'
    BY <1>1, <1>2 DEF RequestsTyped, RestTyped
  <1>10. BlocksTyped' /\ \A i \in Instance : Blocks(i)'
    BY <1>2, <1>6, BlocksKept
  <1> QED
    BY <1>3, <1>6, <1>7, <1>8, <1>9, <1>10, StatePartsKept, OutsideStep

(* Another service inserts a goal or a code of the user.                    *)
LEMMA AddRowsStep == ASSUME IInv, AddRows PROVE IInv'
  <1>1. adds \in Nat /\ adds < MaxAdds /\ MaxAdds \in Nat
    BY Parts, AccountAssumption DEF AddRows, StateTyped
  <1>2. /\ Present(User) /\ adds' = adds + 1 /\ \A q \in Process : User \notin DOMAIN draft[q]
        /\ UNCHANGED <<draft, shared, reqVars, blockVars, sendVars, history, late>>
    BY DEF AddRows, Write
  <1>3. PICK kind \in {"code", "goal"} :
           db' = Over(Only(<<kind, adds' + 1>>, [of |-> User]), db)
    BY DEF AddRows, Write
  <1>4. adds' + 1 \in 1..(MaxAdds + 1)
    BY <1>1, <1>2
  <1>5. PICK r : r = <<kind, adds' + 1>>
    OBVIOUS
  <1>6. r \in Codes \cup Goals
    BY <1>4, <1>5 DEF Codes, Goals
  <1>7. DOMAIN late = Process /\ \A q \in Process : LateKept(q)
    BY <1>2, Parts DEF StateTyped, Fits, Typed, LateKept
  <1> QED
    BY <1>1, <1>2, <1>3, <1>5, <1>6, <1>7, RowsApart, InsertStep DEF Row

(* The OTP service queues a job for a code of the user.                     *)
LEMMA AddJobStep == ASSUME IInv, AddJob PROVE IInv'
  <1>1. /\ ClosedWhole /\ adds \in Nat
    BY Parts DEF StateTyped
  <1>2. PICK c \in Codes : /\ Present(c) /\ \A q \in Process : {c, User} \cap DOMAIN draft[q] = {}
                           /\ Write(Only(<<"job", c[2]>>, [of |-> c]))
                           /\ UNCHANGED <<reqVars, blockVars, sendVars, history, late, handled, adds>>
    BY DEF AddJob
  <1>3. Present(User) /\ [of |-> c] # Absent
    <2>1. \A q \in Process : late[q] \subseteq Events
      BY Parts DEF Fits, Typed
    <2> QED
      BY <1>1, <1>2, <2>1, RowsApart, AccountAssumption DEF ClosedWhole, Closed, Unread, Row
  <1>4. PICK r : r = <<"job", c[2]>>
    OBVIOUS
  <1>5. r \in Jobs /\ Kind(r) = "job"
    BY <1>4 DEF Jobs, Codes, Kind
  <1>6. DOMAIN late = Process /\ \A q \in Process : LateKept(q)
    BY <1>2, Parts DEF StateTyped, Fits, Typed, LateKept
  <1> QED
    BY <1>1, <1>2, <1>3, <1>4, <1>5, <1>6, RowsApart, InsertStep DEF Write, Row

(* An event is inserted, which every deletion past its statement for these  *)
(* leaves behind.                                                           *)
LEMMA AddEventStep == ASSUME IInv, AddEvent PROVE IInv'
  <1>1. adds \in Nat /\ adds < MaxAdds /\ MaxAdds \in Nat
    BY Parts, AccountAssumption DEF AddEvent, StateTyped
  <1>2. PICK r : r = <<"event", adds' + 1>>
    OBVIOUS
  <1>3. /\ Present(User) /\ adds' = adds + 1 /\ db' = Over(Only(r, [of |-> User]), db)
        /\ late' = [q \in Process |-> IF Swept(q) THEN late[q] \cup {r} ELSE late[q]]
        /\ UNCHANGED <<draft, shared, reqVars, blockVars, sendVars, history>>
    BY <1>2 DEF AddEvent, Write
  <1>4. adds' + 1 \in 1..(MaxAdds + 1) /\ adds' \in Nat
    BY <1>1, <1>3
  <1>5. r \in Events
    BY <1>2, <1>4 DEF Events
  <1>6. \A q \in Process : LateKept(q) /\ (Swept(q) => r \in late'[q])
    BY <1>3, <1>5, Parts DEF Fits, Typed, LateKept
  <1> QED
    BY <1>3, <1>4, <1>5, <1>6, RowsApart, InsertStep DEF Row

(* A consumer claims a job, or asks the block and then the row, and sends.  *)
LEMMA ConsumerStep ==
    ASSUME IInv, NEW k \in Instance, Claim(k) \/ Deliver(k)
    PROVE  IInv'
  <1>1. RequestsTyped /\ RestTyped
    BY Parts, StateParts
  <1>2. /\ UNCHANGED <<draft, shared, pc, req, at, found, searching, history, late, blocked,
                       blockedJobs, ownIds, timers, adds>>
        /\ UNCHANGED reqVars
    BY DEF Claim, Deliver, CheckBlock, CheckTable, Send, Write, txVars, reqVars, blockVars
  <1>3. DOMAIN consumer' = Instance /\ \A i \in Instance \ {k} : consumer'[i] = consumer[i]
    BY <1>1 DEF RestTyped, Claim, Deliver, CheckBlock, CheckTable, Send
  <1>4. consumer'[k] \in {NoDelivery} \cup Delivery
    <2>1. CASE Claim(k)
      BY <1>1, <2>1 DEF RestTyped, Claim, Delivery
    <2>2. CASE CheckBlock(k) \/ CheckTable(k) \/ Send(k)
      <3>1. consumer[k] \in Delivery
        BY <1>1, <2>2 DEF RestTyped, CheckBlock, CheckTable, Send, NoDelivery
      <3>2. \/ consumer'[k] = NoDelivery
            \/ consumer'[k] = [consumer[k] EXCEPT !.step = "table"]
            \/ consumer'[k] = [consumer[k] EXCEPT !.step = "send"]
        BY <1>1, <2>2 DEF RestTyped, CheckBlock, CheckTable, Send
      <3> QED
        BY <3>1, <3>2 DEF Delivery
    <2> QED
      BY <2>1, <2>2 DEF Deliver
  <1>5. RowsStay
    <2>1. CASE db' = db
      BY <1>2, <2>1, RowsAsBefore
    <2>2. CASE db' # db
      <3>1. PICK j : /\ j = consumer[k].job /\ Present(j) /\ Kind(j) = "legacy"
                     /\ db' = Over(Only(j, Redacted), db) /\ Send(k)
        BY <2>2 DEF Claim, Deliver, CheckBlock, CheckTable, Send, Write, txVars
      <3>2. j \in Jobs
        BY <1>1, <3>1 DEF RestTyped, Send, Delivery, NoDelivery
      <3>3. DOMAIN db = Row /\ Jobs \subseteq Row /\ Pref \in Row /\ Redacted # Absent
        BY Parts, AccountAssumption DEF StateTyped, Row, Redacted
      <3>4. DOMAIN db' = Row /\ db'[j] = Redacted /\ \A r \in Row \ {j} : db'[r] = db[r]
        BY <3>1, <3>2, <3>3 DEF Over, Only
      <3> QED
        BY <1>2, <3>1, <3>2, <3>3, <3>4, RowsApart DEF RowsStay, Present, Unread
    <2> QED
      BY <2>1, <2>2
  <1>6. /\ RowsAdvance /\ RowsTyped' /\ GrantedOnRecord' /\ ClosedWhole'
        /\ \A q \in Process : LeftAlone(q)
    BY <1>2, <1>5, RowsStayed DEF StaysOut, Closing, Deleting
  <1>7. RequestsTyped' /\ RestTyped'
    BY <1>1, <1>2, <1>3, <1>4 DEF RequestsTyped, RestTyped
  <1>8. BlocksTyped' /\ \A i \in Instance : Blocks(i)'
    BY <1>2, <1>6, BlocksKept
  <1> QED
    BY <1>2, <1>5, <1>6, <1>7, <1>8, StatePartsKept, OutsideStep DEF RowsStay

-----------------------------------------------------------------------------
(* Every statement of a request, every step of a consumer or a timer and    *)
(* every insert of another service keeps the invariant.                     *)
LEMMA NextInvariant == IInv /\ [Next]_vars => IInv'
  <1> SUFFICES ASSUME IInv, [Next]_vars PROVE IInv'
    OBVIOUS
  <1>1. ASSUME NEW p \in Process, Arrive(p) PROVE IInv'
    BY <1>1, ArriveStep
  <1>2. ASSUME NEW p \in Process, Statement(p) PROVE IInv'
    <2>1. CASE Profile(p)
      BY <2>1, ProfileStep
    <2>2. CASE Export(p) \/ ExportHistory(p)
      BY <2>2, ExportStep
    <2>3. CASE ReadConsents(p)
      BY <2>3, ReadConsentsStep
    <2>4. CASE Upsert(p)
      BY <2>4, UpsertStep
    <2>5. CASE AppendRecords(p)
      BY <2>5, AppendRecordsStep
    <2>6. CASE BeginDeletion(p)
      BY <2>6, BeginDeletionStep
    <2>7. CASE Discover(p)
      BY <2>7, DiscoverStep
    <2>8. CASE DiscoverFails(p)
      BY <2>8, DeletionFailsStep DEF DiscoverFails
    <2>9. CASE DeleteTable(p)
      BY <2>9, DeleteTableStep
    <2>10. CASE CloseDeletion(p)
      BY <2>10, CloseDeletionStep
    <2>11. CASE Abort(p)
      BY <2>11, AbortStep
    <2> QED
      BY <1>2, <2>1, <2>2, <2>3, <2>4, <2>5, <2>6, <2>7, <2>8, <2>9, <2>10, <2>11 DEF Statement
  <1>3. ASSUME NEW i \in Instance, Claim(i) \/ Deliver(i) PROVE IInv'
    BY <1>3, ConsumerStep
  <1>4. ASSUME NEW i \in Instance, TimerFires(i) PROVE IInv'
    BY <1>4, TimerFiresStep
  <1>5. CASE AddRows
    BY <1>5, AddRowsStep
  <1>6. CASE AddJob
    BY <1>6, AddJobStep
  <1>7. CASE AddEvent
    BY <1>7, AddEventStep
  <1>8. CASE UNCHANGED vars
    <2>1. /\ UNCHANGED <<db, draft, shared, pc, req, at, found, searching, consumer, tries,
                         history, late, blocked, blockedJobs, ownIds, timers, adds>>
          /\ UNCHANGED reqVars
      BY <1>8 DEF vars, txVars, reqVars, blockVars, sendVars
    <2>2. RequestsTyped' /\ RestTyped'
      BY <2>1, Parts, StateParts DEF RequestsTyped, RestTyped
    <2>3. RowsStay
      BY <2>1, RowsAsBefore
    <2>4. /\ RowsAdvance /\ RowsTyped' /\ GrantedOnRecord' /\ ClosedWhole'
          /\ \A q \in Process : LeftAlone(q)
      BY <2>1, <2>3, RowsStayed DEF StaysOut, Closing, Deleting
    <2>5. BlocksTyped' /\ \A i \in Instance : Blocks(i)'
      BY <2>1, <2>4, BlocksKept
    <2> QED
      BY <2>1, <2>2, <2>3, <2>4, <2>5, StatePartsKept, OutsideStep DEF RowsStay
  <1> QED
    BY <1>1, <1>2, <1>3, <1>4, <1>5, <1>6, <1>7, <1>8 DEF Next

(* The inductive invariant of the account's requests: what a consent        *)
(* request is about to write is backed by the history, a deletion's         *)
(* transaction covers in the end every row there is, and whatever an        *)
(* instance blocks has a request or a timer that will release it.           *)
THEOREM Invariance == Spec => []IInv
  BY InitInvariant, NextInvariant, PTL DEF Spec

(* ConsentsSound: a category that is on was granted in the history, however *)
(* many updateConsents overlap (AccountService.updateConsents).             *)
THEOREM ConsentsStaySound == Spec => []ConsentsSound
  <1>1. IInv => ConsentsSound
    BY DEF IInv
  <1> QED
    BY <1>1, Invariance, PTL

(* AccountGoneWhole: once deleteAccount has removed the customer, what is   *)
(* left of them are messages without a userId whose payload is unreadable   *)
(* and the authentication events inserted after its statement for these,    *)
(* whatever other services inserted and sent while it ran.                  *)
THEOREM AccountsGoWhole == Spec => []AccountGoneWhole
  <1>1. IInv => AccountGoneWhole
    BY DEF IInv, ClosedWhole, Closed, AccountGoneWhole
  <1> QED
    BY <1>1, Invariance, PTL

(* BlocksEnd: the in-memory block of an account is lifted again by          *)
(* restoreForAccount after a failure and by finalizeAccountDeletion's timer *)
(* after a success, however deletions on an instance overlap.               *)
THEOREM BlocksComeToAnEnd == Spec => []BlocksEnd
  <1>1. IInv => BlocksEnd
    <2> SUFFICES ASSUME IInv, NEW i \in Instance, timers[i] = 0,
                        \A p \in Process : at[p] = i =>
                            pc[p] # "discover" /\ pc[p] # "close" /\ ~ Deleting(p)
                 PROVE  /\ i \notin blocked \cup searching
                        /\ \A j \in blockedJobs[i] : ~ Present(j) \/ Unread(j)
      BY DEF BlocksEnd
    <2>1. /\ Blocks(i) /\ ClosedWhole /\ blockedJobs[i] \subseteq Jobs
          /\ \A q \in Process : late[q] \subseteq Events
      BY Parts DEF BlocksTyped, Fits, Typed
    <2>2. i \notin blocked \cup searching /\ ownIds[i] = {}
      BY <2>1 DEF Blocks, Closing
    <2>3. CASE Present(User)
      BY <2>1, <2>2, <2>3 DEF Blocks
    <2>4. CASE ~ Present(User)
      BY <2>1, <2>2, <2>4, RowsApart DEF ClosedWhole, Closed, Row
    <2> QED
      BY <2>3, <2>4
  <1> QED
    BY <1>1, Invariance, PTL

-----------------------------------------------------------------------------
(* What a step may never do.                                                *)
RowsKept == \A r \in Row : Present(r) => Present(r)'

(* A commit of what a deletion did not stage, or a write of rows that are   *)
(* not Absent, loses no row.                                                *)
LEMMA WritesKeepRows ==
    ASSUME DOMAIN db = Row, NEW writes, db' = Over(writes, db),
           \A r \in DOMAIN writes : writes[r] # Absent
    PROVE  RowsKept
  BY DEF RowsKept, Over, Present

(* DeletionSteps: rows vanish only in the commit of deleteAccount's         *)
(* transaction, together with the customer; and canDeliver, which finds the *)
(* message in the table, finds it for a customer who still exists or finds  *)
(* one that a deletion has left because its payload was redacted.           *)
THEOREM DeletionsStepSoundly == Spec => DeletionSteps
  <1>1. ASSUME IInv, [Next]_vars
        PROVE  RowsKept \/ ~ Present(User)'
    <2>1. DOMAIN db = Row
      BY <1>1, Parts DEF StateTyped
    <2>2. CASE db' = db
      BY <2>2 DEF RowsKept, Present
    <2>3. ASSUME NEW p \in Process, Profile(p) PROVE RowsKept
      <3>1. [name |-> "new"] # Absent
        BY AccountAssumption
      <3>2. PICK w : /\ w = (IF Present(User) THEN Only(User, [name |-> "new"]) ELSE <<>>)
                     /\ db' = Over(w, db)
        BY <2>3 DEF Profile, Write
      <3>3. \A r \in DOMAIN w : w[r] # Absent
        BY <3>1, <3>2, EmptyDraft DEF Only
      <3> QED
        BY <2>1, <3>2, <3>3, WritesKeepRows
    <2>4. ASSUME NEW p \in Process, AppendRecords(p) PROVE RowsKept
      <3>1. db' = Over(draft[p], db)
        BY <2>4 DEF AppendRecords, Commit, Seen
      <3>2. \A r \in DOMAIN draft[p] : draft[p][r] # Absent
        BY <1>1, <2>4, Parts, AccountAssumption DEF Fits, Transaction, AppendRecords
      <3> QED
        BY <2>1, <3>1, <3>2, WritesKeepRows
    <2>5. ASSUME NEW p \in Process, CloseDeletion(p) PROVE ~ Present(User)'
      <3>1. User \in DOMAIN draft[p] /\ draft[p][User] = Absent
        BY <1>1, <2>5, Parts DEF Fits, Transaction, Closing, CloseDeletion
      <3> QED
        BY <2>5, <3>1 DEF CloseDeletion, Commit, Seen, Over, Present
    <2>6. CASE AddRows
      <3>1. [of |-> User] # Absent
        BY AccountAssumption
      <3>2. PICK kind \in {"code", "goal"} :
               db' = Over(Only(<<kind, adds' + 1>>, [of |-> User]), db)
        BY <2>6 DEF AddRows, Write
      <3> QED
        BY <2>1, <3>1, <3>2, WritesKeepRows DEF Only
    <2>7. CASE AddJob
      <3>1. PICK c \in Codes : db' = Over(Only(<<"job", c[2]>>, [of |-> c]), db)
        BY <2>7 DEF AddJob, Write
      <3>2. [of |-> c] # Absent
        BY AccountAssumption
      <3> QED
        BY <2>1, <3>1, <3>2, WritesKeepRows DEF Only
    <2>8. ASSUME NEW p \in Process, Statement(p), ~ Profile(p), ~ AppendRecords(p),
                 ~ CloseDeletion(p)
          PROVE  db' = db
      BY <2>8 DEF Statement, Export, ExportHistory, ReadConsents, Upsert, BeginDeletion, Discover,
         DiscoverFails, DeletionFails, DeleteTable, Abort, Rollback, txVars
    <2>9. ASSUME NEW p \in Process, Arrive(p) PROVE db' = db
      BY <2>9 DEF Arrive, txVars
    <2>10. ASSUME NEW i \in Instance, Claim(i) \/ Deliver(i) \/ TimerFires(i), db' # db
           PROVE  RowsKept
      <3>1. PICK j : db' = Over(Only(j, Redacted), db)
        BY <2>10 DEF Claim, Deliver, CheckBlock, CheckTable, Send, TimerFires, Write, txVars
      <3>2. Redacted # Absent
        BY AccountAssumption DEF Redacted
      <3> QED
        BY <2>1, <3>1, <3>2, WritesKeepRows DEF Only
    <2>12. CASE AddEvent
      <3>1. [of |-> User] # Absent
        BY AccountAssumption
      <3>2. db' = Over(Only(<<"event", adds' + 1>>, [of |-> User]), db)
        BY <2>12 DEF AddEvent, Write
      <3> QED
        BY <2>1, <3>1, <3>2, WritesKeepRows DEF Only
    <2>11. CASE UNCHANGED vars
      BY <2>2, <2>11 DEF vars, txVars
    <2> QED
      BY <1>1, <2>2, <2>3, <2>4, <2>5, <2>6, <2>7, <2>8, <2>9, <2>10, <2>11, <2>12 DEF Next
  <1>2. ASSUME IInv, [Next]_vars, NEW i \in Instance,
               consumer[i].step = "table", consumer'[i].step = "send"
        PROVE  Present(User) \/ Unread(consumer[i].job)
    <2>1. /\ DOMAIN consumer = Instance /\ consumer[i] \in {NoDelivery} \cup Delivery
          /\ ClosedWhole /\ \A q \in Process : late[q] \subseteq Events
      BY <1>2, Parts DEF StateTyped, Fits, Typed
    <2>2. consumer[i] \in Delivery /\ consumer[i].job \in Jobs
      BY <1>2, <2>1 DEF NoDelivery, Delivery
    <2>3. consumer' # consumer
      BY <1>2
    <2>4. \A p \in Process : ~ Arrive(p) /\ ~ Statement(p)
      BY <2>3 DEF Arrive, Statement, Profile, Export, ExportHistory, ReadConsents, Upsert,
         AppendRecords, BeginDeletion, Discover, DiscoverFails, DeletionFails, DeleteTable,
         CloseDeletion, Abort, sendVars
    <2>5. \A k \in Instance : ~ TimerFires(k)
      BY <2>3 DEF TimerFires, sendVars
    <2>6. ~ AddRows /\ ~ AddJob /\ ~ AddEvent /\ ~ UNCHANGED vars
      BY <2>3 DEF AddRows, AddJob, AddEvent, vars, sendVars
    <2>7. PICK k \in Instance : Claim(k) \/ Deliver(k)
      BY <1>2, <2>4, <2>5, <2>6 DEF Next
    <2>8. k = i
      BY <1>2, <2>1, <2>7 DEF Claim, Deliver, CheckBlock, CheckTable, Send
    <2>9. CheckTable(i)
      BY <1>2, <2>2, <2>7, <2>8 DEF Claim, Deliver, CheckBlock, Send, NoDelivery
    <2>10. Present(consumer[i].job)
      BY <1>2, <2>1, <2>9 DEF CheckTable, NoDelivery
    <2> QED
      BY <2>1, <2>2, <2>10, RowsApart DEF ClosedWhole, Closed, Row
  <1>3. IInv /\ [Next]_vars =>
          [/\ \A r \in Row : Present(r) /\ ~ Present(r)' => ~ Present(User)'
           /\ \A i \in Instance :
                 consumer[i].step = "table" /\ consumer'[i].step = "send" =>
                     Present(User) \/ Unread(consumer[i].job)]_vars
    BY <1>1, <1>2 DEF RowsKept
  <1> QED
    BY <1>3, Invariance, PTL DEF Spec, DeletionSteps
=============================================================================
