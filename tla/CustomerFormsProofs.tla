------------------------- MODULE CustomerFormsProofs -------------------------
(***************************************************************************)
(* Proofs about CustomerForms and the goals and transactions of            *)
(* CustomerRecords behind it: a customer never has two active goals,       *)
(* entries are linked to their owner's goals and imported once, a goal     *)
(* gives way only to a request that is answered, outcomes are kept, and    *)
(* the phone replaces and relinks only what it was asked to; for any       *)
(* number of requests in flight, customers and files.  The forms keep the  *)
(* values of FormFields.  Then about StatementImport: the screen imports   *)
(* what was reviewed, and statements that overlap count each entry once,   *)
(* for any files.                                                          *)
(***************************************************************************)
EXTENDS CustomerForms, StatementImport, FiniteSetTheorems, FunctionTheorems, TLAPS

-----------------------------------------------------------------------------
(* The names of rows.                                                       *)
LEMMA Names ==
    /\ \A n \in 1..MaxRows : <<"goal", n>> \in Goal /\ <<"entry", n>> \in Entry
    /\ \A g \in Goal : g[2] \in 1..MaxRows /\ g = <<"goal", g[2]>>
    /\ \A x \in Entry : x[2] \in 1..MaxRows /\ x = <<"entry", x[2]>>
    /\ \A g \in Goal : g \notin Entry
    /\ Goal \subseteq Row /\ Entry \subseteq Row
  BY DEF Goal, Entry, Row

(* A draft without rows has no domain.                                      *)
LEMMA Empty == DOMAIN <<>> = {}
  OBVIOUS

(* What a request is made of.                                               *)
LEMMA RequestParts ==
    ASSUME NEW r \in Requests
    PROVE  /\ r.user \in User
           /\ r.op \in {"create", "update", "end", "record", "import", "revise", "remove"}
           /\ r.op = "update" => r.goal \in Goal /\ r.isActive \in BOOLEAN \cup {Same}
           /\ r.op = "end" => r.goal \in Goal /\ r.status \in Closed
           /\ r.op = "record" => r.goal \in Goal \cup {NoGoal}
           /\ r.op = "import" => r.goal \in Goal \cup {NoGoal} /\ r.file \in Files
           /\ r.op = "revise" => r.entry \in Entry /\ r.goal \in Goal \cup {NoGoal, Same}
           /\ r.op = "remove" => r.entry \in Entry
  <1>1. CASE r \in [op : {"create"}, user : User]
    BY <1>1
  <1>2. CASE r \in [op : {"update"}, user : User, goal : Goal, isActive : BOOLEAN \cup {Same}]
    BY <1>2
  <1>3. CASE r \in [op : {"end"}, user : User, goal : Goal, status : Closed]
    BY <1>3
  <1>4. CASE r \in [op : {"record"}, user : User, goal : Goal \cup {NoGoal}]
    BY <1>4
  <1>5. CASE r \in [op : {"import"}, user : User, goal : Goal \cup {NoGoal}, file : Files]
    BY <1>5
  <1>6. CASE r \in [op : {"revise"}, user : User, entry : Entry, goal : Goal \cup {NoGoal, Same}]
    BY <1>6
  <1>7. CASE r \in [op : {"remove"}, user : User, entry : Entry]
    BY <1>7
  <1> QED
    BY <1>1, <1>2, <1>3, <1>4, <1>5, <1>6, <1>7 DEF Requests

(* A request about an entry names one that is in the table.                 *)
LEMMA NamedEntry ==
    ASSUME NEW r \in Requests, r.op \in {"revise", "remove"}, Named(r)
    PROVE  db[r.entry] # Absent
  <1>1. CASE r \in [op : {"revise"}, user : User, entry : Entry, goal : Goal \cup {NoGoal, Same}]
    BY <1>1 DEF Named
  <1>2. CASE r \in [op : {"remove"}, user : User, entry : Entry]
    BY <1>2 DEF Named
  <1> QED
    BY <1>1, <1>2 DEF Requests

(* The rows that are written.                                               *)
LEMMA Values ==
    /\ Absent \notin GoalRows /\ Absent \notin EntryRows /\ NoGoal \notin Goal
    /\ Same \notin Goal /\ Same # NoGoal /\ Same \notin BOOLEAN
    /\ NoRequest.op = "none" /\ NoRequest \notin Requests
    /\ \A u \in User, g \in Goal \cup {NoGoal}, f \in Fingerprint \cup {NoGoal} :
          /\ EntryRow(u, g, f) \in EntryRows /\ EntryRow(u, g, f).owner = u
          /\ EntryRow(u, g, f).goal = g /\ EntryRow(u, g, f).print = f
  <1>1. NoRequest.op = "none" /\ NoRequest \notin Requests
    BY RequestParts DEF NoRequest
  <1>3. \A u \in User, g \in Goal \cup {NoGoal}, f \in Fingerprint \cup {NoGoal} :
          /\ EntryRow(u, g, f) \in EntryRows /\ EntryRow(u, g, f).owner = u
          /\ EntryRow(u, g, f).goal = g /\ EntryRow(u, g, f).print = f
    BY DEF EntryRow, EntryRows
  <1> QED
    BY <1>1, <1>3, ValuesApart

(* What becomes of a goal that another one replaces.                        *)
LEMMA ReplacedRow ==
    ASSUME NEW v \in GoalRows
    PROVE  /\ [v EXCEPT !.isActive = FALSE, !.status = "replaced"] \in GoalRows
           /\ [v EXCEPT !.isActive = FALSE, !.status = "replaced"].owner = v.owner
           /\ [v EXCEPT !.isActive = FALSE, !.status = "replaced"].isActive = FALSE
           /\ [v EXCEPT !.isActive = FALSE, !.status = "replaced"].status = "replaced"
  BY DEF GoalRows

(* The row that GoalsService.create inserts.                                *)
LEMMA NewRow ==
    ASSUME NEW u \in User
    PROVE  /\ GoalRow(u, TRUE, "active") \in GoalRows /\ GoalRow(u, TRUE, "active").owner = u
           /\ GoalRow(u, TRUE, "active").isActive = TRUE
           /\ GoalRow(u, TRUE, "active").status = "active"
  BY DEF GoalRow, GoalRows

(* The row that ending a goal writes.                                       *)
LEMMA EndedRow ==
    ASSUME NEW u \in User, NEW st \in Closed
    PROVE  /\ GoalRow(u, FALSE, st) \in GoalRows /\ GoalRow(u, FALSE, st).owner = u
           /\ GoalRow(u, FALSE, st).isActive = FALSE
  BY DEF GoalRow, GoalRows

(* Deactivating an inactive row changes nothing of it.                      *)
LEMMA SameRow ==
    ASSUME NEW v \in GoalRows, ~ v.isActive
    PROVE  [v EXCEPT !.isActive = FALSE] = v
  <1>1. v.isActive = FALSE
    BY DEF GoalRows
  <1> QED
    BY <1>1 DEF GoalRows

UpdateResult(r, existing, now, u) ==
    /\ u \in GoalRows /\ u.owner = now.owner
    /\ r.isActive = TRUE => u.isActive = TRUE /\ u.status = "active"
    /\ r.isActive = FALSE => u.isActive = FALSE
    /\ r.isActive = Same => u = now
    /\ r.isActive = FALSE /\ ~ existing.isActive /\ ~ now.isActive => u = now

(* GoalsService.update writes a goal of the same owner; it is active if     *)
(* asked to be, or if it was and is not asked otherwise.                    *)
LEMMA UpdatedRow ==
    ASSUME NEW r, r.isActive \in BOOLEAN \cup {Same}, NEW existing \in GoalRows, NEW now \in GoalRows
    PROVE  UpdateResult(r, existing, now, UpdatedGoal(r, existing, now))
  <1> DEFINE u == UpdatedGoal(r, existing, now)
  <1>1. CASE r.isActive = TRUE
    <2>1. u = [now EXCEPT !.isActive = TRUE, !.status = "active"]
      BY <1>1 DEF UpdatedGoal
    <2>2. TRUE # FALSE /\ r.isActive # FALSE /\ r.isActive # Same
      BY <1>1, ValuesApart
    <2> QED
      BY <1>1, <2>1, <2>2 DEF GoalRows, UpdateResult
  <1>2. CASE r.isActive = FALSE
    <2>1. u = IF existing.isActive THEN [now EXCEPT !.isActive = FALSE, !.status = "cancelled"]
              ELSE [now EXCEPT !.isActive = FALSE]
      BY <1>2 DEF UpdatedGoal
    <2>2. r.isActive # TRUE /\ r.isActive # Same
      BY <1>2, ValuesApart
    <2>3. u \in GoalRows /\ u.owner = now.owner /\ u.isActive = FALSE
      BY <2>1 DEF GoalRows, Closed
    <2>4. ~ existing.isActive /\ ~ now.isActive => u = now
      BY <2>1, SameRow
    <2> QED
      BY <1>2, <2>2, <2>3, <2>4 DEF UpdateResult
  <1>3. CASE r.isActive = Same
    <2>1. r.isActive # TRUE /\ r.isActive # FALSE
      BY <1>3, ValuesApart
    <2>2. u = now
      BY <2>1 DEF UpdatedGoal
    <2> QED
      BY <1>3, <2>1, <2>2 DEF GoalRows, UpdateResult
  <1> QED
    BY <1>1, <1>2, <1>3

-----------------------------------------------------------------------------
(* The parts of the invariant.                                              *)
Tables ==
    /\ DOMAIN db = Row
    /\ \A g \in Goal : db[g] \in GoalRows \cup {Absent}
    /\ \A x \in Entry : db[x] \in EntryRows \cup {Absent}
Locals ==
    /\ DOMAIN draft = Process /\ DOMAIN pc = Process /\ DOMAIN req = Process
    /\ DOMAIN found = Process /\ DOMAIN targets = Process
    /\ made \in [goal : Nat, entry : Nat] /\ handled \in Nat
Typed(p) ==
    /\ DOMAIN draft[p] \subseteq Goal
    /\ \A g \in DOMAIN draft[p] : draft[p][g] \in GoalRows
    /\ req[p] \in Requests \cup {NoRequest}
    /\ pc[p] = "idle" <=> req[p] = NoRequest
Fits(p) == Typed(p) /\ StatementFits(p) /\ CheckedHolds(p) /\ DraftFits(p)

ActiveOnce == \A u \in User : \A g, h \in Goal : IsActive(db[g], u) /\ IsActive(db[h], u) => g = h
Views ==
    /\ ActiveOnce /\ \A g \in Goal : StatusFits(db[g])
    /\ \A p \in Process : OneInView(p) /\ \A g \in DOMAIN draft[p] : StatusFits(draft[p][g])
    /\ LockedByOne /\ OneActivates

(* The invariant of the records, taken apart by request.                    *)
LEMMA Parts ==
    IInv <=> /\ Tables /\ Locals /\ Views /\ IdsFresh /\ EntriesSound
             /\ \A p \in Process : Fits(p)
  <1>1. Frame /\ TypeOK <=> Tables /\ Locals /\ \A p \in Process : Typed(p)
    BY DEF Frame, TypeOK, Tables, Locals, Typed
  <1>2. ASSUME Tables
        PROVE  OneActiveGoal <=> ActiveOnce /\ \A g \in Goal : StatusFits(db[g])
    <2>1. \A g \in Goal : db[g] # Absent => db[g] \in GoalRows /\ db[g].owner \in User
      BY <1>2 DEF Tables, GoalRows
    <2>2. (\A g, h \in Goal : db[g] # Absent /\ db[h] # Absent /\ g # h =>
              ~ (db[g].isActive /\ db[h].isActive /\ db[g].owner = db[h].owner)) <=> ActiveOnce
      BY <2>1 DEF ActiveOnce, IsActive, Owned
    <2>3. (\A g \in Goal : db[g] # Absent /\ db[g].isActive => db[g].status = "active")
              <=> \A g \in Goal : StatusFits(db[g])
      BY <2>1, Values DEF StatusFits
    <2> QED
      BY <2>2, <2>3 DEF OneActiveGoal
  <1> QED
    BY <1>1, <1>2 DEF IInv, Views, Fits

(* The same after a step: enough that every part holds again.               *)
LEMMA PartsKept ==
    ASSUME Tables', Locals', Views', IdsFresh', EntriesSound', \A p \in Process : Fits(p)'
    PROVE  IInv'
  <1>1. Frame' /\ TypeOK'
    BY DEF Frame, TypeOK, Tables, Locals, Typed, Fits
  <1>2. OneActiveGoal'
    <2>1. \A g \in Goal : db'[g] # Absent => db'[g] \in GoalRows /\ db'[g].owner \in User
      BY DEF Tables, GoalRows
    <2>2. \A g, h \in Goal : db'[g] # Absent /\ db'[h] # Absent /\ g # h =>
              ~ (db'[g].isActive /\ db'[h].isActive /\ db'[g].owner = db'[h].owner)
      BY <2>1 DEF Views, ActiveOnce, IsActive, Owned
    <2>3. \A g \in Goal : db'[g] # Absent /\ db'[g].isActive => db'[g].status = "active"
      BY <2>1 DEF Views, StatusFits
    <2> QED
      BY <2>2, <2>3 DEF OneActiveGoal
  <1> QED
    BY <1>1, <1>2 DEF IInv, Views, Fits

(* What a statement reads.                                                  *)
LEMMA SeenRow ==
    ASSUME Tables, NEW p \in Process, Typed(p), NEW r \in Row
    PROVE  Seen(p)[r] = IF r \in DOMAIN draft[p] THEN draft[p][r] ELSE db[r]
  BY DEF Seen, Over, Tables

(* What a transaction sees of one row, after the step.                      *)
LEMMA SeenRowNext ==
    ASSUME Tables', NEW p \in Process, Typed(p)', NEW r \in Row
    PROVE  Seen(p)'[r] = IF r \in DOMAIN draft'[p] THEN draft'[p][r] ELSE db'[r]
  BY DEF Seen, Over, Tables

(* The same, of all active goals in a view.                                 *)
ActiveFor(d, rows, g, u) == IF g \in DOMAIN d THEN IsActive(d[g], u) ELSE IsActive(rows[g], u)
Single(d, rows) ==
    \A u \in User : \A g, h \in Goal : ActiveFor(d, rows, g, u) /\ ActiveFor(d, rows, h, u) => g = h

(* One active goal per customer in what a transaction sees, row by row.     *)
LEMMA ViewParts ==
    ASSUME Tables, NEW p \in Process, Typed(p)
    PROVE  OneInView(p) <=> Single(draft[p], db)
  <1>1. \A g \in Goal, u \in User : IsActive(Seen(p)[g], u) <=> ActiveFor(draft[p], db, g, u)
    BY SeenRow, Names DEF ActiveFor
  <1> QED
    BY <1>1 DEF OneInView, Single

(* The same, after the step.                                                *)
LEMMA ViewPartsNext ==
    ASSUME Tables', NEW p \in Process, Typed(p)'
    PROVE  OneInView(p)' <=> Single(draft'[p], db')
  <1>1. \A g \in Goal, u \in User : IsActive(Seen(p)'[g], u) <=> ActiveFor(draft'[p], db', g, u)
    BY SeenRowNext, Names DEF ActiveFor
  <1> QED
    BY <1>1 DEF OneInView, Single

-----------------------------------------------------------------------------
(* One request moves, and the others rely on what it does to the tables.    *)
SameFor(q) ==
    pc'[q] = pc[q] /\ req'[q] = req[q] /\ found'[q] = found[q] /\ targets'[q] = targets[q]
OthersSame(p) == \A q \in Process \ {p} : SameFor(q) /\ draft'[q] = draft[q]

GoalsStay == \A g \in Goal : db[g] # Absent => db'[g] # Absent /\ db'[g].owner = db[g].owner
EntriesStay ==
    /\ made'.entry >= made.entry
    /\ \A x \in Entry : x[2] <= made.entry /\ db'[x] # Absent =>
          db[x] # Absent /\ db'[x].owner = db[x].owner
LockedStay(q) == \A g \in DOMAIN draft[q] : db'[g] = db[g]

(* A request that a step leaves alone, with its locked rows, still fits.    *)
LEMMA Unconcerned ==
    ASSUME NEW q \in Process, Locals, Locals', Fits(q), SameFor(q), draft'[q] = draft[q],
           GoalsStay, EntriesStay, LockedStay(q)
    PROVE  Fits(q)'
  <1>1. Typed(q)' /\ StatementFits(q)'
    BY DEF Fits, Typed, StatementFits, SameFor
  <1>2. req[q] # NoRequest => req[q] \in Requests
    BY DEF Fits, Typed
  <1>3. DraftFits(q)'
    <2>1. ASSUME NEW g \in DOMAIN draft[q]
          PROVE  /\ Replaced(q, g) <=> Replaced(q, g)'
                 /\ Done(q, g) <=> Done(q, g)'
      <3>1. db'[g] = db[g] /\ draft'[q][g] = draft[q][g]
        BY DEF LockedStay
      <3>2. req'[q] = req[q] /\ found'[q] = found[q]
        BY DEF SameFor
      <3>3. Replaced(q, g) <=> Replaced(q, g)'
        BY <3>1, <3>2 DEF Replaced
      <3>4. Done(q, g) <=> Done(q, g)'
        BY <3>1, <3>2 DEF Done
      <3> QED
        BY <3>3, <3>4
    <2>2. pc'[q] = pc[q] /\ req'[q] = req[q] /\ DOMAIN draft'[q] = DOMAIN draft[q]
      BY DEF SameFor
    <2>3. DraftFits(q)
      BY DEF Fits
    <2> QED
      BY <2>1, <2>2, <2>3 DEF DraftFits
  <1>4. made.entry \in Nat /\ made'.entry \in Nat /\ made'.entry >= made.entry
    BY DEF Locals, EntriesStay
  <1>5. pc[q] \in {"check", "store"} /\ req[q].op = "revise" =>
           /\ req[q].entry \in Entry /\ req[q].entry[2] <= made.entry
           /\ req[q].entry[2] <= made'.entry
    <2> SUFFICES ASSUME pc[q] \in {"check", "store"}, req[q].op = "revise"
                 PROVE  /\ req[q].entry \in Entry /\ req[q].entry[2] <= made.entry
                        /\ req[q].entry[2] <= made'.entry
      OBVIOUS
    <2>1. req[q].entry \in Entry
      BY <1>2, RequestParts, Values
    <2>2. req[q].entry[2] \in Nat /\ req[q].entry[2] <= made.entry
      BY <2>1, Names DEF Fits, CheckedHolds
    <2> QED
      BY <1>4, <2>1, <2>2
  <1>6. pc[q] \in {"scan", "replace", "write", "commit"} /\ req[q].op \in {"update", "end"} =>
          Owned(db'[req[q].goal], req[q].user) /\ found[q] \in GoalRows
    <2>1. req[q].op \in {"update", "end"} => req[q].goal \in Goal
      BY <1>2, RequestParts, Values
    <2> QED
      BY <2>1 DEF Fits, CheckedHolds, Owned, GoalsStay
  <1>7. pc[q] \in {"preview", "confirm", "store"} =>
          /\ req[q].op # "remove" /\ req[q].goal \in Goal => Owned(db'[req[q].goal], req[q].user)
          /\ req[q].op = "revise" => db'[req[q].entry] = Absent \/ Owned(db'[req[q].entry], req[q].user)
    <2>1. ASSUME pc[q] \in {"preview", "confirm", "store"}
          PROVE  /\ req[q].op # "remove" /\ req[q].goal \in Goal => Owned(db[req[q].goal], req[q].user)
                 /\ req[q].op = "revise" => db[req[q].entry] = Absent \/ Owned(db[req[q].entry], req[q].user)
      BY <2>1 DEF Fits, CheckedHolds
    <2>2. ASSUME pc[q] \in {"preview", "confirm", "store"}, req[q].op = "revise"
          PROVE  db'[req[q].entry] = Absent \/ Owned(db'[req[q].entry], req[q].user)
      <3>1. pc[q] = "store"
        BY <2>2 DEF Fits, StatementFits
      <3> QED
        BY <1>5, <2>1, <2>2, <3>1 DEF Owned, EntriesStay
    <2> QED
      BY <2>1, <2>2 DEF Owned, GoalsStay
  <1>8. CheckedHolds(q)'
    BY <1>5, <1>6, <1>7 DEF Fits, CheckedHolds, SameFor
  <1> QED
    BY <1>1, <1>3, <1>8 DEF Fits

(* A step of one request: only that one has to be looked at.                *)
LEMMA RequestStep ==
    ASSUME IInv, NEW p \in Process, OthersSame(p), GoalsStay, EntriesStay,
           \A q \in Process \ {p} : LockedStay(q),
           Fits(p)', Tables', Locals', Views', IdsFresh', EntriesSound'
    PROVE  IInv'
  <1>1. \A q \in Process : Fits(q)'
    BY Parts, Unconcerned DEF OthersSame
  <1> QED
    BY <1>1, PartsKept

-----------------------------------------------------------------------------
(* The views of a customer's goals, by what a statement does to the tables. *)
LEMMA ViewsUnread ==
    ASSUME IInv, Tables', \A q \in Process : Typed(q)',
           \A g \in Goal : db'[g] = db[g],
           \A q \in Process : draft'[q] = draft[q]
    PROVE  Views'
  <1>1. Tables /\ Views /\ \A q \in Process : Typed(q)
    BY Parts DEF Fits
  <1>2. ActiveOnce' /\ \A g \in Goal : StatusFits(db'[g])
    BY <1>1 DEF Views, ActiveOnce
  <1>3. ASSUME NEW q \in Process
        PROVE  OneInView(q)' /\ \A g \in DOMAIN draft'[q] : StatusFits(draft'[q][g])
    <2>1. Single(draft[q], db)
      BY <1>1, ViewParts DEF Views
    <2>2. Single(draft'[q], db')
      BY <2>1 DEF Single, ActiveFor
    <2> QED
      BY <1>1, <2>2, ViewPartsNext DEF Views
  <1>4. LockedByOne' /\ OneActivates'
    BY <1>1 DEF Views, LockedByOne, OneActivates, Activates
  <1> QED
    BY <1>2, <1>3, <1>4 DEF Views

(* A transaction that ends without a commit.                                *)
LEMMA ViewsRolledBack ==
    ASSUME IInv, Tables', \A q \in Process : Typed(q)', NEW p \in Process,
           db' = db, DOMAIN draft'[p] = {},
           \A q \in Process \ {p} : draft'[q] = draft[q]
    PROVE  Views'
  <1>1. Tables /\ Views /\ \A q \in Process : Typed(q)
    BY Parts DEF Fits
  <1>2. ActiveOnce' /\ \A g \in Goal : StatusFits(db'[g])
    BY <1>1 DEF Views, ActiveOnce
  <1>3. ASSUME NEW q \in Process
        PROVE  OneInView(q)' /\ \A g \in DOMAIN draft'[q] : StatusFits(draft'[q][g])
    <2>1. CASE q = p
      <3>1. Single(draft'[p], db')
        BY <1>1 DEF Views, ActiveOnce, Single, ActiveFor
      <3> QED
        BY <2>1, <3>1, ViewPartsNext
    <2>2. CASE q # p
      <3>1. Single(draft[q], db)
        BY <1>1, ViewParts DEF Views
      <3>2. Single(draft'[q], db')
        BY <2>2, <3>1 DEF Single, ActiveFor
      <3> QED
        BY <1>1, <2>2, <3>2, ViewPartsNext DEF Views
    <2> QED
      BY <2>1, <2>2
  <1>4. LockedByOne'
    BY <1>1 DEF Views, LockedByOne
  <1>5. OneActivates'
    BY <1>1 DEF Views, OneActivates, Activates
  <1> QED
    BY <1>2, <1>3, <1>4, <1>5 DEF Views

(* A commit makes the view of the transaction what the others read.         *)
LEMMA ViewsCommitted ==
    ASSUME IInv, Tables', \A q \in Process : Typed(q)', NEW p \in Process,
           \A g \in Goal : db'[g] = Seen(p)[g], DOMAIN draft'[p] = {},
           \A q \in Process \ {p} : draft'[q] = draft[q]
    PROVE  Views'
  <1>1. Tables /\ Views /\ \A q \in Process : Typed(q)
    BY Parts DEF Fits
  <1>2. \A g \in Goal : db'[g] = IF g \in DOMAIN draft[p] THEN draft[p][g] ELSE db[g]
    BY <1>1, SeenRow, Names
  <1>3. Single(draft[p], db)
    BY <1>1, ViewParts DEF Views
  <1>4. \A g \in Goal, u \in User : IsActive(db'[g], u) <=> ActiveFor(draft[p], db, g, u)
    BY <1>2 DEF ActiveFor
  <1>5. ActiveOnce'
    BY <1>3, <1>4 DEF ActiveOnce, Single
  <1>6. \A g \in Goal : StatusFits(db'[g])
    BY <1>1, <1>2 DEF Views
  <1>7. ASSUME NEW q \in Process
        PROVE  OneInView(q)' /\ \A g \in DOMAIN draft'[q] : StatusFits(draft'[q][g])
    <2>1. CASE q = p
      <3>1. Single(draft'[p], db')
        BY <1>5 DEF ActiveOnce, Single, ActiveFor
      <3> QED
        BY <2>1, <3>1, ViewPartsNext
    <2>2. CASE q # p
      <3>1. Single(draft[q], db)
        BY <1>1, ViewParts DEF Views
      <3>2. ASSUME NEW u \in User, NEW g \in Goal, NEW h \in Goal,
                   ActiveFor(draft'[q], db', g, u), ActiveFor(draft'[q], db', h, u)
            PROVE  g = h
        <4>1. draft'[q] = draft[q] /\ DOMAIN draft[p] \cap DOMAIN draft[q] = {}
          BY <1>1, <2>2 DEF Views, LockedByOne
        <4>2. CASE Activates(q, u)
          <5>1. ~ Activates(p, u)
            BY <1>1, <2>2, <4>2 DEF Views, OneActivates
          <5>2. ActiveFor(draft[q], db, g, u) /\ ActiveFor(draft[q], db, h, u)
            BY <1>2, <3>2, <4>1, <5>1 DEF ActiveFor, Activates
          <5> QED
            BY <3>1, <5>2 DEF Single
        <4>3. CASE ~ Activates(q, u)
          <5>1. IsActive(db'[g], u) /\ IsActive(db'[h], u)
            BY <3>2, <4>1, <4>3 DEF ActiveFor, Activates
          <5> QED
            BY <1>5, <5>1 DEF ActiveOnce
        <4> QED
          BY <4>2, <4>3
      <3>3. Single(draft'[q], db')
        BY <3>2 DEF Single
      <3> QED
        BY <1>1, <2>2, <3>3, ViewPartsNext DEF Views
    <2> QED
      BY <2>1, <2>2
  <1>8. LockedByOne' /\ OneActivates'
    BY <1>1 DEF Views, LockedByOne, OneActivates, Activates
  <1> QED
    BY <1>5, <1>6, <1>7, <1>8 DEF Views

(* A statement writes one more goal into the draft.                         *)
LEMMA ViewsStaged ==
    ASSUME IInv, Tables', \A q \in Process : Typed(q)', NEW p \in Process, NEW g \in Goal, NEW v,
           db' = db, StatusFits(v),
           DOMAIN draft'[p] = DOMAIN draft[p] \cup {g}, draft'[p][g] = v,
           \A h \in DOMAIN draft[p] \ {g} : draft'[p][h] = draft[p][h],
           \A q \in Process \ {p} : draft'[q] = draft[q] /\ g \notin DOMAIN draft[q],
           \A u \in User : IsActive(v, u) =>
              /\ \A q \in Process \ {p} : ~ Activates(q, u)
              /\ \A h \in Goal \ {g} : ~ IsActive(Seen(p)[h], u)
    PROVE  Views'
  <1>1. Tables /\ Views /\ \A q \in Process : Typed(q)
    BY Parts DEF Fits
  <1>2. ActiveOnce' /\ \A h \in Goal : StatusFits(db'[h])
    BY <1>1 DEF Views, ActiveOnce
  <1>3. ASSUME NEW q \in Process
        PROVE  OneInView(q)' /\ \A h \in DOMAIN draft'[q] : StatusFits(draft'[q][h])
    <2>1. Single(draft[q], db)
      BY <1>1, ViewParts DEF Views
    <2>2. CASE q = p
      <3>1. \A h \in Goal \ {g}, u \in User : ActiveFor(draft'[p], db', h, u) <=> ActiveFor(draft[p], db, h, u)
        BY DEF ActiveFor
      <3>2. \A u \in User : ActiveFor(draft'[p], db', g, u) <=> IsActive(v, u)
        BY DEF ActiveFor
      <3>3. \A h \in Goal \ {g}, u \in User : IsActive(v, u) => ~ ActiveFor(draft[p], db, h, u)
        BY <1>1, SeenRow, Names DEF ActiveFor
      <3>4. Single(draft'[p], db')
        BY <2>1, <2>2, <3>1, <3>2, <3>3 DEF Single
      <3>5. \A h \in DOMAIN draft'[p] : StatusFits(draft'[p][h])
        BY <1>1 DEF Views
      <3> QED
        BY <2>2, <3>4, <3>5, ViewPartsNext
    <2>3. CASE q # p
      <3>1. Single(draft'[q], db')
        BY <2>1, <2>3 DEF Single, ActiveFor
      <3> QED
        BY <1>1, <2>3, <3>1, ViewPartsNext DEF Views
    <2> QED
      BY <2>2, <2>3
  <1>4. LockedByOne'
    BY <1>1 DEF Views, LockedByOne
  <1>5. OneActivates'
    <2>1. \A u \in User, q \in Process : Activates(q, u)' =>
              Activates(q, u) \/ (q = p /\ IsActive(v, u))
      BY DEF Activates
    <2> QED
      BY <1>1, <2>1 DEF Views, OneActivates
  <1> QED
    BY <1>2, <1>3, <1>4, <1>5 DEF Views

-----------------------------------------------------------------------------
(* Ids: how many requests will still create goals, or store entries.        *)
FreshGoals ==
    \A n \in 1..MaxRows : n > made.goal =>
        db[<<"goal", n>>] = Absent /\ \A p \in Process : <<"goal", n>> \notin DOMAIN draft[p]
FreshEntries == \A n \in 1..MaxRows : n > made.entry => db[<<"entry", n>>] = Absent
CountsFit ==
    /\ IsFiniteSet(Creating) /\ IsFiniteSet(Storing)
    /\ made.goal + Cardinality(Creating) <= handled + 1
    /\ made.entry + 2 * Cardinality(Storing) <= 2 * handled
    /\ handled <= MaxRequests

(* Ids that are not given out yet name no row, and there are enough.        *)
LEMMA IdParts == IdsFresh <=> FreshGoals /\ FreshEntries /\ CountsFit
  BY DEF IdsFresh, FreshGoals, FreshEntries, CountsFit

(* The same, after the step.                                                *)
LEMMA IdPartsNext ==
    ASSUME FreshGoals', FreshEntries', CountsFit'
    PROVE  IdsFresh'
  BY DEF IdsFresh, FreshGoals, FreshEntries, CountsFit

One(b) == IF b THEN 1 ELSE 0

(* A set that differs from a finite one in one element only.                *)
LEMMA OneMoved ==
    ASSUME NEW S, NEW T, NEW e, IsFiniteSet(S), S \ {e} = T \ {e}
    PROVE  /\ IsFiniteSet(T)
           /\ Cardinality(S) \in Nat /\ Cardinality(T) \in Nat
           /\ Cardinality(T) + One(e \in S) = Cardinality(S) + One(e \in T)
  <1>1. IsFiniteSet(S \ {e})
        /\ Cardinality(S \ {e}) = IF e \in S THEN Cardinality(S) - 1 ELSE Cardinality(S)
    BY FS_RemoveElement
  <1>2. IsFiniteSet((T \ {e}) \cup {e})
        /\ Cardinality((T \ {e}) \cup {e}) = Cardinality(T \ {e}) + 1
    BY <1>1, FS_AddElement
  <1>3. e \in T => T = (T \ {e}) \cup {e}
    OBVIOUS
  <1>4. e \notin T => T = T \ {e}
    OBVIOUS
  <1>5. IsFiniteSet(T)
    BY <1>1, <1>2, <1>3, <1>4
  <1>6. Cardinality(S) \in Nat /\ Cardinality(T) \in Nat
    BY <1>5, FS_CardinalityType
  <1>7. Cardinality(T) = IF e \in T THEN Cardinality(S \ {e}) + 1 ELSE Cardinality(S \ {e})
    BY <1>1, <1>2, <1>3, <1>4
  <1> QED
    BY <1>1, <1>5, <1>6, <1>7 DEF One

(* There is room for what is still to be inserted if a step gives out no    *)
(* more ids than requests it uses up.                                       *)
LEMMA CountsKept ==
    ASSUME IInv, NEW p \in Process, OthersSame(p), Locals',
           made'.goal + One(p \in Creating') + handled <= made.goal + One(p \in Creating) + handled',
           made'.entry + 2 * One(p \in Storing') + 2 * handled
               <= made.entry + 2 * One(p \in Storing) + 2 * handled',
           handled' <= MaxRequests
    PROVE  CountsFit'
  <1>1. CountsFit /\ Locals
    BY Parts, IdParts
  <1>2. Creating \ {p} = Creating' \ {p} /\ Storing \ {p} = Storing' \ {p}
    BY DEF Creating, Storing, OthersSame, SameFor
  <1>3. /\ IsFiniteSet(Creating')
        /\ Cardinality(Creating) \in Nat /\ Cardinality(Creating') \in Nat
        /\ Cardinality(Creating') + One(p \in Creating) = Cardinality(Creating) + One(p \in Creating')
    BY <1>1, <1>2, OneMoved DEF CountsFit
  <1>4. /\ IsFiniteSet(Storing')
        /\ Cardinality(Storing) \in Nat /\ Cardinality(Storing') \in Nat
        /\ Cardinality(Storing') + One(p \in Storing) = Cardinality(Storing) + One(p \in Storing')
    BY <1>1, <1>2, OneMoved DEF CountsFit
  <1>5. made.goal \in Nat /\ made.entry \in Nat /\ made'.goal \in Nat /\ made'.entry \in Nat
        /\ handled \in Nat /\ handled' \in Nat
    BY <1>1 DEF Locals
  <1>6. made'.goal + Cardinality(Creating') <= handled' + 1
    BY <1>1, <1>3, <1>5 DEF CountsFit, One
  <1>7. made'.entry + 2 * Cardinality(Storing') <= 2 * handled'
    BY <1>1, <1>4, <1>5 DEF CountsFit, One
  <1> QED
    BY <1>3, <1>4, <1>6, <1>7 DEF CountsFit

(* There is an id for every goal and entry a request creates.               *)
LEMMA Room ==
    ASSUME IInv, NEW p \in Process
    PROVE  /\ made.goal \in Nat /\ made.entry \in Nat /\ handled \in Nat
           /\ p \in Creating => made.goal + 1 \in 1..MaxRows
           /\ p \in Storing => made.entry + 1 \in 1..MaxRows /\ made.entry + 2 \in 1..MaxRows
  <1>1. CountsFit /\ Locals
    BY Parts, IdParts
  <1>2. made.goal \in Nat /\ made.entry \in Nat /\ handled \in Nat
    BY <1>1 DEF Locals
  <1>3. Cardinality(Creating) \in Nat /\ Cardinality(Storing) \in Nat
    BY <1>1, FS_CardinalityType DEF CountsFit
  <1>4. p \in Creating => Cardinality(Creating) >= 1
    <2>1. p \in Creating => Creating # {}
      OBVIOUS
    <2> QED
      BY <1>1, <1>3, <2>1, FS_EmptySet DEF CountsFit
  <1>5. p \in Storing => Cardinality(Storing) >= 1
    <2>1. p \in Storing => Storing # {}
      OBVIOUS
    <2> QED
      BY <1>1, <1>3, <2>1, FS_EmptySet DEF CountsFit
  <1> QED
    BY <1>1, <1>2, <1>3, <1>4, <1>5, RoomForAll DEF CountsFit

-----------------------------------------------------------------------------
(* The statements, by what they do to the tables.                           *)
LEMMA AllTyped ==
    ASSUME IInv, NEW p \in Process, OthersSame(p), Typed(p)'
    PROVE  \A q \in Process : Typed(q)'
  <1>1. \A q \in Process : Typed(q)
    BY Parts DEF Fits
  <1> QED
    BY <1>1 DEF Typed, OthersSame, SameFor

(* Entries stay sound where no entry changes and goals stay with their      *)
(* owners.                                                                  *)
LEMMA EntriesKept ==
    ASSUME EntriesSound, Tables, GoalsStay, \A x \in Entry : db'[x] = db[x]
    PROVE  EntriesSound'
  <1>1. \A x \in Entry : db[x] # Absent => db[x].goal \in Goal \cup {NoGoal}
    BY DEF Tables, EntryRows
  <1>2. EntriesOwned'
    BY <1>1 DEF EntriesSound, EntriesOwned, Owned, GoalsStay
  <1>3. ImportedOnce'
    BY DEF EntriesSound, ImportedOnce
  <1> QED
    BY <1>2, <1>3 DEF EntriesSound

(* A statement that only reads.                                             *)
LEMMA ReadStep ==
    ASSUME IInv, NEW p \in Process, OthersSame(p), db' = db, draft' = draft, made' = made,
           Locals', Fits(p)', CountsFit'
    PROVE  IInv'
  <1>1. Tables /\ Views /\ IdsFresh /\ EntriesSound /\ Locals
    BY Parts
  <1>2. Tables'
    BY <1>1 DEF Tables
  <1>3. GoalsStay
    BY DEF GoalsStay
  <1>4. EntriesStay
    <2>1. made.entry \in Nat
      BY <1>1 DEF Locals
    <2> QED
      BY <2>1 DEF EntriesStay
  <1>5. EntriesSound'
    BY <1>1, <1>3, EntriesKept
  <1>6. \A q \in Process : Typed(q)'
    BY AllTyped DEF Fits
  <1>7. Views'
    BY <1>2, <1>6, ViewsUnread
  <1>8. IdsFresh'
    <2>1. FreshGoals' /\ FreshEntries'
      BY <1>1, IdParts DEF FreshGoals, FreshEntries
    <2> QED
      BY <2>1, IdPartsNext
  <1>9. \A q \in Process \ {p} : LockedStay(q)
    BY DEF LockedStay
  <1> QED
    BY <1>2, <1>3, <1>4, <1>5, <1>7, <1>8, <1>9, RequestStep

(* The end of a request.                                                    *)
LEMMA Forgotten ==
    ASSUME IInv, NEW p \in Process, Forget(p), DOMAIN draft' = Process, DOMAIN draft'[p] = {},
           made' \in [goal : Nat, entry : Nat]
    PROVE  /\ Locals' /\ Fits(p)'
           /\ p \notin Creating' /\ p \notin Storing' /\ handled' = handled
           /\ \A q \in Process \ {p} : SameFor(q)
  <1>1. Locals
    BY Parts
  <1>2. /\ pc'[p] = "idle" /\ req'[p] = NoRequest /\ handled' = handled
        /\ \A q \in Process \ {p} : SameFor(q)
    BY <1>1 DEF Forget, Locals, SameFor
  <1>3. Locals'
    BY <1>1 DEF Forget, Locals
  <1>4. Typed(p)'
    BY <1>2 DEF Typed
  <1>5. StatementFits(p)'
    BY <1>2, Values DEF StatementFits
  <1>6. CheckedHolds(p)'
    BY <1>2 DEF CheckedHolds
  <1>7. DraftFits(p)'
    BY <1>2 DEF DraftFits
  <1>8. p \notin Creating' /\ p \notin Storing'
    BY <1>2 DEF Creating, Storing
  <1> QED
    BY <1>2, <1>3, <1>4, <1>5, <1>6, <1>7, <1>8 DEF Fits

(* There is room as before when a step gives out no id.                     *)
LEMMA CountsUnmoved ==
    ASSUME IInv, NEW p \in Process, OthersSame(p), Locals', made' = made, handled' = handled,
           p \in Creating' => p \in Creating, p \in Storing' => p \in Storing
    PROVE  CountsFit'
  <1>1. CountsFit /\ Locals
    BY Parts, IdParts
  <1>2. made.goal \in Nat /\ made.entry \in Nat /\ handled \in Nat
    BY <1>1 DEF Locals
  <1>3. handled' <= MaxRequests
    BY <1>1 DEF CountsFit
  <1>4. /\ made'.goal + One(p \in Creating') + handled <= made.goal + One(p \in Creating) + handled'
        /\ made'.entry + 2 * One(p \in Storing') + 2 * handled
               <= made.entry + 2 * One(p \in Storing) + 2 * handled'
    BY <1>2 DEF One
  <1> QED
    BY <1>3, <1>4, CountsKept

(* A statement that fails rolls its transaction back and ends the request.  *)
LEMMA Failed ==
    ASSUME IInv, NEW p \in Process, Fail(p)
    PROVE  IInv'
  <1>1. Tables /\ Views /\ IdsFresh /\ EntriesSound /\ Locals
    BY Parts
  <1>2. /\ db' = db /\ made' = made /\ DOMAIN draft' = Process /\ draft'[p] = <<>>
        /\ \A q \in Process \ {p} : draft'[q] = draft[q]
    BY <1>1 DEF Fail, Rollback, Release, Locals
  <1>3. DOMAIN draft'[p] = {}
    BY <1>2, Empty
  <1>4. Forget(p) /\ made' \in [goal : Nat, entry : Nat]
    BY <1>1, <1>2 DEF Fail, Locals
  <1>5. /\ Locals' /\ Fits(p)' /\ p \notin Creating' /\ p \notin Storing' /\ handled' = handled
        /\ \A q \in Process \ {p} : SameFor(q)
    BY <1>2, <1>3, <1>4, Forgotten
  <1>6. OthersSame(p)
    BY <1>2, <1>5 DEF OthersSame
  <1>7. Tables' /\ GoalsStay /\ \A q \in Process \ {p} : LockedStay(q)
    BY <1>1, <1>2 DEF Tables, GoalsStay, LockedStay
  <1>8. EntriesStay
    <2>1. made.entry \in Nat
      BY <1>1 DEF Locals
    <2> QED
      BY <1>2, <2>1 DEF EntriesStay
  <1>9. EntriesSound'
    BY <1>1, <1>2, <1>7, EntriesKept
  <1>10. Views'
    <2>1. \A q \in Process : Typed(q)'
      BY <1>5, <1>6, AllTyped DEF Fits
    <2> QED
      BY <1>2, <1>3, <1>7, <2>1, ViewsRolledBack
  <1>11. IdsFresh'
    <2>1. FreshGoals' /\ FreshEntries'
      BY <1>1, <1>2, <1>3, IdParts DEF FreshGoals, FreshEntries
    <2>2. CountsFit'
      BY <1>2, <1>5, <1>6, CountsUnmoved
    <2> QED
      BY <2>1, <2>2, IdPartsNext
  <1> QED
    BY <1>5, <1>6, <1>7, <1>8, <1>9, <1>10, <1>11, RequestStep

(* A statement of TransactionsService that writes.                          *)
LEMMA EntryStep ==
    ASSUME IInv, NEW p \in Process, pc[p] \in {"store", "confirm"}, Forget(p), draft' = draft,
           DOMAIN db' = Row, \A g \in Goal : db'[g] = db[g],
           \A x \in Entry : db'[x] \in EntryRows \cup {Absent},
           made' \in [goal : Nat, entry : Nat], made'.goal = made.goal,
           made'.entry <= made.entry + 2 * One(p \in Storing),
           EntriesStay, FreshEntries', EntriesSound'
    PROVE  IInv'
  <1>1. Tables /\ Views /\ IdsFresh /\ EntriesSound /\ Locals /\ Fits(p)
    BY Parts
  <1>2. DOMAIN draft'[p] = {}
    BY <1>1 DEF Fits, DraftFits
  <1>3. DOMAIN draft' = Process
    BY <1>1 DEF Locals
  <1>4. /\ Locals' /\ Fits(p)' /\ p \notin Creating' /\ p \notin Storing' /\ handled' = handled
        /\ \A q \in Process \ {p} : SameFor(q)
    BY <1>2, <1>3, Forgotten
  <1>5. OthersSame(p)
    BY <1>4 DEF OthersSame
  <1>6. Tables' /\ GoalsStay
    BY <1>1 DEF Tables, GoalsStay
  <1>7. \A q \in Process \ {p} : LockedStay(q)
    BY Parts DEF LockedStay, Fits, Typed
  <1>8. Views'
    <2>1. \A q \in Process : Typed(q)'
      BY <1>4, <1>5, AllTyped DEF Fits
    <2> QED
      BY <1>6, <2>1, ViewsUnread
  <1>9. IdsFresh'
    <2>1. FreshGoals'
      BY <1>1, IdParts, Names DEF FreshGoals
    <2>2. CountsFit /\ made.goal \in Nat /\ made.entry \in Nat /\ handled \in Nat /\ made'.entry \in Nat
      BY <1>1, <1>4, IdParts DEF Locals
    <2>3. CountsFit'
      <3>1. handled' <= MaxRequests
        BY <1>4, <2>2 DEF CountsFit
      <3>2. /\ made'.goal + One(p \in Creating') + handled <= made.goal + One(p \in Creating) + handled'
            /\ made'.entry + 2 * One(p \in Storing') + 2 * handled
                   <= made.entry + 2 * One(p \in Storing) + 2 * handled'
        BY <1>4, <2>2 DEF One
      <3> QED
        BY <1>4, <1>5, <3>1, <3>2, CountsKept
    <2> QED
      BY <2>1, <2>3, IdPartsNext
  <1> QED
    BY <1>4, <1>5, <1>6, <1>7, <1>8, <1>9, RequestStep

-----------------------------------------------------------------------------
(* The statements of TransactionsService.                                   *)
LEMMA RequestOf ==
    ASSUME IInv, NEW p \in Process, pc[p] # "idle"
    PROVE  req[p] \in Requests /\ req[p].user \in User
  <1>1. req[p] \in Requests
    BY Parts DEF Fits, Typed
  <1> QED
    BY <1>1, RequestParts

(* The ownership checks, before an entry is stored or removed.              *)
LEMMA Checked ==
    ASSUME IInv, NEW p \in Process, EnsureOwned(p)
    PROVE  IInv'
  <1>1. CASE Fail(p)
    BY <1>1, Failed
  <1>2. CASE ~ Fail(p)
    <2>1. Locals /\ Fits(p) /\ CountsFit
      BY Parts, IdParts
    <2>2. req[p] \in Requests /\ pc[p] = "check"
      BY RequestOf DEF EnsureOwned
    <2>3. /\ req[p].op # "remove" /\ req[p].goal \in Goal => Owned(db[req[p].goal], req[p].user)
          /\ req[p].op \in {"revise", "remove"} => Owned(db[req[p].entry], req[p].user)
          /\ Step(p, "check", IF req[p].op = "import" THEN "preview" ELSE "store")
          /\ UNCHANGED <<txVars, req, found, targets, made, handled>>
      BY <1>2 DEF EnsureOwned
    <2>4. /\ pc'[p] = IF req[p].op = "import" THEN "preview" ELSE "store"
          /\ req' = req /\ found' = found /\ targets' = targets /\ made' = made /\ handled' = handled
          /\ db' = db /\ draft' = draft /\ DOMAIN pc' = Process
          /\ \A q \in Process \ {p} : pc'[q] = pc[q]
      BY <2>1, <2>3 DEF Step, Locals, txVars
    <2>5. OthersSame(p) /\ Locals'
      BY <2>1, <2>4 DEF OthersSame, SameFor, Locals
    <2>6. req[p].op \in {"record", "import", "revise", "remove"}
      BY <2>1, <2>2 DEF Fits, StatementFits
    <2>7. Typed(p)'
      BY <2>1, <2>2, <2>4 DEF Fits, Typed
    <2>8. StatementFits(p)'
      BY <2>4, <2>6 DEF StatementFits
    <2>9. CheckedHolds(p)'
      <3>1. req[p].op = "revise" => req[p].entry[2] <= made.entry
        BY <2>1, <2>2 DEF Fits, CheckedHolds
      <3> QED
        BY <2>3, <2>4, <2>6, <3>1 DEF CheckedHolds
    <2>10. DraftFits(p)'
      BY <2>1, <2>2, <2>4 DEF Fits, DraftFits
    <2>11. CountsFit'
      <3>1. (p \in Creating' => p \in Creating) /\ (p \in Storing' => p \in Storing)
        BY <2>2, <2>4, <2>6 DEF Creating, Storing
      <3> QED
        BY <2>4, <2>5, <3>1, CountsUnmoved
    <2> QED
      BY <2>4, <2>5, <2>7, <2>8, <2>9, <2>10, <2>11, ReadStep DEF Fits
  <1> QED
    BY <1>1, <1>2

(* A preview finds which rows of a file are new.                            *)
LEMMA Previewed ==
    ASSUME IInv, NEW p \in Process, PreviewImport(p)
    PROVE  IInv'
  <1>1. Locals /\ Fits(p)
    BY Parts
  <1>2. req[p] \in Requests /\ pc[p] = "preview" /\ req[p].op = "import"
    <2>1. pc[p] = "preview"
      BY DEF PreviewImport, Step
    <2> QED
      BY <1>1, <2>1, RequestOf DEF Fits, StatementFits
  <1>3. PICK rows : found' = [found EXCEPT ![p] = rows]
    BY DEF PreviewImport
  <1>4. /\ pc'[p] = "confirm"
        /\ req' = req /\ targets' = targets /\ made' = made /\ handled' = handled
        /\ db' = db /\ draft' = draft /\ DOMAIN pc' = Process /\ DOMAIN found' = Process
        /\ \A q \in Process \ {p} : pc'[q] = pc[q] /\ found'[q] = found[q]
    BY <1>1, <1>3 DEF PreviewImport, Step, Locals, txVars
  <1>5. OthersSame(p) /\ Locals'
    BY <1>1, <1>4 DEF OthersSame, SameFor, Locals
  <1>6. Typed(p)' /\ StatementFits(p)' /\ DraftFits(p)'
    BY <1>1, <1>2, <1>4 DEF Fits, Typed, StatementFits, DraftFits
  <1>7. CheckedHolds(p)'
    <2>1. req[p].goal \in Goal => Owned(db[req[p].goal], req[p].user)
      BY <1>1, <1>2 DEF Fits, CheckedHolds
    <2> QED
      BY <1>2, <1>4, <2>1 DEF CheckedHolds
  <1>8. CountsFit'
    <2>1. (p \in Creating' => p \in Creating) /\ (p \in Storing' => p \in Storing)
      BY <1>2, <1>4 DEF Creating, Storing
    <2> QED
      BY <1>4, <1>5, <2>1, CountsUnmoved
  <1> QED
    BY <1>4, <1>5, <1>6, <1>7, <1>8, ReadStep DEF Fits

GoalsKept == \A g \in Goal : db'[g] = db[g]

(* Committing rows changes these and no other.                              *)
LEMMA Overwritten ==
    ASSUME Tables, NEW W, DOMAIN W \subseteq Row, db' = Over(W, db)
    PROVE  DOMAIN db' = Row /\ \A r \in Row : db'[r] = IF r \in DOMAIN W THEN W[r] ELSE db[r]
  BY DEF Over, Tables

(* update of an entry keeps its owner and its fingerprint.                  *)
LEMMA Revised ==
    ASSUME IInv, NEW p \in Process, ReviseEntry(p)
    PROVE  IInv' /\ GoalsKept
  <1> DEFINE e == req[p].entry
  <1>1. Tables /\ Locals /\ Fits(p) /\ EntriesSound /\ FreshEntries
    BY Parts, IdParts
  <1>2. /\ pc[p] = "store" /\ req[p].op = "revise" /\ req[p] \in Requests /\ req[p].user \in User
        /\ e \in Entry /\ req[p].goal \in Goal \cup {NoGoal, Same}
    <2>1. pc[p] = "store" /\ req[p].op = "revise"
      BY DEF ReviseEntry
    <2> QED
      BY <2>1, RequestOf, RequestParts
  <1>3. /\ req[p].goal \in Goal => Owned(db[req[p].goal], req[p].user)
        /\ db[e] = Absent \/ Owned(db[e], req[p].user)
    BY <1>1, <1>2 DEF Fits, CheckedHolds
  <1>4. Forget(p) /\ made' = made /\ draft' = draft
    BY DEF ReviseEntry, Write
  <1>5. /\ DOMAIN db' = Row
        /\ \A r \in Row \ {e} : db'[r] = db[r]
        /\ \/ db'[e] = db[e]
           \/ /\ db[e] # Absent /\ req[p].goal # Same
              /\ db'[e] = [db[e] EXCEPT !.goal = req[p].goal]
    <2>1. CASE db[e] = Absent \/ req[p].goal = Same
      <3>1. db' = Over(<<>>, db)
        BY <2>1 DEF ReviseEntry, Write
      <3> QED
        BY <1>1, <1>2, <3>1, Overwritten, Empty, Names
    <2>2. CASE ~ (db[e] = Absent \/ req[p].goal = Same)
      <3>1. db' = Over(Only(e, [db[e] EXCEPT !.goal = req[p].goal]), db)
        BY <2>2 DEF ReviseEntry, Write
      <3>2. /\ DOMAIN Only(e, [db[e] EXCEPT !.goal = req[p].goal]) = {e}
            /\ Only(e, [db[e] EXCEPT !.goal = req[p].goal])[e] = [db[e] EXCEPT !.goal = req[p].goal]
        BY DEF Only
      <3>3. e \in Row
        BY <1>2, Names
      <3> QED
        BY <1>1, <2>2, <3>1, <3>2, <3>3, Overwritten
    <2> QED
      BY <2>1, <2>2
  <1>6. /\ db[e] = Absent => db'[e] = Absent
        /\ db[e] # Absent =>
             /\ db[e] \in EntryRows /\ db'[e] \in EntryRows /\ db'[e] # Absent
             /\ db[e].owner = req[p].user /\ db'[e].owner = req[p].user
             /\ db'[e].print = db[e].print
             /\ db'[e].goal = db[e].goal \/ db'[e].goal = req[p].goal
    <2>1. CASE db[e] = Absent
      BY <1>5, <2>1
    <2>2. CASE db[e] # Absent
      <3>1. db[e] \in EntryRows /\ db[e].owner = req[p].user
        BY <1>1, <1>2, <1>3, <2>2 DEF Tables, Owned
      <3>2. req[p].goal # Same => req[p].goal \in Goal \cup {NoGoal}
        BY <1>2
      <3>3. db'[e] \in EntryRows /\ db'[e].owner = req[p].user /\ db'[e].print = db[e].print
            /\ (db'[e].goal = db[e].goal \/ db'[e].goal = req[p].goal)
        BY <1>5, <2>2, <3>1, <3>2 DEF EntryRows
      <3> QED
        BY <2>2, <3>1, <3>3, Values
    <2> QED
      BY <2>1, <2>2
  <1>7. /\ \A g \in Goal : db'[g] = db[g]
        /\ \A x \in Entry : db'[x] \in EntryRows \cup {Absent}
    BY <1>1, <1>2, <1>5, <1>6, Names DEF Tables
  <1>8. made.goal \in Nat /\ made.entry \in Nat /\ made' \in [goal : Nat, entry : Nat]
    BY <1>1, <1>4 DEF Locals
  <1>9. EntriesStay
    <2>1. \A x \in Entry : db'[x] # Absent => db[x] # Absent /\ db'[x].owner = db[x].owner
      BY <1>2, <1>5, <1>6, Names
    <2> QED
      BY <1>4, <1>8, <2>1 DEF EntriesStay
  <1>10. FreshEntries'
    BY <1>1, <1>2, <1>4, <1>5, <1>6, Names DEF FreshEntries
  <1>11. EntriesSound'
    <2>1. EntriesOwned'
      <3>1. ASSUME NEW x \in Entry, db'[x] # Absent, db'[x].goal # NoGoal
            PROVE  Owned(db'[db'[x].goal], db'[x].owner)
        <4>1. db'[x].goal \in Goal
          BY <1>7, <3>1 DEF EntryRows
        <4>2. CASE x # e \/ db'[x].goal = db[x].goal
          <5>1. db[x] # Absent /\ db[x].goal = db'[x].goal /\ db[x].owner = db'[x].owner
            BY <1>2, <1>5, <1>6, <3>1, <4>2, Names
          <5> QED
            BY <1>1, <1>7, <3>1, <4>1, <5>1 DEF EntriesSound, EntriesOwned
        <4>3. CASE x = e /\ db'[x].goal = req[p].goal
          BY <1>3, <1>6, <1>7, <3>1, <4>1, <4>3
        <4> QED
          BY <1>6, <3>1, <4>2, <4>3
      <3> QED
        BY <3>1 DEF EntriesOwned
    <2>2. ImportedOnce'
      <3>1. \A x \in Entry : db'[x] # Absent =>
               db[x] # Absent /\ db'[x].print = db[x].print /\ db'[x].owner = db[x].owner
        BY <1>2, <1>5, <1>6, Names
      <3> QED
        BY <1>1, <3>1 DEF EntriesSound, ImportedOnce
    <2> QED
      BY <2>1, <2>2 DEF EntriesSound
  <1>12. made'.goal = made.goal /\ made'.entry <= made.entry + 2 * One(p \in Storing)
    BY <1>4, <1>8 DEF One
  <1> QED
    BY <1>2, <1>4, <1>5, <1>7, <1>8, <1>9, <1>10, <1>11, <1>12, EntryStep DEF GoalsKept

(* remove deletes one entry.                                                *)
LEMMA Removed ==
    ASSUME IInv, NEW p \in Process, RemoveEntry(p)
    PROVE  IInv' /\ GoalsKept
  <1> DEFINE e == req[p].entry
  <1>1. Tables /\ Locals /\ EntriesSound /\ FreshEntries
    BY Parts, IdParts
  <1>2. pc[p] = "store" /\ req[p].op = "remove" /\ e \in Entry
    <2>1. pc[p] = "store" /\ req[p].op = "remove"
      BY DEF RemoveEntry
    <2> QED
      BY <2>1, RequestOf, RequestParts
  <1>3. Forget(p) /\ made' = made /\ draft' = draft
    BY DEF RemoveEntry, Write
  <1>4. DOMAIN db' = Row /\ db'[e] = Absent /\ \A r \in Row \ {e} : db'[r] = db[r]
    <2>1. db' = Over(Only(e, Absent), db)
      BY DEF RemoveEntry, Write
    <2>2. DOMAIN Only(e, Absent) = {e} /\ Only(e, Absent)[e] = Absent
      BY DEF Only
    <2>3. e \in Row
      BY <1>2, Names
    <2> QED
      BY <1>1, <2>1, <2>2, <2>3, Overwritten
  <1>5. /\ \A g \in Goal : db'[g] = db[g]
        /\ \A x \in Entry : db'[x] = db[x] \/ db'[x] = Absent
    BY <1>2, <1>4, Names
  <1>6. \A x \in Entry : db'[x] \in EntryRows \cup {Absent}
    BY <1>1, <1>5 DEF Tables
  <1>7. made.goal \in Nat /\ made.entry \in Nat /\ made' \in [goal : Nat, entry : Nat]
    BY <1>1, <1>3 DEF Locals
  <1>8. EntriesStay
    BY <1>3, <1>5, <1>7 DEF EntriesStay
  <1>9. FreshEntries'
    BY <1>1, <1>3, <1>5, Names DEF FreshEntries
  <1>10. EntriesSound'
    <2>1. EntriesOwned'
      <3>1. \A x \in Entry : db[x] # Absent => db[x].goal \in Goal \cup {NoGoal}
        BY <1>1 DEF Tables, EntryRows
      <3> QED
        BY <1>1, <1>5, <3>1 DEF EntriesSound, EntriesOwned
    <2>2. ImportedOnce'
      BY <1>1, <1>5 DEF EntriesSound, ImportedOnce
    <2> QED
      BY <2>1, <2>2 DEF EntriesSound
  <1>11. made'.goal = made.goal /\ made'.entry <= made.entry + 2 * One(p \in Storing)
    BY <1>3, <1>7 DEF One
  <1> QED
    BY <1>2, <1>3, <1>4, <1>5, <1>6, <1>7, <1>8, <1>9, <1>10, <1>11, EntryStep DEF GoalsKept

(* Entries inserted under ids not given out before, linked to a goal of     *)
(* their owner, with fingerprints the owner has not imported.               *)
LEMMA Inserts ==
    ASSUME IInv, NEW p \in Process, pc[p] \in {"store", "confirm"}, Forget(p), p \in Storing,
           NEW W, Write(W), NEW k \in 0..2, made' = [made EXCEPT !.entry = @ + k],
           NEW u \in User, NEW g \in Goal \cup {NoGoal}, g \in Goal => Owned(db[g], u),
           \A x \in DOMAIN W :
              /\ x \in Entry /\ x[2] > made.entry /\ x[2] <= made.entry + k
              /\ W[x] \in EntryRows /\ W[x].owner = u /\ W[x].goal = g
              /\ W[x].print \notin Imported(u),
           \A x, y \in DOMAIN W : x # y => W[x].print = NoGoal \/ W[x].print # W[y].print
    PROVE  IInv' /\ GoalsKept
  <1>1. Tables /\ Locals /\ EntriesSound /\ FreshEntries
    BY Parts, IdParts
  <1>2. draft' = draft /\ db' = Over(W, db)
    BY DEF Write
  <1>3. DOMAIN db' = Row /\ \A r \in Row : db'[r] = IF r \in DOMAIN W THEN W[r] ELSE db[r]
    <2>1. DOMAIN W \subseteq Row
      BY Names
    <2> QED
      BY <1>1, <1>2, <2>1, Overwritten
  <1>4. \A g1 \in Goal : db'[g1] = db[g1]
    BY <1>3, Names
  <1>5. \A x \in Entry : db'[x] \in EntryRows \cup {Absent}
    BY <1>1, <1>3, Names DEF Tables
  <1>6. /\ made.goal \in Nat /\ made.entry \in Nat
        /\ made'.goal = made.goal /\ made'.entry = made.entry + k
        /\ made' \in [goal : Nat, entry : Nat]
    BY <1>1 DEF Locals
  <1>7. EntriesStay
    <2>1. \A x \in Entry : x[2] <= made.entry => db'[x] = db[x]
      <3>1. \A x \in Entry : x[2] \in Nat
        BY Names
      <3> QED
        BY <1>3, <1>6, <3>1, Names
    <2> QED
      BY <1>6, <2>1 DEF EntriesStay
  <1>8. FreshEntries'
    <2> SUFFICES ASSUME NEW n \in 1..MaxRows, n > made'.entry
                 PROVE  db'[<<"entry", n>>] = Absent
      BY DEF FreshEntries
    <2>1. n \in Nat /\ n > made.entry /\ n > made.entry + k
      BY <1>6
    <2>2. <<"entry", n>> \notin DOMAIN W
      BY <1>6, <2>1
    <2> QED
      BY <1>1, <1>3, <2>1, <2>2, Names DEF FreshEntries
  <1>9. EntriesOwned'
    <2> SUFFICES ASSUME NEW x \in Entry, db'[x] # Absent, db'[x].goal # NoGoal
                 PROVE  Owned(db'[db'[x].goal], db'[x].owner)
      BY DEF EntriesOwned
    <2>1. db'[x].goal \in Goal
      BY <1>5 DEF EntryRows
    <2>2. CASE x \in DOMAIN W
      BY <1>3, <1>4, <2>1, <2>2, Names
    <2>3. CASE x \notin DOMAIN W
      BY <1>1, <1>3, <1>4, <2>1, <2>3, Names DEF EntriesSound, EntriesOwned
    <2> QED
      BY <2>2, <2>3
  <1>10. ImportedOnce'
    <2> SUFFICES ASSUME NEW x \in Entry, NEW y \in Entry, db'[x] # Absent, db'[y] # Absent, x # y,
                        db'[x].print # NoGoal, db'[x].print = db'[y].print,
                        db'[x].owner = db'[y].owner
                 PROVE  FALSE
      BY DEF ImportedOnce
    <2>1. \A z \in Entry : db[z] # Absent /\ db[z].owner = u /\ db[z].print # NoGoal =>
              db[z].print \in Imported(u)
      BY DEF Imported, Owned
    <2>2. \A z \in Entry : db'[z] = IF z \in DOMAIN W THEN W[z] ELSE db[z]
      BY <1>3, Names
    <2>3. CASE x \in DOMAIN W /\ y \in DOMAIN W
      BY <2>2, <2>3
    <2>4. CASE x \in DOMAIN W /\ y \notin DOMAIN W
      BY <2>1, <2>2, <2>4
    <2>5. CASE x \notin DOMAIN W /\ y \in DOMAIN W
      BY <2>1, <2>2, <2>5
    <2>6. CASE x \notin DOMAIN W /\ y \notin DOMAIN W
      BY <1>1, <2>2, <2>6 DEF EntriesSound, ImportedOnce
    <2> QED
      BY <2>3, <2>4, <2>5, <2>6
  <1>11. EntriesSound'
    BY <1>9, <1>10 DEF EntriesSound
  <1>12. made'.entry <= made.entry + 2 * One(p \in Storing)
    BY <1>6 DEF One
  <1> QED
    BY <1>2, <1>3, <1>4, <1>5, <1>6, <1>7, <1>8, <1>11, <1>12, EntryStep DEF GoalsKept

(* create inserts an entry without a fingerprint.                           *)
LEMMA Recorded ==
    ASSUME IInv, NEW p \in Process, CreateEntry(p)
    PROVE  IInv' /\ GoalsKept
  <1> DEFINE x == <<"entry", made.entry + 1>>
             W == Only(x, EntryRow(req[p].user, req[p].goal, NoGoal))
  <1>1. /\ pc[p] = "store" /\ req[p].op = "record" /\ req[p].user \in User
        /\ req[p].goal \in Goal \cup {NoGoal}
    <2>1. pc[p] = "store" /\ req[p].op = "record"
      BY DEF CreateEntry
    <2> QED
      BY <2>1, RequestOf, RequestParts
  <1>2. p \in Storing /\ (req[p].goal \in Goal => Owned(db[req[p].goal], req[p].user))
    BY <1>1, Parts DEF Storing, Fits, CheckedHolds
  <1>3. made.entry \in Nat /\ x \in Entry /\ x[2] = made.entry + 1
    BY <1>2, Room, Names
  <1>4. Write(W) /\ Forget(p) /\ made' = [made EXCEPT !.entry = @ + 1]
    BY DEF CreateEntry, NewEntry
  <1>5. DOMAIN W = {x} /\ W[x] = EntryRow(req[p].user, req[p].goal, NoGoal)
    BY DEF Only
  <1>6. /\ W[x] \in EntryRows /\ W[x].owner = req[p].user /\ W[x].goal = req[p].goal
        /\ W[x].print = NoGoal
    BY <1>1, <1>5, Values
  <1>7. NoGoal \notin Imported(req[p].user)
    BY DEF Imported
  <1> HIDE DEF W
  <1> QED
    BY <1>1, <1>2, <1>3, <1>4, <1>5, <1>6, <1>7, Inserts

(* confirmImport numbers the rows it inserts one after another.             *)
LEMMA InsertedRows ==
    ASSUME NEW u \in User, NEW g \in Goal \cup {NoGoal}, NEW prints \in SUBSET Fingerprint,
           IsFiniteSet(prints), made.entry \in Nat
    PROVE  LET new == Inserted(u, g, prints) IN
           /\ Cardinality(DOMAIN new) \in Nat /\ Cardinality(DOMAIN new) <= Cardinality(prints)
           /\ \A x \in DOMAIN new : \E n \in 1..Cardinality(DOMAIN new) : x = <<"entry", made.entry + n>>
           /\ \A x \in DOMAIN new : \E a \in prints \ Imported(u) : new[x] = EntryRow(u, g, a)
           /\ \A x, y \in DOMAIN new : x # y => new[x].print # new[y].print
  <1> DEFINE fresh == prints \ Imported(u)
             size == Cardinality(fresh)
             at == CHOOSE f \in [fresh -> 1..size] : \A a, b \in fresh : a # b => f[a] # f[b]
             rows == {<<"entry", made.entry + at[a]>> : a \in fresh}
             of(x) == CHOOSE a \in fresh : x[2] = made.entry + at[a]
             new == [x \in rows |-> EntryRow(u, g, of(x))]
  <1>1. Inserted(u, g, prints) = new
    BY DEF Inserted
  <1>2. IsFiniteSet(fresh) /\ size \in Nat /\ size <= Cardinality(prints)
    BY FS_Subset, FS_CardinalityType
  <1>3. at \in [fresh -> 1..size] /\ \A a, b \in fresh : a # b => at[a] # at[b]
    <2>1. ExistsBijection(fresh, 1..size)
      BY <1>2, FS_CardinalityType, Fun_ExistsBijSymmetric
    <2>2. \E f \in [fresh -> 1..size] : \A a, b \in fresh : a # b => f[a] # f[b]
      BY <2>1 DEF ExistsBijection, Bijection, Injection, IsInjective
    <2> QED
      BY <2>2
  <1> HIDE DEF fresh, size, at
  <1>4. \A a \in fresh : at[a] \in 1..size /\ made.entry + at[a] \in Nat
    BY <1>2, <1>3
  <1>5. \A a, b \in fresh : made.entry + at[a] = made.entry + at[b] => a = b
    BY <1>2, <1>3, <1>4
  <1>6. \A x \in rows : of(x) \in fresh /\ x = <<"entry", made.entry + at[of(x)]>>
    BY <1>5
  <1>7. Cardinality(rows) = size
    <2> DEFINE f == [a \in fresh |-> <<"entry", made.entry + at[a]>>]
    <2>1. f \in Surjection(fresh, rows)
      BY DEF Surjection
    <2>2. f \in Injection(fresh, rows)
      <3>1. f \in [fresh -> rows]
        OBVIOUS
      <3>2. IsInjective(f)
        BY <1>5 DEF IsInjective
      <3> QED
        BY <3>1, <3>2 DEF Injection
    <2> HIDE DEF f
    <2>3. ExistsBijection(fresh, rows)
      BY <2>1, <2>2 DEF ExistsBijection, Bijection
    <2> QED
      BY <1>2, <2>3, FS_Bijection DEF size
  <1>8. DOMAIN new = rows /\ \A x \in rows : new[x] = EntryRow(u, g, of(x))
    OBVIOUS
  <1>9. \A x \in rows : \E n \in 1..size : x = <<"entry", made.entry + n>>
    BY <1>4, <1>6
  <1>10. \A x, y \in rows : x # y => new[x].print # new[y].print
    <2>1. \A x \in rows : new[x].print = of(x)
      BY <1>6, <1>8 DEF EntryRow
    <2>2. ASSUME NEW x \in rows, NEW y \in rows, of(x) = of(y)
          PROVE  x = y
      <3>1. x = <<"entry", made.entry + at[of(x)]>> /\ y = <<"entry", made.entry + at[of(y)]>>
        BY <1>6
      <3> HIDE DEF rows, of
      <3> QED
        BY <2>2, <3>1
    <2> HIDE DEF rows, of, new
    <2> QED
      BY <2>1, <2>2
  <1> HIDE DEF rows, of, new
  <1> QED
    BY <1>1, <1>2, <1>6, <1>7, <1>8, <1>9, <1>10 DEF fresh

(* Two rows of a file are at most two fingerprints.                         *)
LEMMA PairSize ==
    ASSUME NEW a, NEW b
    PROVE  IsFiniteSet({a, b}) /\ Cardinality({a, b}) \in 1..2
  <1>1. {a, b} = {a} \cup {b}
    OBVIOUS
  <1>2. IsFiniteSet({a}) /\ Cardinality({a}) = 1
    BY FS_Singleton
  <1>3. /\ IsFiniteSet({a} \cup {b})
        /\ Cardinality({a} \cup {b}) = IF b \in {a} THEN Cardinality({a}) ELSE Cardinality({a}) + 1
    BY <1>2, FS_AddElement
  <1> QED
    BY <1>1, <1>2, <1>3

(* confirmImport inserts the rows whose fingerprints are not there yet.     *)
LEMMA Confirmed ==
    ASSUME IInv, NEW p \in Process, ConfirmImport(p), ~ Fail(p)
    PROVE  IInv' /\ GoalsKept
  <1> DEFINE u == req[p].user
             g == req[p].goal
             prints == {req[p].file[n] : n \in found[p]}
             W == Inserted(u, g, prints)
             k == Cardinality(DOMAIN W)
  <1>1. pc[p] = "confirm"
    BY DEF ConfirmImport
  <1>2. Fits(p)
    BY Parts
  <1>3. req[p].op = "import" /\ u \in User /\ g \in Goal \cup {NoGoal} /\ req[p].file \in Files
    BY <1>1, <1>2, RequestOf, RequestParts DEF Fits, StatementFits
  <1>4. p \in Storing
    BY <1>1, <1>3 DEF Storing
  <1>5. g \in Goal => Owned(db[g], u)
    BY <1>1, <1>2, <1>3 DEF Fits, CheckedHolds
  <1>6. made.entry \in Nat /\ made.entry + 1 \in 1..MaxRows /\ made.entry + 2 \in 1..MaxRows
    BY <1>4, Room
  <1>7. found[p] \subseteq {n \in 1..2 : req[p].file[n] # Bad}
    <2>1. DOMAIN req[p].file = 1..2
      BY <1>3 DEF Files
    <2> QED
      BY <2>1 DEF ConfirmImport
  <1>8. prints \subseteq Fingerprint /\ prints \subseteq {req[p].file[1], req[p].file[2]}
    BY <1>3, <1>7 DEF Files
  <1>9. IsFiniteSet(prints) /\ Cardinality(prints) \in Nat /\ Cardinality(prints) <= 2
    <2>1. /\ IsFiniteSet({req[p].file[1], req[p].file[2]})
          /\ Cardinality({req[p].file[1], req[p].file[2]}) \in 1..2
      BY PairSize
    <2> QED
      BY <1>8, <2>1, FS_Subset, FS_CardinalityType
  <1>10. Write(W) /\ Forget(p) /\ made' = [made EXCEPT !.entry = @ + k]
    BY DEF ConfirmImport
  <1> HIDE DEF u, g, prints
  <1>11. /\ k \in Nat /\ k <= Cardinality(prints)
         /\ \A x \in DOMAIN W : \E n \in 1..k : x = <<"entry", made.entry + n>>
         /\ \A x \in DOMAIN W : \E a \in prints \ Imported(u) : W[x] = EntryRow(u, g, a)
         /\ \A x, y \in DOMAIN W : x # y => W[x].print # W[y].print
    BY <1>3, <1>6, <1>8, <1>9, InsertedRows
  <1> HIDE DEF W, k
  <1>12. k \in 0..2
    BY <1>9, <1>11
  <1>13. \A x \in DOMAIN W :
            /\ x \in Entry /\ x[2] > made.entry /\ x[2] <= made.entry + k
            /\ W[x] \in EntryRows /\ W[x].owner = u /\ W[x].goal = g
            /\ W[x].print \notin Imported(u)
    <2> SUFFICES ASSUME NEW x \in DOMAIN W
                 PROVE  /\ x \in Entry /\ x[2] > made.entry /\ x[2] <= made.entry + k
                        /\ W[x] \in EntryRows /\ W[x].owner = u /\ W[x].goal = g
                        /\ W[x].print \notin Imported(u)
      OBVIOUS
    <2>1. PICK n \in 1..k : x = <<"entry", made.entry + n>>
      BY <1>11
    <2>2. made.entry + n \in 1..MaxRows /\ n <= k /\ n >= 1
      <3>1. n \in 1..2 /\ n <= k /\ n >= 1
        BY <1>12
      <3> QED
        BY <1>6, <3>1
    <2>3. x \in Entry /\ x[2] = made.entry + n
      BY <2>1, <2>2, Names
    <2>4. x[2] > made.entry /\ x[2] <= made.entry + k
      BY <1>6, <1>12, <2>2, <2>3
    <2>5. PICK a \in prints \ Imported(u) : W[x] = EntryRow(u, g, a)
      BY <1>11
    <2>6. /\ W[x] \in EntryRows /\ W[x].owner = u /\ W[x].goal = g /\ W[x].print = a
      BY <1>3, <1>8, <2>5, Values
    <2> QED
      BY <2>3, <2>4, <2>5, <2>6
  <1> QED
    BY <1>1, <1>3, <1>4, <1>5, <1>10, <1>11, <1>12, <1>13, Inserts DEF u, g

-----------------------------------------------------------------------------
(* The statements of GoalsService.                                          *)
LEMMA Begun ==
    ASSUME IInv, NEW p \in Process, NEW r \in Requests, Begin(p, r)
    PROVE  IInv'
  <1>1. Locals /\ Fits(p) /\ CountsFit /\ FreshEntries
    BY Parts, IdParts
  <1>2. /\ pc[p] = "idle" /\ Named(r) /\ handled < MaxRequests /\ handled' = handled + 1
        /\ pc'[p] = FirstStatement(r) /\ req'[p] = r
        /\ found' = found /\ targets' = targets /\ made' = made
        /\ db' = db /\ draft' = draft /\ DOMAIN pc' = Process /\ DOMAIN req' = Process
        /\ \A q \in Process \ {p} : pc'[q] = pc[q] /\ req'[q] = req[q]
    BY <1>1 DEF Begin, Step, Locals, txVars
  <1>3. made.goal \in Nat /\ made.entry \in Nat /\ handled \in Nat
    BY <1>1 DEF Locals
  <1>4. OthersSame(p) /\ Locals'
    BY <1>1, <1>2, <1>3 DEF OthersSame, SameFor, Locals
  <1>5. r.op \in {"create", "update", "end", "record", "import", "revise", "remove"}
    BY RequestParts
  <1>6. /\ r.op = "create" => pc'[p] = "scan"
        /\ r.op \in {"update", "end"} => pc'[p] = "read"
        /\ r.op \in {"record", "import", "revise", "remove"} => pc'[p] = "check"
    BY <1>2 DEF FirstStatement
  <1>7. Typed(p)'
    BY <1>1, <1>2, <1>5, <1>6, Values DEF Fits, Typed
  <1>8. StatementFits(p)'
    BY <1>2, <1>5, <1>6 DEF StatementFits
  <1>9. CheckedHolds(p)'
    <2>1. r.op = "revise" => r.entry[2] <= made.entry
      <3> SUFFICES ASSUME r.op = "revise"
                   PROVE  r.entry[2] <= made.entry
        OBVIOUS
      <3>1. r.entry \in Entry /\ db[r.entry] # Absent
        BY <1>2, RequestParts, NamedEntry
      <3>2. r.entry[2] \in 1..MaxRows /\ r.entry = <<"entry", r.entry[2]>>
        BY <3>1, Names
      <3>3. ~ (r.entry[2] > made.entry)
        BY <1>1, <3>1, <3>2 DEF FreshEntries
      <3> QED
        BY <1>3, <3>2, <3>3
    <2> QED
      BY <1>2, <1>5, <1>6, <2>1 DEF CheckedHolds
  <1>10. DraftFits(p)'
    BY <1>1, <1>2, <1>5, <1>6 DEF Fits, DraftFits
  <1>11. CountsFit'
    <2>1. p \notin Creating /\ p \notin Storing /\ ~ (p \in Creating' /\ p \in Storing')
      BY <1>2 DEF Creating, Storing
    <2>2. /\ made'.goal + One(p \in Creating') + handled <= made.goal + One(p \in Creating) + handled'
          /\ made'.entry + 2 * One(p \in Storing') + 2 * handled
                 <= made.entry + 2 * One(p \in Storing) + 2 * handled'
      BY <1>2, <1>3, <2>1 DEF One
    <2>3. handled' <= MaxRequests
      BY <1>2, <1>3, RoomForAll
    <2> QED
      BY <1>4, <2>2, <2>3, CountsKept
  <1> QED
    BY <1>2, <1>4, <1>7, <1>8, <1>9, <1>10, <1>11, ReadStep DEF Fits

(* The updateMany that replaces goals finds the active ones to lock.        *)
LEMMA Scanned ==
    ASSUME IInv, NEW p \in Process, ScanActive(p)
    PROVE  IInv'
  <1>1. Locals /\ Fits(p)
    BY Parts
  <1>2. PICK T : /\ T = {g \in Goal : IsActive(Seen(p)[g], req[p].user)
                                         /\ (req[p].op = "update" => g # req[p].goal)}
                 /\ targets' = [targets EXCEPT ![p] = T]
    BY DEF ScanActive
  <1>3. /\ pc[p] = "scan" /\ pc'[p] = "replace" /\ targets'[p] = T
        /\ req' = req /\ found' = found /\ made' = made /\ handled' = handled
        /\ db' = db /\ draft' = draft /\ DOMAIN pc' = Process /\ DOMAIN targets' = Process
        /\ \A q \in Process \ {p} : pc'[q] = pc[q] /\ targets'[q] = targets[q]
    BY <1>1, <1>2 DEF ScanActive, Step, Keep, Locals
  <1>4. OthersSame(p) /\ Locals'
    BY <1>1, <1>3 DEF OthersSame, SameFor, Locals
  <1>5. Typed(p)' /\ StatementFits(p)' /\ DraftFits(p)'
    BY <1>1, <1>3 DEF Fits, Typed, StatementFits, DraftFits
  <1>6. CheckedHolds(p)'
    <2>1. req[p].op \in {"update", "end"} => Owned(db[req[p].goal], req[p].user) /\ found[p] \in GoalRows
      BY <1>1, <1>3 DEF Fits, CheckedHolds
    <2>2. T \subseteq Goal /\ (req[p].op = "update" => req[p].goal \notin T)
      BY <1>2
    <2> QED
      BY <1>3, <2>1, <2>2 DEF CheckedHolds
  <1>7. CountsFit'
    <2>1. (p \in Creating' => p \in Creating) /\ (p \in Storing' => p \in Storing)
      BY <1>3 DEF Creating, Storing
    <2> QED
      BY <1>3, <1>4, <2>1, CountsUnmoved
  <1> QED
    BY <1>3, <1>4, <1>5, <1>6, <1>7, ReadStep DEF Fits

(* The findFirst that a goal's update or end begins with.                   *)
LEMMA GoalRead ==
    ASSUME IInv, NEW p \in Process, ReadGoal(p)
    PROVE  IInv'
  <1>1. CASE Fail(p)
    BY <1>1, Failed
  <1>2. CASE ~ Fail(p)
    <2>1. Tables /\ Locals /\ Fits(p)
      BY Parts
    <2>2. PICK v : /\ v = Seen(p)[req[p].goal] /\ Owned(v, req[p].user)
                   /\ found' = [found EXCEPT ![p] = v]
      BY <1>2 DEF ReadGoal
    <2>3. /\ pc[p] = "read" /\ found'[p] = v
          /\ pc'[p] = IF req[p].op = "update" /\ req[p].isActive = TRUE THEN "scan" ELSE "write"
          /\ req' = req /\ targets' = targets /\ made' = made /\ handled' = handled
          /\ db' = db /\ draft' = draft /\ DOMAIN pc' = Process /\ DOMAIN found' = Process
          /\ \A q \in Process \ {p} : pc'[q] = pc[q] /\ found'[q] = found[q]
      BY <1>2, <2>1, <2>2 DEF ReadGoal, Step, Keep, Locals
    <2>4. OthersSame(p) /\ Locals'
      BY <2>1, <2>3 DEF OthersSame, SameFor, Locals
    <2>5. req[p] \in Requests /\ req[p].op \in {"update", "end"} /\ req[p].goal \in Goal
      <3>1. req[p] \in Requests /\ req[p].op \in {"update", "end"}
        BY <2>1, <2>3, RequestOf DEF Fits, StatementFits
      <3> QED
        BY <3>1, RequestParts
    <2>6. v = db[req[p].goal] /\ v \in GoalRows
      <3>1. DOMAIN draft[p] = {}
        BY <2>1, <2>3 DEF Fits, DraftFits
      <3>2. v = db[req[p].goal]
        BY <2>1, <2>2, <2>5, <3>1, SeenRow, Names DEF Fits
      <3> QED
        BY <2>1, <2>2, <2>5, <3>2 DEF Tables, Owned
    <2>7. Typed(p)' /\ StatementFits(p)' /\ DraftFits(p)'
      BY <2>1, <2>3, <2>5 DEF Fits, Typed, StatementFits, DraftFits
    <2>8. CheckedHolds(p)'
      BY <2>2, <2>3, <2>6 DEF CheckedHolds
    <2>9. CountsFit'
      <3>1. (p \in Creating' => p \in Creating) /\ (p \in Storing' => p \in Storing)
        BY <2>3, <2>5 DEF Creating, Storing
      <3> QED
        BY <2>3, <2>4, <3>1, CountsUnmoved
    <2> QED
      BY <2>3, <2>4, <2>7, <2>8, <2>9, ReadStep DEF Fits
  <1> QED
    BY <1>1, <1>2

(* A statement that writes into the draft of its transaction.               *)
LEMMA DraftStep ==
    ASSUME IInv, NEW p \in Process, OthersSame(p), db' = db, Locals', made'.entry = made.entry,
           Fits(p)', Views', FreshGoals', CountsFit'
    PROVE  IInv'
  <1>1. Tables /\ IdsFresh /\ EntriesSound /\ Locals
    BY Parts
  <1>2. Tables' /\ GoalsStay /\ \A q \in Process \ {p} : LockedStay(q)
    BY <1>1 DEF Tables, GoalsStay, LockedStay
  <1>3. EntriesStay
    <2>1. made.entry \in Nat
      BY <1>1 DEF Locals
    <2> QED
      BY <2>1 DEF EntriesStay
  <1>4. EntriesSound'
    BY <1>1, <1>2, EntriesKept
  <1>5. IdsFresh'
    <2>1. FreshEntries'
      BY <1>1, IdParts DEF FreshEntries
    <2> QED
      BY <2>1, IdPartsNext
  <1> QED
    BY <1>2, <1>3, <1>4, <1>5, RequestStep

(* Replaced goals leave the view of the transaction.                        *)
LEMMA ViewsReplaced ==
    ASSUME IInv, Tables', \A q \in Process : Typed(q)', NEW p \in Process,
           db' = db, DOMAIN draft[p] = {},
           \A g \in DOMAIN draft'[p] : draft'[p][g] \in GoalRows /\ draft'[p][g].isActive = FALSE,
           \A q \in Process \ {p} : draft'[q] = draft[q] /\ DOMAIN draft'[p] \cap DOMAIN draft[q] = {}
    PROVE  Views'
  <1>1. Tables /\ Views /\ \A q \in Process : Typed(q)
    BY Parts DEF Fits
  <1>2. ActiveOnce' /\ \A h \in Goal : StatusFits(db'[h])
    BY <1>1 DEF Views, ActiveOnce
  <1>3. \A u \in User : ~ Activates(p, u)'
    BY DEF Activates, IsActive
  <1>4. ASSUME NEW q \in Process
        PROVE  OneInView(q)' /\ \A h \in DOMAIN draft'[q] : StatusFits(draft'[q][h])
    <2>1. CASE q = p
      <3>1. \A g \in Goal, u \in User : ActiveFor(draft'[p], db', g, u) => IsActive(db[g], u)
        BY <1>3 DEF ActiveFor, Activates
      <3>2. Single(draft'[p], db')
        BY <1>1, <3>1 DEF Views, ActiveOnce, Single
      <3>3. \A h \in DOMAIN draft'[p] : StatusFits(draft'[p][h])
        BY DEF StatusFits
      <3> QED
        BY <2>1, <3>2, <3>3, ViewPartsNext
    <2>2. CASE q # p
      <3>1. Single(draft[q], db)
        BY <1>1, ViewParts DEF Views
      <3>2. Single(draft'[q], db')
        BY <2>2, <3>1 DEF Single, ActiveFor
      <3> QED
        BY <1>1, <2>2, <3>2, ViewPartsNext DEF Views
    <2> QED
      BY <2>1, <2>2
  <1>5. LockedByOne'
    BY <1>1 DEF Views, LockedByOne
  <1>6. OneActivates'
    <2>1. \A u \in User, q \in Process : Activates(q, u)' => Activates(q, u)
      BY <1>3 DEF Activates
    <2> QED
      BY <1>1, <2>1 DEF Views, OneActivates
  <1> QED
    BY <1>2, <1>4, <1>5, <1>6 DEF Views

(* The updateMany locks and deactivates what is still active.               *)
LEMMA GoalsReplaced ==
    ASSUME IInv, NEW p \in Process, Replace(p)
    PROVE  IInv'
  <1>1. Tables /\ Locals /\ Fits(p) /\ FreshGoals
    BY Parts, IdParts
  <1>2. PICK still : still = {g \in targets[p] : IsActive(Seen(p)[g], req[p].user)}
    OBVIOUS
  <1>3. PICK W : W = [g \in still |-> [db[g] EXCEPT !.isActive = FALSE, !.status = "replaced"]]
    OBVIOUS
  <1>4. /\ pc[p] = "replace" /\ Writers(p, targets[p]) = {}
        /\ pc'[p] = IF req[p].op = "create" THEN "insert" ELSE "write"
        /\ req' = req /\ found' = found /\ targets' = targets /\ made' = made /\ handled' = handled
        /\ db' = db /\ DOMAIN pc' = Process /\ DOMAIN draft' = Process
        /\ draft'[p] = Over(W, draft[p])
        /\ \A q \in Process \ {p} : pc'[q] = pc[q] /\ draft'[q] = draft[q]
    BY <1>1, <1>2, <1>3 DEF Replace, Step, Stage, Keep, Locals
  <1>5. /\ DOMAIN draft[p] = {} /\ targets[p] \subseteq Goal
        /\ req[p] \in Requests /\ (req[p].op = "update" => req[p].goal \notin targets[p])
        /\ req[p].op = "create" \/ (req[p].op = "update" /\ req[p].isActive = TRUE)
        /\ req[p].op \in {"update", "end"} => Owned(db[req[p].goal], req[p].user) /\ found[p] \in GoalRows
    BY <1>1, <1>4, RequestOf DEF Fits, StatementFits, CheckedHolds, DraftFits
  <1>6. /\ DOMAIN draft'[p] = still /\ still \subseteq targets[p]
        /\ \A g \in still : draft'[p][g] = [db[g] EXCEPT !.isActive = FALSE, !.status = "replaced"]
    BY <1>2, <1>3, <1>4, <1>5 DEF Over
  <1>7. \A g \in still : IsActive(db[g], req[p].user) /\ db[g] \in GoalRows
    <2>1. \A g \in still : Seen(p)[g] = db[g]
      BY <1>1, <1>5, <1>6, SeenRow, Names DEF Fits
    <2> QED
      BY <1>1, <1>2, <1>5, <1>6, <2>1 DEF Tables, IsActive, Owned
  <1>8. OthersSame(p) /\ Locals'
    BY <1>1, <1>4 DEF OthersSame, SameFor, Locals
  <1>9. \A g \in DOMAIN draft'[p] : draft'[p][g] \in GoalRows /\ draft'[p][g].isActive = FALSE
    <2> SUFFICES ASSUME NEW g \in still
                 PROVE  draft'[p][g] \in GoalRows /\ draft'[p][g].isActive = FALSE
      BY <1>6
    <2>1. db[g] \in GoalRows /\ draft'[p][g] = [db[g] EXCEPT !.isActive = FALSE, !.status = "replaced"]
      BY <1>6, <1>7
    <2> QED
      BY <2>1, ReplacedRow
  <1>10. Typed(p)'
    BY <1>1, <1>4, <1>5, <1>6, <1>9 DEF Fits, Typed
  <1>11. StatementFits(p)' /\ CheckedHolds(p)'
    BY <1>4, <1>5 DEF StatementFits, CheckedHolds
  <1>12. DraftFits(p)'
    <2>1. \A g \in DOMAIN draft'[p] : Replaced(p, g)'
      BY <1>4, <1>6, <1>7 DEF Replaced
    <2> QED
      BY <1>4, <1>5, <1>6, <2>1 DEF DraftFits
  <1>13. Views'
    <2>1. \A q \in Process : Typed(q)'
      BY <1>8, <1>10, AllTyped
    <2>2. Tables'
      BY <1>1, <1>4 DEF Tables
    <2>3. \A q \in Process \ {p} : DOMAIN draft'[p] \cap DOMAIN draft[q] = {}
      BY <1>4, <1>6 DEF Writers
    <2>4. \A q \in Process \ {p} : draft'[q] = draft[q] /\ DOMAIN draft'[p] \cap DOMAIN draft[q] = {}
      BY <1>4, <2>3
    <2>5. db' = db /\ DOMAIN draft[p] = {}
      BY <1>4, <1>5
    <2> QED
      BY <1>9, <2>1, <2>2, <2>4, <2>5, ViewsReplaced
  <1>14. FreshGoals'
    <2>1. \A n \in 1..MaxRows : n > made.goal => <<"goal", n>> \notin still
      BY <1>1, <1>7 DEF FreshGoals, IsActive, Owned
    <2> QED
      BY <1>1, <1>4, <1>6, <2>1 DEF FreshGoals
  <1>15. CountsFit'
    <2>1. (p \in Creating' => p \in Creating) /\ (p \in Storing' => p \in Storing)
      BY <1>4 DEF Creating, Storing
    <2> QED
      BY <1>4, <1>8, <2>1, CountsUnmoved
  <1> QED
    BY <1>4, <1>8, <1>10, <1>11, <1>12, <1>13, <1>14, <1>15, DraftStep DEF Fits

(* An active goal that is written is the only one of its customer.          *)
Alone(p, g, v) ==
    \A u \in User : IsActive(v, u) =>
        /\ \A q \in Process \ {p} : ~ Activates(q, u)
        /\ \A h \in Goal \ {g} : ~ IsActive(Seen(p)[h], u)

(* The statement that does what the request is for.                         *)
LEMMA OneStaged ==
    ASSUME IInv, NEW p \in Process, pc[p] \in {"insert", "write"}, Step(p, pc[p], "commit"),
           NEW g \in Goal, NEW v \in GoalRows, Stage(p, Only(g, v)),
           db' = db, req' = req, found' = found, targets' = targets, handled' = handled,
           made' \in [goal : Nat, entry : Nat], made'.entry = made.entry, made'.goal >= made.goal,
           made'.goal + handled <= made.goal + One(p \in Creating) + handled',
           g[2] <= made'.goal, Done(p, g)', StatusFits(v),
           \A q \in Process \ {p} : g \notin DOMAIN draft[q], Alone(p, g, v)
    PROVE  IInv'
  <1>1. Tables /\ Locals /\ Fits(p) /\ FreshGoals /\ CountsFit
    BY Parts, IdParts
  <1>2. /\ pc'[p] = "commit" /\ DOMAIN pc' = Process /\ DOMAIN draft' = Process
        /\ draft'[p] = Over(Only(g, v), draft[p])
        /\ \A q \in Process \ {p} : pc'[q] = pc[q] /\ draft'[q] = draft[q]
    BY <1>1 DEF Step, Stage, Locals
  <1>3. /\ DOMAIN draft'[p] = DOMAIN draft[p] \cup {g} /\ draft'[p][g] = v
        /\ \A h \in DOMAIN draft[p] \ {g} : draft'[p][h] = draft[p][h]
    BY <1>2 DEF Over, Only
  <1>4. OthersSame(p) /\ Locals'
    BY <1>1, <1>2 DEF OthersSame, SameFor, Locals
  <1>5. Typed(p)'
    <2>1. \A h \in DOMAIN draft'[p] : h \in Goal /\ draft'[p][h] \in GoalRows
      BY <1>1, <1>3 DEF Fits, Typed
    <2> QED
      BY <1>1, <1>2, <2>1 DEF Fits, Typed
  <1>6. StatementFits(p)'
    BY <1>1, <1>2 DEF Fits, StatementFits
  <1>7. CheckedHolds(p)'
    BY <1>1, <1>2 DEF Fits, StatementFits, CheckedHolds
  <1>8. DraftFits(p)'
    <2> DEFINE replaces == req[p].op = "create" \/ (req[p].op = "update" /\ req[p].isActive = TRUE)
    <2>1. \A h \in DOMAIN draft[p] \ {g} : replaces /\ Replaced(p, h)
      BY <1>1 DEF Fits, DraftFits
    <2>2. \A h \in DOMAIN draft[p] \ {g} : replaces /\ Replaced(p, h)'
      BY <1>3, <2>1 DEF Replaced
    <2>3. \A h \in DOMAIN draft'[p] : (replaces /\ Replaced(p, h)') \/ Done(p, h)'
      BY <1>3, <2>2
    <2>4. g \in DOMAIN draft'[p]
      BY <1>3
    <2> QED
      BY <1>2, <2>3, <2>4 DEF DraftFits
  <1>9. Views'
    <2>1. \A q \in Process : Typed(q)'
      BY <1>4, <1>5, AllTyped
    <2>2. Tables'
      BY <1>1 DEF Tables
    <2> QED
      BY <1>2, <1>3, <2>1, <2>2, ViewsStaged DEF Alone
  <1>10. FreshGoals'
    <2> SUFFICES ASSUME NEW n \in 1..MaxRows, n > made'.goal
                 PROVE  /\ db'[<<"goal", n>>] = Absent
                        /\ \A q \in Process : <<"goal", n>> \notin DOMAIN draft'[q]
      BY DEF FreshGoals
    <2>1. made.goal \in Nat /\ made'.goal \in Nat /\ n \in Nat /\ g[2] \in Nat
      BY <1>1, Names DEF Locals
    <2>2. n > made.goal /\ g # <<"goal", n>>
      BY <2>1
    <2> QED
      BY <1>1, <1>2, <1>3, <2>2 DEF FreshGoals
  <1>11. CountsFit'
    <2>1. p \notin Creating' /\ p \notin Storing /\ p \notin Storing'
      BY <1>2 DEF Creating, Storing
    <2>2. made.goal \in Nat /\ made.entry \in Nat /\ handled \in Nat /\ made'.goal \in Nat
      BY <1>1 DEF Locals
    <2>3. One(p \in Creating) \in 0..1 /\ One(p \in Creating') = 0
          /\ One(p \in Storing) = 0 /\ One(p \in Storing') = 0
      BY <2>1 DEF One
    <2>4. /\ made'.goal + One(p \in Creating') + handled <= made.goal + One(p \in Creating) + handled'
          /\ made'.entry + 2 * One(p \in Storing') + 2 * handled
                 <= made.entry + 2 * One(p \in Storing) + 2 * handled'
      BY <2>2, <2>3
    <2>5. handled' <= MaxRequests
      BY <1>1 DEF CountsFit
    <2> QED
      BY <1>4, <2>4, <2>5, CountsKept
  <1> QED
    BY <1>4, <1>5, <1>6, <1>7, <1>8, <1>9, <1>10, <1>11, DraftStep DEF Fits

(* GoalsService.create inserts the only active goal in its view.            *)
LEMMA GoalInserted ==
    ASSUME IInv, NEW p \in Process, InsertGoal(p)
    PROVE  IInv'
  <1> PICK g : g = <<"goal", made.goal + 1>>
    OBVIOUS
  <1> PICK u : u = req[p].user
    OBVIOUS
  <1> PICK v : v = GoalRow(u, TRUE, "active")
    OBVIOUS
  <1>1. CASE Fail(p)
    BY <1>1, Failed
  <1>2. CASE ~ Fail(p)
    <2>1. Locals /\ Fits(p) /\ FreshGoals
      BY Parts, IdParts
    <2>2. /\ pc[p] = "insert" /\ Step(p, "insert", "commit") /\ Stage(p, Only(g, v))
          /\ ActiveBlockers(p, u) = {} /\ ~ ActiveTaken(p, u, g)
          /\ made' = [made EXCEPT !.goal = @ + 1]
          /\ db' = db /\ req' = req /\ found' = found /\ targets' = targets /\ handled' = handled
      BY <1>2 DEF InsertGoal
    <2>3. req[p] \in Requests /\ u \in User /\ req[p].op = "create"
      BY <2>1, <2>2, RequestOf DEF Fits, StatementFits
    <2>4. p \in Creating
      BY <2>2, <2>3 DEF Creating
    <2>5. made.goal \in Nat /\ handled \in Nat /\ g \in Goal /\ g[2] = made.goal + 1
          /\ made.goal + 1 \in 1..MaxRows
      BY <2>4, Room, Names
    <2>6. v \in GoalRows /\ v.owner = u /\ v.isActive = TRUE /\ v.status = "active"
      BY <2>3, NewRow
    <2>7. db[g] = Absent /\ \A q \in Process : g \notin DOMAIN draft[q]
      BY <2>1, <2>5 DEF FreshGoals
    <2>8. /\ made' \in [goal : Nat, entry : Nat] /\ made'.entry = made.entry
          /\ made'.goal = made.goal + 1
      BY <2>1, <2>2 DEF Locals
    <2>9. /\ made'.goal >= made.goal /\ g[2] <= made'.goal
          /\ made'.goal + handled <= made.goal + One(p \in Creating) + handled'
      BY <2>2, <2>4, <2>5, <2>8 DEF One
    <2>10. draft'[p][g] = v
      BY <2>1, <2>2 DEF Stage, Over, Only, Locals
    <2>11. Done(p, g)'
      BY <2>2, <2>3, <2>7, <2>10 DEF Done
    <2>12. StatusFits(v)
      BY <2>6 DEF StatusFits
    <2>13. ASSUME NEW w \in User, IsActive(v, w)
           PROVE  /\ \A q \in Process \ {p} : ~ Activates(q, w)
                  /\ \A h \in Goal \ {g} : ~ IsActive(Seen(p)[h], w)
      <3>1. w = u
        BY <2>6, <2>13 DEF IsActive, Owned
      <3>2. \A q \in Process : DOMAIN draft[q] \subseteq Goal
        BY Parts DEF Fits, Typed
      <3>3. \A q \in Process \ {p} : ~ Activates(q, u)
        BY <2>2, <3>2 DEF ActiveBlockers, Activates
      <3>4. \A h \in Goal \ {g} : ~ IsActive(Seen(p)[h], u)
        BY <2>2 DEF ActiveTaken
      <3> QED
        BY <3>1, <3>3, <3>4
    <2>14. Alone(p, g, v)
      BY <2>13 DEF Alone
    <2> QED
      BY <2>2, <2>5, <2>6, <2>7, <2>8, <2>9, <2>11, <2>12, <2>14, OneStaged
  <1> QED
    BY <1>1, <1>2

(* Ending a goal writes its outcome into the draft.                         *)
LEMMA Ended ==
    ASSUME IInv, NEW p \in Process, EndGoal(p)
    PROVE  IInv'
  <1> PICK g : g = req[p].goal
    OBVIOUS
  <1> PICK u : u = req[p].user
    OBVIOUS
  <1> PICK v : v = GoalRow(u, FALSE, req[p].status)
    OBVIOUS
  <1>1. CASE Fail(p)
    BY <1>1, Failed
  <1>2. CASE ~ Fail(p)
    <2>1. Locals
      BY Parts
    <2>2. /\ pc[p] = "write" /\ Step(p, "write", "commit") /\ Stage(p, Only(g, v))
          /\ req[p].op = "end" /\ IsActive(db[g], u) /\ Writers(p, {g}) = {}
          /\ db' = db /\ made' = made /\ handled' = handled
          /\ req' = req /\ found' = found /\ targets' = targets
      BY <1>2 DEF EndGoal, Keep
    <2>3. req[p] \in Requests /\ u \in User /\ g \in Goal /\ req[p].status \in Closed
      BY <2>2, RequestOf, RequestParts
    <2>4. v \in GoalRows /\ v.owner = u /\ v.isActive = FALSE
      BY <2>3, EndedRow
    <2>5. made.goal \in Nat /\ handled \in Nat /\ made' \in [goal : Nat, entry : Nat]
      BY <2>1, <2>2 DEF Locals
    <2>6. g[2] <= made'.goal
      <3>1. db[g] # Absent /\ g[2] \in 1..MaxRows /\ g = <<"goal", g[2]>>
        BY <2>2, <2>3, Names DEF IsActive, Owned
      <3>2. ~ (g[2] > made.goal)
        BY <3>1, Parts, IdParts DEF FreshGoals
      <3> QED
        BY <2>2, <2>5, <3>1, <3>2
    <2>7. /\ made'.goal >= made.goal
          /\ made'.goal + handled <= made.goal + One(p \in Creating) + handled'
      BY <2>2, <2>5 DEF One
    <2>8. draft'[p][g] = v
      BY <2>1, <2>2 DEF Stage, Over, Only, Locals
    <2>9. \A q \in Process \ {p} : g \notin DOMAIN draft[q]
      BY <2>2 DEF Writers
    <2>10. Done(p, g)'
      BY <2>2, <2>8 DEF Done
    <2>11. StatusFits(v) /\ Alone(p, g, v)
      BY <2>4 DEF StatusFits, IsActive, Alone
    <2> QED
      BY <2>2, <2>3, <2>4, <2>5, <2>6, <2>7, <2>9, <2>10, <2>11, OneStaged
  <1> QED
    BY <1>1, <1>2

(* GoalsService.update writes the goal from what it read first.             *)
LEMMA Updated ==
    ASSUME IInv, NEW p \in Process, UpdateGoal(p)
    PROVE  IInv'
  <1> PICK g : g = req[p].goal
    OBVIOUS
  <1> PICK u : u = req[p].user
    OBVIOUS
  <1> PICK v : v = UpdatedGoal(req[p], found[p], db[g])
    OBVIOUS
  <1>1. CASE Fail(p)
    BY <1>1, Failed
  <1>2. CASE ~ Fail(p)
    <2>1. Tables /\ Locals /\ Fits(p) /\ Views /\ FreshGoals
      BY Parts, IdParts
    <2>2. /\ pc[p] = "write" /\ req[p].op = "update" /\ Step(p, "write", "commit")
          /\ Stage(p, Only(g, UpdatedGoal(req[p], found[p], Seen(p)[g])))
          /\ Writers(p, {g}) = {}
          /\ req[p].isActive = TRUE => ActiveBlockers(p, u) = {} /\ ~ ActiveTaken(p, u, g)
          /\ db' = db /\ made' = made /\ handled' = handled
          /\ req' = req /\ found' = found /\ targets' = targets
      BY <1>2 DEF UpdateGoal, Keep
    <2>3. req[p] \in Requests /\ u \in User /\ g \in Goal /\ req[p].isActive \in BOOLEAN \cup {Same}
      BY <2>2, RequestOf, RequestParts
    <2>4. Owned(db[g], u) /\ found[p] \in GoalRows /\ g \notin DOMAIN draft[p]
      BY <2>1, <2>2 DEF Fits, CheckedHolds, DraftFits
    <2>5. db[g] \in GoalRows /\ db[g].owner = u
      BY <2>1, <2>3, <2>4 DEF Tables, Owned
    <2>6. Seen(p)[g] = db[g]
      BY <2>1, <2>3, <2>4, SeenRow, Names DEF Fits
    <2>7. Stage(p, Only(g, v))
      BY <2>2, <2>6
    <2>8. draft'[p][g] = v
      BY <2>1, <2>7 DEF Stage, Over, Only, Locals
    <2>9. Done(p, g)'
      BY <2>2, <2>8 DEF Done
    <2>10. /\ v \in GoalRows /\ v.owner = u
           /\ req[p].isActive = TRUE => v.status = "active"
           /\ req[p].isActive = FALSE => v.isActive = FALSE
           /\ req[p].isActive = Same => v = db[g]
      <3>1. UpdateResult(req[p], found[p], db[g], v)
        BY <2>3, <2>4, <2>5, UpdatedRow
      <3> QED
        BY <2>5, <3>1 DEF UpdateResult
    <2>11. made.goal \in Nat /\ handled \in Nat /\ made' \in [goal : Nat, entry : Nat]
      BY <2>1, <2>2 DEF Locals
    <2>12. g[2] <= made'.goal
      <3>1. db[g] # Absent /\ g[2] \in 1..MaxRows /\ g = <<"goal", g[2]>>
        BY <2>3, <2>4, Names DEF Owned
      <3>2. ~ (g[2] > made.goal)
        BY <2>1, <3>1 DEF FreshGoals
      <3> QED
        BY <2>2, <2>11, <3>1, <3>2
    <2>13. /\ made'.goal >= made.goal
           /\ made'.goal + handled <= made.goal + One(p \in Creating) + handled'
      BY <2>2, <2>11 DEF One
    <2>14. \A q \in Process \ {p} : g \notin DOMAIN draft[q]
      BY <2>2 DEF Writers
    <2>15. StatusFits(db[g]) /\ \A q \in Process : DOMAIN draft[q] \subseteq Goal /\ OneInView(q) /\ Typed(q)
      BY <2>1, <2>3, Parts DEF Views, Fits, Typed
    <2>16. StatusFits(v)
      BY <2>3, <2>10, <2>15 DEF StatusFits
    <2>17. ASSUME NEW w \in User, IsActive(v, w)
           PROVE  /\ \A q \in Process \ {p} : ~ Activates(q, w)
                  /\ \A h \in Goal \ {g} : ~ IsActive(Seen(p)[h], w)
      <3>1. w = u /\ req[p].isActive # FALSE
        BY <2>10, <2>17 DEF IsActive, Owned
      <3>2. CASE req[p].isActive = TRUE
        <4>1. \A q \in Process \ {p} : ~ Activates(q, u)
          BY <2>2, <2>15, <3>2 DEF ActiveBlockers, Activates
        <4>2. \A h \in Goal \ {g} : ~ IsActive(Seen(p)[h], u)
          BY <2>2, <3>2 DEF ActiveTaken
        <4> QED
          BY <3>1, <4>1, <4>2
      <3>3. CASE req[p].isActive = Same
        <4>1. IsActive(db[g], w)
          BY <2>10, <2>17, <3>3
        <4>2. IsActive(Seen(p)[g], w)
          BY <2>6, <4>1
        <4>3. \A h \in Goal \ {g} : ~ IsActive(Seen(p)[h], w)
          BY <2>3, <2>15, <4>2 DEF OneInView
        <4>4. ASSUME NEW q \in Process \ {p}, Activates(q, w)
              PROVE  FALSE
          <5>1. PICK h \in DOMAIN draft[q] : IsActive(draft[q][h], w)
            BY <4>4 DEF Activates
          <5>2. h \in Goal /\ h # g
            BY <2>14, <2>15
          <5>3. IsActive(Seen(q)[h], w) /\ IsActive(Seen(q)[g], w)
            BY <2>1, <2>3, <2>14, <2>15, <4>1, <5>1, <5>2, SeenRow, Names
          <5> QED
            BY <2>3, <2>15, <5>2, <5>3 DEF OneInView
        <4> QED
          BY <4>3, <4>4
      <3> QED
        BY <2>3, <3>1, <3>2, <3>3
    <2>18. Alone(p, g, v)
      BY <2>17 DEF Alone
    <2> QED
      BY <2>2, <2>3, <2>7, <2>9, <2>10, <2>11, <2>12, <2>13, <2>14, <2>16, <2>18, OneStaged
  <1> QED
    BY <1>1, <1>2

(* What a commit makes of a goal: the goal of the same customer.            *)
LEMMA DraftRow ==
    ASSUME IInv, NEW p \in Process, NEW g \in DOMAIN draft[p]
    PROVE  /\ g \in Goal /\ draft[p][g] \in GoalRows /\ draft[p][g] # Absent
           /\ db[g] # Absent => draft[p][g].owner = db[g].owner
  <1>1. Tables /\ Fits(p)
    BY Parts
  <1>2. g \in Goal /\ draft[p][g] \in GoalRows
    BY <1>1 DEF Fits, Typed
  <1>3. db[g] # Absent => db[g] \in GoalRows
    BY <1>1, <1>2 DEF Tables
  <1>4. CASE Replaced(p, g)
    <2>1. /\ db[g] \in GoalRows
          /\ draft[p][g] = [db[g] EXCEPT !.isActive = FALSE, !.status = "replaced"]
      BY <1>3, <1>4 DEF Replaced, IsActive, Owned
    <2>2. draft[p][g].owner = db[g].owner
      BY <2>1, ReplacedRow
    <2> QED
      BY <1>2, <2>2, ValuesApart
  <1>5. CASE pc[p] = "commit" /\ Done(p, g)
    <2>1. req[p] \in Requests /\ req[p].op \in {"create", "update", "end"}
      BY <1>1, <1>5, RequestOf DEF Fits, StatementFits
    <2>2. CASE req[p].op = "create"
      BY <1>2, <1>5, <2>2, ValuesApart DEF Done
    <2>3. CASE req[p].op = "update"
      <3>1. req[p].isActive \in BOOLEAN \cup {Same} /\ found[p] \in GoalRows
        BY <1>1, <1>5, <2>1, <2>3, RequestParts DEF Fits, CheckedHolds
      <3>2. draft[p][g] = UpdatedGoal(req[p], found[p], db[g])
        BY <1>5, <2>3 DEF Done
      <3>3. CASE db[g] # Absent
        <4>1. UpdateResult(req[p], found[p], db[g], draft[p][g])
          BY <1>3, <3>1, <3>2, <3>3, UpdatedRow
        <4> QED
          BY <1>2, <4>1, ValuesApart DEF UpdateResult
      <3> QED
        BY <1>2, <3>3, ValuesApart
    <2>4. CASE req[p].op = "end"
      <3>1. IsActive(db[g], req[p].user) /\ draft[p][g] = GoalRow(req[p].user, FALSE, req[p].status)
        BY <1>5, <2>4 DEF Done
      <3>2. req[p].user \in User /\ req[p].status \in Closed
        BY <2>1, <2>4, RequestParts
      <3> QED
        BY <1>2, <3>1, <3>2, EndedRow, ValuesApart DEF IsActive, Owned
    <2> QED
      BY <2>1, <2>2, <2>3, <2>4
  <1> QED
    BY <1>1, <1>4, <1>5 DEF Fits, DraftFits

(* The draft of a goal transaction becomes the table.                       *)
LEMMA Committed ==
    ASSUME IInv, NEW p \in Process, CommitGoal(p)
    PROVE  IInv'
  <1>1. Tables /\ Views /\ IdsFresh /\ EntriesSound /\ Locals /\ Fits(p)
    BY Parts
  <1>2. /\ db' = Seen(p) /\ made' = made /\ DOMAIN draft' = Process /\ draft'[p] = <<>>
        /\ Forget(p)
        /\ \A q \in Process \ {p} : draft'[q] = draft[q]
    BY <1>1 DEF CommitGoal, Commit, Release, Locals
  <1>3. DOMAIN draft'[p] = {}
    BY <1>2, Empty
  <1>4. /\ Locals' /\ Fits(p)' /\ p \notin Creating' /\ p \notin Storing' /\ handled' = handled
        /\ \A q \in Process \ {p} : SameFor(q)
    <2>1. made' \in [goal : Nat, entry : Nat]
      BY <1>1, <1>2 DEF Locals
    <2> QED
      BY <1>2, <1>3, <2>1, Forgotten
  <1>5. OthersSame(p)
    BY <1>2, <1>4 DEF OthersSame
  <1>6. /\ DOMAIN db' = Row
        /\ \A r \in Row : db'[r] = IF r \in DOMAIN draft[p] THEN draft[p][r] ELSE db[r]
    <2>1. DOMAIN Seen(p) = Row
      BY <1>1, Names DEF Seen, Over, Tables, Fits, Typed
    <2> QED
      BY <1>1, <1>2, <2>1, SeenRow DEF Fits
  <1>7. \A x \in Entry : db'[x] = db[x]
    BY <1>1, <1>6, Names DEF Fits, Typed
  <1>8. Tables'
    BY <1>1, <1>6, <1>7, DraftRow, Names DEF Tables
  <1>9. GoalsStay
    BY <1>6, DraftRow, Names DEF GoalsStay
  <1>10. EntriesStay
    <2>1. made.entry \in Nat
      BY <1>1 DEF Locals
    <2> QED
      BY <1>2, <1>7, <2>1 DEF EntriesStay
  <1>11. \A q \in Process \ {p} : LockedStay(q)
    <2>1. \A q \in Process \ {p} : DOMAIN draft[q] \subseteq Goal /\ DOMAIN draft[p] \cap DOMAIN draft[q] = {}
      BY <1>1, Parts DEF Views, LockedByOne, Fits, Typed
    <2> QED
      BY <1>6, <2>1, Names DEF LockedStay
  <1>12. EntriesSound'
    BY <1>1, <1>7, <1>9, EntriesKept
  <1>13. Views'
    <2>1. \A q \in Process : Typed(q)'
      BY <1>4, <1>5, AllTyped DEF Fits
    <2>2. \A g \in Goal : db'[g] = Seen(p)[g]
      BY <1>2
    <2> QED
      BY <1>2, <1>3, <1>8, <2>1, <2>2, ViewsCommitted
  <1>14. IdsFresh'
    <2>1. FreshGoals' /\ FreshEntries'
      BY <1>1, <1>2, <1>3, <1>6, <1>7, IdParts, Names DEF FreshGoals, FreshEntries
    <2>2. CountsFit'
      BY <1>2, <1>4, <1>5, CountsUnmoved
    <2> QED
      BY <2>1, <2>2, IdPartsNext
  <1> QED
    BY <1>4, <1>5, <1>8, <1>9, <1>10, <1>11, <1>12, <1>13, <1>14, RequestStep

(* Every statement of every request keeps the invariant.                    *)
LEMMA StatementStep ==
    ASSUME IInv, NEW p \in Process, Statement(p)
    PROVE  IInv'
  <1>1. PreviewEmpty(p) \/ Abort(p) => Fail(p)
    BY DEF PreviewEmpty, Abort
  <1>2. Fail(p) => IInv'
    BY Failed
  <1> QED
    BY <1>1, <1>2, Scanned, GoalsReplaced, GoalInserted, GoalRead, Updated, Ended, Committed, Checked, Recorded,
       Previewed, Confirmed, Revised, Removed, Failed DEF Statement

(* What a step of a request does to its place, and to goals.                *)
LEMMA Progress ==
    ASSUME IInv, NEW p \in Process, Statement(p)
    PROVE  /\ pc[p] # "idle"
           /\ \A q \in Process \ {p} : pc'[q] = pc[q] /\ req'[q] = req[q]
           /\ pc'[p] # "idle" => req'[p] = req[p]
  <1>1. DOMAIN pc = Process /\ DOMAIN req = Process
    BY Parts DEF Locals
  <1>2. ASSUME Forget(p)
        PROVE  \A q \in Process \ {p} : pc'[q] = pc[q] /\ req'[q] = req[q]
    BY <1>1, <1>2 DEF Forget
  <1>3. ASSUME Forget(p)
        PROVE  pc'[p] = "idle"
    BY <1>1, <1>3 DEF Forget
  <1>4. ASSUME NEW from, NEW to, Step(p, from, to)
        PROVE  pc[p] = from /\ pc'[p] = to /\ \A q \in Process \ {p} : pc'[q] = pc[q]
    BY <1>1, <1>4 DEF Step
  <1>5. CASE Fail(p) /\ (Abort(p) \/ PreviewEmpty(p))
    BY <1>2, <1>3, <1>5 DEF Fail, Abort, Waiting, PreviewEmpty
  <1>6. CASE CommitGoal(p) \/ CreateEntry(p) \/ ConfirmImport(p) \/ ReviseEntry(p) \/ RemoveEntry(p)
    BY <1>2, <1>3, <1>6 DEF CommitGoal, CreateEntry, ConfirmImport, ReviseEntry, RemoveEntry, Fail
  <1>7. CASE ScanActive(p) \/ PreviewImport(p)
    <2>1. req' = req
      BY <1>7 DEF ScanActive, PreviewImport, Keep
    <2>2. Step(p, "scan", "replace") \/ Step(p, "preview", "confirm")
      BY <1>7 DEF ScanActive, PreviewImport
    <2> QED
      BY <1>4, <2>1, <2>2
  <1>8. CASE Replace(p)
    <2>1. req' = req /\ Step(p, "replace", IF req[p].op = "create" THEN "insert" ELSE "write")
      BY <1>8 DEF Replace, Keep
    <2> QED
      BY <1>4, <2>1
  <1>9. CASE Fail(p) /\ (InsertGoal(p) \/ ReadGoal(p) \/ UpdateGoal(p) \/ EndGoal(p) \/ EnsureOwned(p))
    BY <1>2, <1>3, <1>9 DEF Fail, InsertGoal, ReadGoal, UpdateGoal, EndGoal, EnsureOwned
  <1>10. CASE ~ Fail(p) /\ (InsertGoal(p) \/ UpdateGoal(p) \/ EndGoal(p))
    <2>1. req' = req /\ (Step(p, "insert", "commit") \/ Step(p, "write", "commit"))
      BY <1>10 DEF InsertGoal, UpdateGoal, EndGoal, Keep
    <2> QED
      BY <1>4, <2>1
  <1>11. CASE ~ Fail(p) /\ ReadGoal(p)
    <2>1. req' = req
          /\ Step(p, "read", IF req[p].op = "update" /\ req[p].isActive = TRUE THEN "scan" ELSE "write")
      BY <1>11 DEF ReadGoal, Keep
    <2> QED
      BY <1>4, <2>1
  <1>12. CASE ~ Fail(p) /\ EnsureOwned(p)
    <2>1. req' = req /\ Step(p, "check", IF req[p].op = "import" THEN "preview" ELSE "store")
      BY <1>12 DEF EnsureOwned
    <2> QED
      BY <1>4, <2>1
  <1> QED
    BY <1>5, <1>6, <1>7, <1>8, <1>9, <1>10, <1>11, <1>12 DEF Statement, PreviewEmpty, Abort

(* No statement but the commit of a goal transaction changes a goal.        *)
LEMMA OnlyCommits ==
    ASSUME IInv, NEW p \in Process, Statement(p)
    PROVE  GoalsKept \/ CommitGoal(p)
  <1>1. ASSUME Fail(p)
        PROVE  GoalsKept
    BY <1>1 DEF Fail, Rollback, GoalsKept
  <1>2. ASSUME db' = db
        PROVE  GoalsKept
    BY <1>2 DEF GoalsKept
  <1>3. CASE ScanActive(p) \/ Replace(p) \/ PreviewImport(p)
    BY <1>2, <1>3 DEF ScanActive, Replace, PreviewImport, Keep, txVars
  <1>4. CASE InsertGoal(p) \/ ReadGoal(p) \/ UpdateGoal(p) \/ EndGoal(p) \/ EnsureOwned(p)
    BY <1>1, <1>2, <1>4 DEF InsertGoal, ReadGoal, UpdateGoal, EndGoal, EnsureOwned, Keep, txVars
  <1>5. CASE Abort(p) \/ PreviewEmpty(p)
    BY <1>1, <1>5 DEF Abort, PreviewEmpty
  <1> QED
    BY <1>1, <1>3, <1>4, <1>5, Recorded, Confirmed, Revised, Removed DEF Statement

-----------------------------------------------------------------------------
(* What a commit does to the goals of a customer.                           *)
ReplacementKept ==
    \A u \in User : HasActive(u) /\ ~ HasActive(u)' =>
          \E p \in Process : /\ pc[p] = "commit" /\ req[p].user = u
                             /\ \/ req[p].op = "end"
                                \/ req[p].op = "update" /\ req[p].isActive = FALSE
OutcomesKept ==
    \A g \in Goal : db[g] # Absent /\ db[g].status # "active" /\ db'[g] # db[g] =>
          \E p \in Process : /\ pc[p] = "commit" /\ req[p].op = "update" /\ req[p].goal = g
                             /\ (req[p].isActive = TRUE \/ found[p].isActive)

(* What is known of a request whose goal transaction is about to commit.    *)
LEMMA AtCommit ==
    ASSUME IInv, NEW p \in Process, CommitGoal(p)
    PROVE  /\ pc[p] = "commit" /\ req[p] \in Requests /\ req[p].user \in User
           /\ req[p].op \in {"create", "update", "end"}
           /\ req[p].op = "update" =>
                 /\ req[p].goal \in Goal /\ req[p].isActive \in BOOLEAN \cup {Same}
                 /\ Owned(db[req[p].goal], req[p].user) /\ db[req[p].goal] \in GoalRows
                 /\ UpdateResult(req[p], found[p], db[req[p].goal],
                                 UpdatedGoal(req[p], found[p], db[req[p].goal]))
           /\ \A g \in Goal : db'[g] = IF g \in DOMAIN draft[p] THEN draft[p][g] ELSE db[g]
           /\ DOMAIN draft[p] \subseteq Goal
  <1>1. Tables /\ Fits(p)
    BY Parts
  <1>2. pc[p] = "commit" /\ db' = Seen(p)
    BY DEF CommitGoal, Commit
  <1>3. req[p] \in Requests /\ req[p].user \in User /\ req[p].op \in {"create", "update", "end"}
    BY <1>1, <1>2, RequestOf DEF Fits, StatementFits
  <1>4. ASSUME req[p].op = "update"
        PROVE  /\ req[p].goal \in Goal /\ req[p].isActive \in BOOLEAN \cup {Same}
               /\ Owned(db[req[p].goal], req[p].user) /\ db[req[p].goal] \in GoalRows
               /\ found[p] \in GoalRows
    <2>1. req[p].goal \in Goal /\ req[p].isActive \in BOOLEAN \cup {Same}
      BY <1>3, <1>4, RequestParts
    <2>2. Owned(db[req[p].goal], req[p].user) /\ found[p] \in GoalRows
      BY <1>1, <1>2, <1>4 DEF Fits, CheckedHolds
    <2> QED
      BY <1>1, <2>1, <2>2 DEF Tables, Owned
  <1>5. req[p].op = "update" => UpdateResult(req[p], found[p], db[req[p].goal],
                                             UpdatedGoal(req[p], found[p], db[req[p].goal]))
    BY <1>4, UpdatedRow
  <1>6. \A g \in Goal : db'[g] = IF g \in DOMAIN draft[p] THEN draft[p][g] ELSE db[g]
    BY <1>1, <1>2, SeenRow, Names DEF Fits
  <1> QED
    BY <1>1, <1>2, <1>3, <1>4, <1>5, <1>6 DEF Fits, Typed

(* A commit that leaves a customer without active goal ends it or           *)
(* deactivates it; creating another never does.                             *)
LEMMA CommitReplaces ==
    ASSUME IInv, NEW p \in Process, CommitGoal(p), NEW u \in User, HasActive(u), ~ HasActive(u)'
    PROVE  /\ pc[p] = "commit" /\ req[p].user = u
           /\ \/ req[p].op = "end"
              \/ req[p].op = "update" /\ req[p].isActive = FALSE
  <1>1. PICK g \in Goal : IsActive(db[g], u)
    BY DEF HasActive
  <1>2. \A h \in Goal : ~ IsActive(db'[h], u)
    BY DEF HasActive
  <1>3. /\ pc[p] = "commit" /\ req[p].user \in User
        /\ req[p].op \in {"create", "update", "end"}
        /\ \A h \in Goal : db'[h] = IF h \in DOMAIN draft[p] THEN draft[p][h] ELSE db[h]
        /\ DOMAIN draft[p] \subseteq Goal
    BY AtCommit
  <1>4. g \in DOMAIN draft[p]
    BY <1>1, <1>2, <1>3
  <1>5. DraftFits(p)
    BY Parts DEF Fits
  <1>6. ASSUME req[p].op = "update", req[p].isActive # FALSE, NEW h \in DOMAIN draft[p], Done(p, h),
               IsActive(db[h], u) \/ (req[p].user = u /\ req[p].isActive = TRUE)
        PROVE  FALSE
    <2>1. /\ h = req[p].goal /\ Owned(db[h], req[p].user) /\ req[p].isActive \in {TRUE, Same}
          /\ UpdateResult(req[p], found[p], db[h], draft[p][h])
      <3>1. h = req[p].goal /\ draft[p][h] = UpdatedGoal(req[p], found[p], db[h])
        BY <1>6 DEF Done
      <3>2. Owned(db[req[p].goal], req[p].user) /\ req[p].isActive \in BOOLEAN \cup {Same}
        BY <1>6, AtCommit
      <3>3. UpdateResult(req[p], found[p], db[req[p].goal],
                         UpdatedGoal(req[p], found[p], db[req[p].goal]))
        BY <1>6, AtCommit
      <3>4. req[p].isActive \in {TRUE, Same}
        BY <1>6, <3>2
      <3> QED
        BY <3>1, <3>2, <3>3, <3>4
    <2>2. IsActive(draft[p][h], u)
      <3>1. CASE req[p].isActive = TRUE
        BY <1>6, <2>1, <3>1, DraftRow DEF UpdateResult, IsActive, Owned
      <3>2. CASE req[p].isActive = Same
        <4>1. draft[p][h] = db[h] /\ Same # TRUE
          BY <2>1, <3>2, ValuesApart DEF UpdateResult
        <4> QED
          BY <1>6, <3>2, <4>1
      <3> QED
        BY <2>1, <3>1, <3>2
    <2> QED
      BY <1>2, <1>3, <2>2
  <1>7. CASE Replaced(p, g)
    <2>1. req[p].user = u
      BY <1>1, <1>7 DEF Replaced, IsActive, Owned
    <2>2. PICK h \in DOMAIN draft[p] : Done(p, h)
      BY <1>3, <1>5 DEF DraftFits
    <2>3. CASE req[p].op = "create"
      <3>1. draft[p][h] = GoalRow(u, TRUE, "active") /\ draft[p][h] # Absent
        BY <2>1, <2>2, <2>3, DraftRow DEF Done
      <3>2. IsActive(draft[p][h], u)
        BY <3>1, NewRow DEF IsActive, Owned
      <3> QED
        BY <1>2, <1>3, <3>2
    <2>4. CASE req[p].op = "update"
      <3>1. req[p].isActive \in BOOLEAN \cup {Same}
        BY <2>4, AtCommit
      <3>2. CASE req[p].isActive = FALSE
        BY <1>3, <2>1, <2>4, <3>2
      <3>3. CASE req[p].isActive = TRUE
        BY <1>6, <2>1, <2>2, <2>4, <3>3
      <3>4. CASE req[p].isActive = Same
        <4>1. Same # TRUE /\ Same # FALSE
          BY ValuesApart
        <4>2. Done(p, g)
          BY <1>3, <1>4, <1>5, <2>4, <3>4, <4>1 DEF DraftFits
        <4> QED
          BY <1>1, <1>4, <1>6, <2>4, <3>4, <4>1, <4>2
      <3> QED
        BY <3>1, <3>2, <3>3, <3>4
    <2>5. CASE req[p].op = "end"
      BY <1>3, <2>1, <2>5
    <2> QED
      BY <1>3, <2>3, <2>4, <2>5
  <1>8. CASE Done(p, g)
    <2>1. CASE req[p].op = "create"
      BY <1>1, <1>8, <2>1 DEF Done, IsActive, Owned
    <2>2. CASE req[p].op = "update"
      <3>1. g = req[p].goal /\ Owned(db[g], req[p].user)
        BY <1>8, <2>2, AtCommit DEF Done
      <3>2. req[p].user = u
        BY <1>1, <3>1 DEF IsActive, Owned
      <3> QED
        BY <1>1, <1>3, <1>4, <1>6, <1>8, <2>2, <3>2
    <2>3. CASE req[p].op = "end"
      BY <1>1, <1>3, <1>8, <2>3 DEF Done, IsActive, Owned
    <2> QED
      BY <1>3, <2>1, <2>2, <2>3
  <1> QED
    BY <1>4, <1>5, <1>7, <1>8 DEF DraftFits

(* A commit that changes a finished goal is an update that activates it, or *)
(* that read it before it was finished.                                     *)
LEMMA CommitKeepsOutcome ==
    ASSUME IInv, NEW p \in Process, CommitGoal(p), NEW g \in Goal,
           db[g] # Absent, db[g].status # "active", db'[g] # db[g]
    PROVE  /\ pc[p] = "commit" /\ req[p].op = "update" /\ req[p].goal = g
           /\ req[p].isActive = TRUE \/ found[p].isActive
  <1>1. Tables /\ Views /\ DraftFits(p)
    BY Parts DEF Fits
  <1>2. /\ pc[p] = "commit" /\ req[p].op \in {"create", "update", "end"}
        /\ g \in DOMAIN draft[p] /\ db'[g] = draft[p][g]
    BY AtCommit
  <1>3. db[g] \in GoalRows /\ ~ db[g].isActive
    BY <1>1 DEF Tables, Views, StatusFits
  <1>4. Done(p, g)
    BY <1>1, <1>2, <1>3 DEF DraftFits, Replaced, IsActive
  <1>5. req[p].op = "update"
    BY <1>2, <1>3, <1>4 DEF Done, IsActive
  <1>6. /\ g = req[p].goal /\ req[p].isActive \in BOOLEAN \cup {Same}
        /\ UpdateResult(req[p], found[p], db[g], draft[p][g])
    BY <1>4, <1>5, AtCommit DEF Done
  <1>7. req[p].isActive = TRUE \/ found[p].isActive
    BY <1>2, <1>3, <1>6 DEF UpdateResult
  <1> QED
    BY <1>2, <1>5, <1>6, <1>7

(* Both promises about goals hold of every statement.                       *)
LEMMA GoalsStep ==
    ASSUME IInv, NEW p \in Process, Statement(p)
    PROVE  ReplacementKept /\ OutcomesKept
  <1>1. CASE GoalsKept
    <2>1. \A u \in User : HasActive(u)' <=> HasActive(u)
      BY <1>1 DEF HasActive, GoalsKept
    <2> QED
      BY <1>1, <2>1 DEF ReplacementKept, OutcomesKept, GoalsKept
  <1>2. CASE CommitGoal(p)
    <2>1. ReplacementKept
      BY <1>2, CommitReplaces DEF ReplacementKept
    <2>2. OutcomesKept
      BY <1>2, CommitKeepsOutcome DEF OutcomesKept
    <2> QED
      BY <2>1, <2>2
  <1> QED
    BY <1>1, <1>2, OnlyCommits

(* Both hold of a step that leaves the tables alone.                        *)
LEMMA GoalsRest ==
    ASSUME db' = db
    PROVE  ReplacementKept /\ OutcomesKept
  BY DEF ReplacementKept, OutcomesKept, HasActive

-----------------------------------------------------------------------------
(* Steps that leave the records alone.                                      *)
LEMMA RecordsRest ==
    ASSUME IInv, UNCHANGED recordVars
    PROVE  IInv'
  <1>1. Tables /\ Views /\ IdsFresh /\ EntriesSound /\ Locals /\ \A p \in Process : Fits(p)
    BY Parts
  <1>2. /\ db' = db /\ draft' = draft /\ pc' = pc /\ req' = req /\ found' = found
        /\ targets' = targets /\ made' = made /\ handled' = handled
    BY DEF recordVars, txVars
  <1>3. Tables' /\ Locals'
    BY <1>1, <1>2 DEF Tables, Locals
  <1>4. GoalsStay /\ \A p \in Process : LockedStay(p) /\ SameFor(p)
    BY <1>2 DEF GoalsStay, LockedStay, SameFor
  <1>5. EntriesStay
    <2>1. made.entry \in Nat
      BY <1>1 DEF Locals
    <2> QED
      BY <1>2, <2>1 DEF EntriesStay
  <1>6. EntriesSound'
    BY <1>1, <1>2, <1>4, EntriesKept
  <1>7. \A p \in Process : Fits(p)'
    BY <1>1, <1>2, <1>3, <1>4, <1>5, Unconcerned
  <1>8. Views'
    BY <1>2, <1>3, <1>7, ViewsUnread DEF Fits
  <1>9. IdsFresh'
    BY <1>1, <1>2 DEF IdsFresh, Creating, Storing
  <1> QED
    BY <1>3, <1>6, <1>7, <1>8, <1>9, PartsKept

(* A request that begins leaves the tables and the other requests.          *)
LEMMA BegunAt ==
    ASSUME IInv, NEW p \in Process, NEW r \in Requests, Begin(p, r)
    PROVE  /\ pc[p] = "idle" /\ pc'[p] # "idle" /\ req'[p] = r /\ db' = db
           /\ \A q \in Process \ {p} : pc'[q] = pc[q] /\ req'[q] = req[q]
  <1>1. DOMAIN pc = Process /\ DOMAIN req = Process
    BY Parts DEF Locals
  <1>2. FirstStatement(r) # "idle"
    BY DEF FirstStatement
  <1> QED
    BY <1>1, <1>2 DEF Begin, Step, txVars

(* The phone's part of the invariant, request by request.                   *)
Phone ==
    /\ visit \in Visits /\ known \in Goal \cup {NoGoal, Unloaded}
    /\ DOMAIN list \subseteq Entry /\ \A x \in DOMAIN list : list[x] \in Goal \cup {NoGoal}
    /\ form \in [mode : {"view", "create", "edit", "replace"}, leftOpen : BOOLEAN]
    /\ ScreensFit /\ DOMAIN sent = Process
Noted(p) == NoteFits(p) /\ (sent[p] # NotSent => (sent[p].at = "sent" <=> pc[p] # "idle"))

(* The phone's note of a request is not the absence of one.                 *)
LEMMA NoteApart == NotSent \notin Notes /\ NotSent.kind = "none"
  BY DEF NotSent, Notes

(* The invariant of the forms: the records, the screens and each note.      *)
LEMMA PhoneParts == FormsInv <=> IInv /\ Phone /\ \A p \in Process : Noted(p)
  <1>1. \A p \in Process : NoteFits(p) /\ sent[p] # NotSent =>
            sent[p].kind \in {"save", "end", "add", "edit", "delete"}
    BY DEF NoteFits, Notes
  <1> QED
    BY <1>1 DEF FormsInv, PhoneTypeOK, Phone, Noted

(* The same, after the step.                                                *)
LEMMA PhonePartsNext ==
    ASSUME IInv', Phone', \A p \in Process : Noted(p)'
    PROVE  FormsInv'
  <1>1. \A p \in Process : NoteFits(p)' /\ sent'[p] # NotSent =>
            sent'[p].kind \in {"save", "end", "add", "edit", "delete"}
    BY DEF NoteFits, Notes
  <1> QED
    BY <1>1 DEF FormsInv, PhoneTypeOK, Phone, Noted

(* A note stays right while its request goes on.                            *)
LEMMA NotedSame ==
    ASSUME NEW p \in Process, Noted(p), sent'[p] = sent[p], req'[p] = req[p],
           pc'[p] = "idle" <=> pc[p] = "idle"
    PROVE  Noted(p)'
  BY DEF Noted, NoteFits

(* A request that the phone did not send has nothing to fit.                *)
LEMMA NotSentNoted ==
    ASSUME NEW p \in Process, sent'[p] = NotSent
    PROVE  Noted(p)'
  BY DEF Noted, NoteFits

-----------------------------------------------------------------------------
(* What the screens do.                                                     *)
LEMMA ScreensStep ==
    ASSUME FormsInv, Screens
    PROVE  FormsInv'
  <1>1. IInv /\ Phone /\ Tables /\ \A p \in Process : Noted(p)
    BY PhoneParts, Parts
  <1>2. UNCHANGED recordVars /\ visit' = visit /\ sent' = sent
    BY DEF Screens, LoadActiveGoal, LoadTransactions, OpenForm, CloseForm, ToggleGoal, CancelEdit, BeginEdit
  <1>3. IInv'
    BY <1>1, <1>2, RecordsRest
  <1>4. \A p \in Process : Noted(p)'
    BY <1>1, <1>2, NotedSame DEF recordVars
  <1>5. Phone'
    <2>1. CASE LoadActiveGoal
      <3>1. known' \in Goal \cup {NoGoal}
        BY <2>1 DEF LoadActiveGoal, HasActive
      <3> QED
        BY <1>1, <2>1, <3>1 DEF LoadActiveGoal, Phone, ScreensFit
    <2>2. CASE LoadTransactions
      <3>1. \A x \in Entry : Owned(db[x], Me) => db[x].goal \in Goal \cup {NoGoal}
        BY <1>1 DEF Tables, EntryRows, Owned
      <3> QED
        BY <1>1, <2>2, <3>1 DEF LoadTransactions, Phone, ScreensFit
    <2>3. CASE OpenForm("edit") \/ OpenForm("replace") \/ CloseForm
      <3>1. PICK m \in {"edit", "replace", "view"} : OpenForm(m)
        BY <2>3 DEF CloseForm
      <3>2. /\ form' = [mode |-> m, leftOpen |-> FALSE]
            /\ visit' = visit /\ known' = known /\ list' = list /\ editor' = editor /\ sent' = sent
        BY <3>1 DEF OpenForm
      <3>3. form' \in [mode : {"view", "create", "edit", "replace"}, leftOpen : BOOLEAN]
            /\ form'.mode # "create"
        BY <3>2
      <3> QED
        BY <1>1, <3>2, <3>3 DEF Phone, ScreensFit
    <2>4. CASE ToggleGoal
      <3>1. editor \in Editors
        BY <1>1, <2>4 DEF ToggleGoal, EditorOpen, Phone, ScreensFit
      <3>2. editor' = [editor EXCEPT !.tag = ~ editor.tag, !.touched = TRUE]
        BY <2>4 DEF ToggleGoal
      <3>3. editor' \in Editors
        BY <3>1, <3>2 DEF Editors
      <3> QED
        BY <1>1, <2>4, <3>3 DEF ToggleGoal, Phone, ScreensFit
    <2>5. CASE CancelEdit
      BY <1>1, <2>5 DEF CancelEdit, Phone, ScreensFit
    <2>6. CASE \E x \in DOMAIN list : BeginEdit(x)
      <3>1. PICK x \in DOMAIN list : BeginEdit(x)
        BY <2>6
      <3>2. editor' \in Editors
        BY <1>1, <3>1 DEF BeginEdit, Editors, Phone
      <3> QED
        BY <1>1, <3>1, <3>2 DEF BeginEdit, Phone, ScreensFit
    <2> QED
      BY <2>1, <2>2, <2>3, <2>4, <2>5, <2>6 DEF Screens
  <1> QED
    BY <1>3, <1>4, <1>5, PhonePartsNext

(* A call, with a note that says what it is.                                *)
NoteSays(n, r) ==
    /\ n \in Notes /\ n.at = "sent"
    /\ n.kind = "save" => \/ r.op = "create" /\ (n.asked \/ n.knew \notin Goal \/ n.leftOpen)
                          \/ r.op = "update" /\ r.isActive = Same
    /\ n.kind = "end" => r.op = "end"
    /\ n.kind = "add" => r.op = "record"
    /\ n.kind = "edit" => r.op = "revise" /\ (~ n.touched => r.goal = Same) /\ n.entry \in Entry
    /\ n.kind = "delete" => r.op = "remove"

(* The phone sends a request and notes what its form said.                  *)
LEMMA Called ==
    ASSUME FormsInv, NEW p \in Process, NEW r \in Requests, NEW n, Call(p, r, n), NoteSays(n, r),
           form' = form, editor' = editor
    PROVE  FormsInv'
  <1>1. IInv /\ Phone /\ \A q \in Process : Noted(q)
    BY PhoneParts
  <1>2. Begin(p, r) /\ visit' = visit /\ known' = known /\ list' = list
        /\ sent' = [sent EXCEPT ![p] = n]
    BY DEF Call
  <1>3. IInv'
    BY <1>1, <1>2, Begun
  <1>4. Phone'
    BY <1>1, <1>2 DEF Phone, ScreensFit
  <1>5. ASSUME NEW q \in Process
        PROVE  Noted(q)'
    <2>1. CASE q # p
      BY <1>1, <1>2, <2>1, BegunAt, NotedSame
    <2>2. CASE q = p
      <3>1. sent'[p] = n /\ req'[p] = r /\ pc'[p] # "idle"
        BY <1>1, <1>2, BegunAt DEF Phone
      <3> QED
        BY <2>2, <3>1 DEF NoteSays, Noted, NoteFits
    <2> QED
      BY <2>1, <2>2
  <1> QED
    BY <1>3, <1>4, <1>5, PhonePartsNext

(* A note of any kind is a note.                                            *)
LEMMA NoteOf ==
    ASSUME NEW kind \in {"save", "end", "add", "edit", "delete"}
    PROVE  Note(kind) \in Notes /\ Note(kind).at = "sent" /\ Note(kind).kind = kind
  BY DEF Note, Notes

(* The save, end, add, edit and delete buttons.                             *)
LEMMA CallsStep ==
    ASSUME FormsInv, NEW p \in Process, Calls(p)
    PROVE  FormsInv'
  <1>1. Phone /\ Me \in User
    BY PhoneParts, PhoneAssumption
  <1>2. CASE SaveGoal(p)
    <2>1. PICK n : n = [Note("save") EXCEPT !.knew = known, !.asked = (EffectiveMode = "replace"),
                                            !.leftOpen = form.leftOpen]
      OBVIOUS
    <2>2. /\ n \in Notes /\ n.at = "sent" /\ n.kind = "save" /\ n.knew = known
          /\ n.asked = (EffectiveMode = "replace") /\ n.leftOpen = form.leftOpen
      BY <1>1, <2>1 DEF Note, Notes, Phone
    <2>3. PICK r : r = GoalRequest
      OBVIOUS
    <2>4. /\ Call(p, r, n) /\ EffectiveMode # "view" /\ form' = form /\ editor' = editor
      BY <1>2, <2>1, <2>3 DEF SaveGoal
    <2>5. r \in Requests /\ \/ r.op = "create" /\ (n.asked \/ n.knew \notin Goal \/ n.leftOpen)
                            \/ r.op = "update" /\ r.isActive = Same
      <3>1. CASE EffectiveMode = "edit" /\ known \in Goal
        <4>1. r = [op |-> "update", user |-> Me, goal |-> known, isActive |-> Same]
          BY <2>3, <3>1 DEF GoalRequest
        <4> QED
          BY <1>1, <3>1, <4>1 DEF Requests
      <3>2. CASE ~ (EffectiveMode = "edit" /\ known \in Goal)
        <4>1. r = [op |-> "create", user |-> Me]
          BY <2>3, <3>2 DEF GoalRequest
        <4>2. r \in Requests /\ r.op = "create"
          BY <1>1, <4>1 DEF Requests
        <4>3. EffectiveMode = "replace" \/ known \notin Goal \/ form.leftOpen
          BY <1>1, <2>4, <3>2, ValuesApart DEF EffectiveMode, Phone, ScreensFit
        <4> QED
          BY <2>2, <4>2, <4>3
      <3> QED
        BY <3>1, <3>2
    <2>6. NoteSays(n, r)
      BY <2>2, <2>5 DEF NoteSays
    <2> QED
      BY <2>4, <2>5, <2>6, Called
  <1>3. CASE EndActiveGoal(p)
    <2>1. PICK status \in Closed :
             Call(p, [op |-> "end", user |-> Me, goal |-> known, status |-> status], Note("end"))
      BY <1>3 DEF EndActiveGoal
    <2>2. PICK r : r = [op |-> "end", user |-> Me, goal |-> known, status |-> status]
      OBVIOUS
    <2>3. r \in Requests /\ r.op = "end"
      BY <1>1, <1>3, <2>2 DEF Requests, EndActiveGoal
    <2>4. NoteSays(Note("end"), r)
      BY <2>3, NoteOf DEF NoteSays
    <2> QED
      BY <1>3, <2>1, <2>2, <2>3, <2>4, Called DEF EndActiveGoal
  <1>4. CASE AddTransaction(p)
    <2>1. PICK goal \in CanLink :
             Call(p, [op |-> "record", user |-> Me, goal |-> goal], Note("add"))
      BY <1>4 DEF AddTransaction
    <2>2. PICK r : r = [op |-> "record", user |-> Me, goal |-> goal]
      OBVIOUS
    <2>3. r \in Requests /\ r.op = "record"
      BY <1>1, <2>1, <2>2 DEF Requests, CanLink
    <2>4. NoteSays(Note("add"), r)
      BY <2>3, NoteOf DEF NoteSays
    <2> QED
      BY <1>4, <2>1, <2>2, <2>3, <2>4, Called DEF AddTransaction
  <1>5. CASE SaveEdit(p)
    <2>1. editor \in Editors
      BY <1>1, <1>5 DEF SaveEdit, EditorOpen, Phone, ScreensFit
    <2>2. PICK n : n = [Note("edit") EXCEPT !.touched = editor.touched, !.entry = editor.entry]
      OBVIOUS
    <2>3. /\ n \in Notes /\ n.at = "sent" /\ n.kind = "edit" /\ n.entry \in Entry
          /\ n.touched = editor.touched
      BY <2>1, <2>2 DEF Note, Notes, Editors
    <2>4. LinkToSend \in Goal \cup {NoGoal, Same} /\ (~ editor.touched => LinkToSend = Same)
      BY <2>1 DEF LinkToSend, ResolveTransactionGoalId, Editors
    <2>5. PICK r : r = [op |-> "revise", user |-> Me, entry |-> editor.entry, goal |-> LinkToSend]
      OBVIOUS
    <2>6. r \in Requests /\ r.op = "revise" /\ r.goal = LinkToSend
      BY <1>1, <2>1, <2>4, <2>5 DEF Requests, Editors
    <2>7. NoteSays(n, r)
      BY <2>3, <2>4, <2>6 DEF NoteSays
    <2>8. Call(p, r, n) /\ form' = form /\ editor' = editor
      BY <1>5, <2>2, <2>5 DEF SaveEdit
    <2> QED
      BY <2>6, <2>7, <2>8, Called
  <1>6. CASE \E x \in DOMAIN list : DeleteTransaction(p, x)
    <2>1. PICK x \in DOMAIN list : DeleteTransaction(p, x)
      BY <1>6
    <2>2. PICK r : r = [op |-> "remove", user |-> Me, entry |-> x]
      OBVIOUS
    <2>3. r \in Requests /\ r.op = "remove"
      BY <1>1, <2>2 DEF Requests, Phone
    <2>4. NoteSays(Note("delete"), r)
      BY <2>3, NoteOf DEF NoteSays
    <2> QED
      BY <2>1, <2>2, <2>3, <2>4, Called DEF DeleteTransaction
  <1> QED
    BY <1>2, <1>3, <1>4, <1>5, <1>6 DEF Calls

(* The server's answer.                                                     *)
LEMMA AnswerFits ==
    ASSUME IInv, NEW p \in Process, pc[p] # "idle", Succeeds(p)
    PROVE  Answer(p) \in Goal \cup {NoGoal}
  <1>1. Tables /\ Fits(p) /\ req[p] \in Requests
    BY Parts, RequestOf
  <1>2. CASE req[p].op = "create"
    <2>1. pc[p] = "commit"
      BY <1>1, <1>2 DEF Succeeds, Fits, StatementFits
    <2>2. PICK g \in DOMAIN draft[p] : Done(p, g)
      BY <1>1, <2>1 DEF Fits, DraftFits
    <2>3. db[g] = Absent
      BY <1>2, <2>2 DEF Done
    <2>4. Answer(p) \in DOMAIN draft[p]
      BY <1>2, <2>3 DEF Answer
    <2> QED
      BY <1>1, <2>4 DEF Fits, Typed
  <1>3. CASE req[p].op = "revise"
    <2>1. req[p].entry \in Entry /\ req[p].goal \in Goal \cup {NoGoal, Same}
      BY <1>1, <1>3, RequestParts
    <2>2. pc[p] \in {"check", "store"}
      BY <1>1, <1>3 DEF Fits, StatementFits
    <2>3. db[req[p].entry] # Absent
      BY <1>3, <2>2 DEF Succeeds
    <2>4. db[req[p].entry].goal \in Goal \cup {NoGoal}
      BY <1>1, <2>1, <2>3 DEF Tables, EntryRows
    <2> QED
      BY <1>3, <2>1, <2>4 DEF Answer
  <1>4. CASE req[p].op = "update"
    BY <1>1, <1>4, RequestParts DEF Answer
  <1>5. CASE req[p].op \notin {"create", "revise", "update"}
    BY <1>5 DEF Answer
  <1> QED
    BY <1>2, <1>3, <1>4, <1>5

(* The server takes up a statement of a request the phone may have sent.    *)
LEMMA ServeStep ==
    ASSUME FormsInv, NEW p \in Process, Serve(p)
    PROVE  FormsInv'
  <1>1. IInv /\ Phone /\ \A q \in Process : Noted(q)
    BY PhoneParts
  <1>2. Statement(p) /\ visit' = visit /\ known' = known /\ list' = list /\ form' = form /\ editor' = editor
    BY DEF Serve
  <1>3. IInv'
    BY <1>1, <1>2, StatementStep
  <1>4. /\ pc[p] # "idle"
        /\ \A q \in Process \ {p} : pc'[q] = pc[q] /\ req'[q] = req[q]
        /\ pc'[p] # "idle" => req'[p] = req[p]
    BY <1>1, <1>2, Progress
  <1>5. CASE sent[p] = NotSent \/ pc'[p] # "idle"
    <2>1. sent' = sent
      BY <1>5 DEF Serve
    <2>2. Phone'
      BY <1>1, <1>2, <2>1 DEF Phone, ScreensFit
    <2>3. \A q \in Process \ {p} : Noted(q)'
      BY <1>1, <1>4, <2>1, NotedSame
    <2>4. Noted(p)'
      <3>1. CASE sent[p] = NotSent
        BY <2>1, <3>1, NotSentNoted
      <3>2. CASE pc'[p] # "idle"
        BY <1>1, <1>4, <2>1, <3>2, NotedSame
      <3> QED
        BY <1>5, <3>1, <3>2
    <2> QED
      BY <1>3, <2>2, <2>3, <2>4, PhonePartsNext
  <1>6. CASE ~ (sent[p] = NotSent \/ pc'[p] # "idle")
    <2>1. sent[p] \in Notes /\ (sent[p].kind = "edit" => sent[p].entry \in Entry)
      BY <1>1, <1>6 DEF Noted, NoteFits
    <2>2. /\ DOMAIN sent' = Process /\ \A q \in Process \ {p} : sent'[q] = sent[q]
          /\ sent'[p] \in Notes /\ sent'[p].at # "sent"
          /\ sent'[p].kind = "edit" => sent'[p].entry \in Entry
      <3>1. CASE Succeeds(p)
        <4>1. PICK a : a = Answer(p)
          OBVIOUS
        <4>2. a \in Goal \cup {NoGoal}
          BY <1>1, <1>4, <3>1, <4>1, AnswerFits
        <4>3. sent' = [sent EXCEPT ![p].at = "ok", ![p].goal = a]
          BY <1>6, <3>1, <4>1 DEF Serve
        <4>4. /\ DOMAIN sent' = Process /\ \A q \in Process \ {p} : sent'[q] = sent[q]
              /\ sent'[p] = [sent[p] EXCEPT !.at = "ok", !.goal = a]
          BY <1>1, <4>3 DEF Phone
        <4> QED
          BY <2>1, <4>2, <4>4 DEF Notes
      <3>2. CASE ~ Succeeds(p)
        <4>1. sent' = [sent EXCEPT ![p].at = "error"]
          BY <1>6, <3>2 DEF Serve
        <4>2. /\ DOMAIN sent' = Process /\ \A q \in Process \ {p} : sent'[q] = sent[q]
              /\ sent'[p] = [sent[p] EXCEPT !.at = "error"]
          BY <1>1, <4>1 DEF Phone
        <4> QED
          BY <2>1, <4>2 DEF Notes
      <3> QED
        BY <3>1, <3>2
    <2>3. Phone'
      BY <1>1, <1>2, <2>2 DEF Phone, ScreensFit
    <2>4. \A q \in Process \ {p} : Noted(q)'
      BY <1>1, <1>4, <2>2, NotedSame
    <2>5. Noted(p)'
      BY <1>6, <2>2 DEF Noted, NoteFits
    <2> QED
      BY <1>3, <2>3, <2>4, <2>5, PhonePartsNext
  <1> QED
    BY <1>5, <1>6

(* Another device or customer sends a request.                              *)
LEMMA OtherDeviceStep ==
    ASSUME FormsInv, NEW p \in Process, OtherDevice(p)
    PROVE  FormsInv'
  <1>1. IInv /\ Phone /\ \A q \in Process : Noted(q)
    BY PhoneParts
  <1>2. PICK r \in Requests : Begin(p, r)
    BY DEF OtherDevice, Arrive
  <1>3. /\ sent[p] = NotSent /\ sent' = sent /\ visit' = visit /\ known' = known /\ list' = list
        /\ form' = form /\ editor' = editor
    BY DEF OtherDevice, phoneVars
  <1>4. IInv'
    BY <1>1, <1>2, Begun
  <1>5. Phone'
    BY <1>1, <1>3 DEF Phone, ScreensFit
  <1>6. \A q \in Process : Noted(q)'
    BY <1>1, <1>2, <1>3, BegunAt, NotedSame, NotSentNoted
  <1> QED
    BY <1>4, <1>5, <1>6, PhonePartsNext

(* An answer arrives and the form acts on it.                               *)
LEMMA AnswersStep ==
    ASSUME FormsInv, NEW p \in Process, Answers(p)
    PROVE  FormsInv'
  <1>1. IInv /\ Phone /\ \A q \in Process : Noted(q)
    BY PhoneParts
  <1>2. UNCHANGED recordVars /\ visit' = visit /\ sent' = [sent EXCEPT ![p] = NotSent]
        /\ sent[p] # NotSent
    BY NoteApart DEF Answers, GoalSaved, GoalEnded, EditSaved, Dismiss, Answered
  <1>3. IInv'
    BY <1>1, <1>2, RecordsRest
  <1>4. DOMAIN sent' = Process /\ sent'[p] = NotSent /\ \A q \in Process \ {p} : sent'[q] = sent[q]
    BY <1>1, <1>2 DEF Phone
  <1>5. \A q \in Process : Noted(q)'
    BY <1>1, <1>2, <1>4, NotedSame, NotSentNoted DEF recordVars
  <1>6. sent[p] \in Notes /\ (sent[p].kind = "edit" => sent[p].entry \in Entry)
    BY <1>1, <1>2 DEF Noted, NoteFits
  <1>7. sent[p].goal \in Goal \cup {NoGoal}
    BY <1>6 DEF Notes
  <1>8. Phone'
    <2>1. CASE GoalSaved(p)
      <3>1. known' = sent[p].goal /\ form' = [mode |-> "view", leftOpen |-> FALSE]
            /\ list' = list /\ editor' = editor
        BY <2>1 DEF GoalSaved, View
      <3>2. form' \in [mode : {"view", "create", "edit", "replace"}, leftOpen : BOOLEAN]
            /\ form'.mode # "create"
        BY <3>1
      <3> QED
        BY <1>1, <1>2, <1>4, <1>7, <3>1, <3>2 DEF Phone, ScreensFit
    <2>2. CASE GoalEnded(p)
      <3>1. known' = NoGoal /\ form' = [mode |-> "create", leftOpen |-> TRUE]
            /\ list' = list /\ editor' = editor
        BY <2>2 DEF GoalEnded
      <3>2. form' \in [mode : {"view", "create", "edit", "replace"}, leftOpen : BOOLEAN]
            /\ form'.leftOpen
        BY <3>1
      <3> QED
        BY <1>1, <1>2, <1>4, <3>1, <3>2 DEF Phone, ScreensFit
    <2>3. CASE EditSaved(p)
      <3>1. /\ sent[p].entry \in Entry /\ editor' = NoEditor /\ known' = known /\ form' = form
            /\ list' = Over(Only(sent[p].entry, sent[p].goal), list)
        BY <1>6, <2>3 DEF EditSaved, Answered
      <3>2. DOMAIN list' \subseteq Entry /\ \A x \in DOMAIN list' : list'[x] \in Goal \cup {NoGoal}
        BY <1>1, <1>7, <3>1 DEF Over, Only, Phone
      <3> QED
        BY <1>1, <1>2, <1>4, <3>1, <3>2 DEF Phone, ScreensFit
    <2>4. CASE Dismiss(p)
      BY <1>1, <1>2, <1>4, <2>4 DEF Dismiss, Phone, ScreensFit
    <2> QED
      BY <2>1, <2>2, <2>3, <2>4 DEF Answers
  <1> QED
    BY <1>3, <1>5, <1>8, PhonePartsNext

-----------------------------------------------------------------------------
(* The tables at first, with no request under way.                          *)
LEMMA InitRecords ==
    ASSUME Init
    PROVE  IInv
  <1> DEFINE first == <<"goal", 1>>
             u0 == CHOOSE u \in User : TRUE
  <1>1. u0 \in User /\ MaxRows \in Nat /\ MaxRows >= 1
    BY ValuesApart, RoomForAll
  <1>2. first \in Goal /\ first[2] = 1
    <2>1. 1 \in 1..MaxRows
      BY <1>1
    <2> QED
      BY <2>1, Names
  <1>3. /\ DOMAIN db = Row /\ db[first] = GoalRow(u0, TRUE, "active")
        /\ \A r \in Row : r # first => db[r] = Absent
    BY <1>2, Names DEF Init
  <1>4. db[first] \in GoalRows /\ db[first].owner = u0 /\ db[first].status = "active"
    BY <1>1, <1>3, NewRow
  <1> HIDE DEF u0, first
  <1>5. \A g \in Goal : g # first => db[g] = Absent
    BY <1>3, Names
  <1>6. \A x \in Entry : db[x] = Absent
    BY <1>2, <1>3, Names
  <1>7. /\ draft = [p \in Process |-> <<>>] /\ pc = [p \in Process |-> "idle"]
        /\ req = [p \in Process |-> NoRequest] /\ made = [goal |-> 1, entry |-> 0] /\ handled = 0
    BY DEF Init
  <1>8. \A p \in Process : DOMAIN draft[p] = {} /\ pc[p] = "idle" /\ req[p] = NoRequest
    BY <1>7, Empty
  <1>9. Tables
    BY <1>3, <1>4, <1>5, <1>6 DEF Tables
  <1>10. Locals
    BY <1>7 DEF Init, Locals
  <1>11. ASSUME NEW p \in Process
         PROVE  Fits(p)
    BY <1>8, Values DEF Fits, Typed, StatementFits, CheckedHolds, DraftFits
  <1>12. Views
    <2>1. ActiveOnce
      BY <1>5 DEF ActiveOnce, IsActive, Owned
    <2>2. \A g \in Goal : StatusFits(db[g])
      BY <1>4, <1>5, ValuesApart DEF StatusFits
    <2>3. \A p \in Process : OneInView(p)
      BY <1>8, <1>9, <1>11, <2>1, ViewParts DEF ActiveOnce, Single, ActiveFor, Fits
    <2>4. LockedByOne /\ OneActivates
      BY <1>8 DEF LockedByOne, OneActivates, Activates
    <2> QED
      BY <1>8, <2>1, <2>2, <2>3, <2>4 DEF Views
  <1>13. IdsFresh
    <2>1. Creating = {} /\ Storing = {}
      BY <1>8 DEF Creating, Storing
    <2>2. CountsFit
      BY <1>7, <2>1, FS_EmptySet, RoomForAll DEF CountsFit
    <2>3. FreshGoals
      <3> SUFFICES ASSUME NEW n \in 1..MaxRows, n > made.goal
                   PROVE  db[<<"goal", n>>] = Absent /\ \A p \in Process : <<"goal", n>> \notin DOMAIN draft[p]
        BY DEF FreshGoals
      <3>1. <<"goal", n>> \in Goal /\ <<"goal", n>> # first
        <4>1. made.goal = 1 /\ n # 1
          BY <1>7
        <4>2. <<"goal", n>>[2] = n
          OBVIOUS
        <4> QED
          BY <1>2, <4>1, <4>2, Names
      <3> QED
        BY <1>5, <1>8, <3>1
    <2>4. FreshEntries
      BY <1>6, Names DEF FreshEntries
    <2> QED
      BY <2>2, <2>3, <2>4, IdParts
  <1>14. EntriesSound
    BY <1>6 DEF EntriesSound, EntriesOwned, ImportedOnce
  <1> QED
    BY <1>9, <1>10, <1>11, <1>12, <1>13, <1>14, Parts

(* The phone starts with its forms closed.                                  *)
LEMMA InitInv ==
    ASSUME InitForms
    PROVE  FormsInv
  <1>1. IInv
    BY InitRecords DEF InitForms
  <1>2. Phone
    BY DEF InitForms, Phone, ScreensFit, View
  <1>3. \A p \in Process : Noted(p)
    BY DEF InitForms, Noted, NoteFits
  <1> QED
    BY <1>1, <1>2, <1>3, PhoneParts

(* Every step of the phone, the other devices and the server.               *)
LEMMA NextInv ==
    ASSUME FormsInv, [NextForms]_allVars
    PROVE  FormsInv'
  <1>1. CASE UNCHANGED allVars
    <2>1. IInv'
      BY <1>1, PhoneParts, RecordsRest DEF allVars
    <2>2. Phone'
      BY <1>1, PhoneParts DEF allVars, phoneVars, Phone, ScreensFit
    <2>3. \A p \in Process : Noted(p)'
      BY <1>1, PhoneParts, NotedSame DEF allVars, phoneVars, recordVars
    <2> QED
      BY <2>1, <2>2, <2>3, PhonePartsNext
  <1>2. CASE NextForms
    BY <1>2, ScreensStep, CallsStep, AnswersStep, ServeStep, OtherDeviceStep DEF NextForms
  <1> QED
    BY <1>1, <1>2

(* The inductive invariant holds in every reachable state.                  *)
THEOREM Invariance == SpecForms => []FormsInv
  <1>1. InitForms => FormsInv
    BY InitInv
  <1>2. FormsInv /\ [NextForms]_allVars => FormsInv'
    BY NextInv
  <1> QED
    BY <1>1, <1>2, PTL DEF SpecForms

(* Whatever requests overlap, a customer has one active goal, transactions  *)
(* are linked to goals of their owner, and no row of a file is imported     *)
(* twice (GoalsService, TransactionsService).                               *)
THEOREM RecordsStaySound == SpecForms => []RecordsSound
  <1>1. FormsInv => RecordsSound
    BY DEF FormsInv, IInv, RecordsSound
  <1> QED
    BY <1>1, Invariance, PTL

-----------------------------------------------------------------------------
(* The steps that change the records are those of the requests.             *)
LEMMA RecordSteps ==
    ASSUME FormsInv, [NextForms]_allVars
    PROVE  db' = db \/ \E p \in Process : Serve(p)
  <1>1. CASE UNCHANGED allVars
    BY <1>1 DEF allVars, recordVars, txVars
  <1>2. CASE Screens
    BY <1>2 DEF Screens, LoadActiveGoal, LoadTransactions, OpenForm, CloseForm, ToggleGoal, CancelEdit,
                BeginEdit, recordVars, txVars
  <1>3. ASSUME NEW p \in Process, Calls(p)
        PROVE  db' = db
    BY <1>3 DEF Calls, SaveGoal, EndActiveGoal, AddTransaction, SaveEdit, DeleteTransaction, Call, Begin,
                txVars
  <1>4. ASSUME NEW p \in Process, Answers(p)
        PROVE  db' = db
    BY <1>4 DEF Answers, GoalSaved, GoalEnded, EditSaved, Dismiss, Answered, recordVars, txVars
  <1>5. ASSUME NEW p \in Process, OtherDevice(p)
        PROVE  db' = db
    BY <1>5 DEF OtherDevice, Arrive, Begin, txVars
  <1> QED
    BY <1>1, <1>2, <1>3, <1>4, <1>5 DEF NextForms

(* Replacing a goal never leaves its customer without one, and how a goal   *)
(* ended is not overwritten by another ending (GoalsService.create, update, *)
(* end).                                                                    *)
THEOREM GoalsStepSoundly == SpecForms => GoalSteps
  <1>1. ASSUME FormsInv, [NextForms]_allVars
        PROVE  ReplacementKept /\ OutcomesKept
    BY <1>1, RecordSteps, GoalsRest, GoalsStep DEF FormsInv, Serve
  <1>2. ASSUME FormsInv, [NextForms]_allVars
        PROVE  [ReplacementKept]_vars /\ [OutcomesKept]_vars
    BY <1>1, <1>2
  <1>3. SpecForms => [][ReplacementKept]_vars /\ [][OutcomesKept]_vars
    BY <1>2, Invariance, PTL DEF SpecForms
  <1> QED
    BY <1>3 DEF GoalSteps, ReplacementAtomic, OutcomeKept, ReplacementKept, OutcomesKept

-----------------------------------------------------------------------------
(* What the phone asked for.                                                *)
AskedFirst ==
    \A g \in Goal, p \in Process :
          /\ IsActive(db[g], Me) /\ db'[g].status = "replaced"
          /\ pc[p] = "commit" /\ pc'[p] = "idle" /\ sent[p].kind = "save"
          => sent[p].asked \/ sent[p].knew # g \/ sent[p].leftOpen
LinkKept ==
    \A x \in Entry, p \in Process :
          /\ db[x] # Absent /\ db'[x] # Absent /\ db'[x] # db[x]
          /\ pc[p] = "store" /\ pc'[p] = "idle" /\ sent[p].kind = "edit"
          => sent[p].touched

(* A request that ends is the one that was served.                          *)
LEMMA Ends ==
    ASSUME FormsInv, [NextForms]_allVars, NEW p \in Process, db' # db, pc[p] # "idle", pc'[p] = "idle"
    PROVE  Statement(p)
  <1>1. PICK q \in Process : Serve(q)
    BY RecordSteps
  <1>2. IInv /\ Statement(q)
    BY <1>1 DEF FormsInv, Serve
  <1>3. q = p
    BY <1>2, Progress
  <1> QED
    BY <1>2, <1>3

(* A goal the phone replaces was asked about, or was not known to it, or    *)
(* the form had been left open.                                             *)
LEMMA PhoneAsks ==
    ASSUME FormsInv, [NextForms]_allVars
    PROVE  AskedFirst
  <1> SUFFICES ASSUME NEW g \in Goal, NEW p \in Process, IsActive(db[g], Me),
                      db'[g].status = "replaced", pc[p] = "commit", pc'[p] = "idle",
                      sent[p].kind = "save",
                      ~ (sent[p].asked \/ sent[p].knew # g \/ sent[p].leftOpen)
               PROVE  FALSE
    BY DEF AskedFirst
  <1>1. IInv /\ Noted(p) /\ Tables /\ Views /\ DraftFits(p)
    BY PhoneParts, Parts DEF Fits
  <1>2. sent[p] # NotSent /\ sent[p].at = "sent"
    BY <1>1, NoteApart DEF Noted
  <1>3. req[p].op = "update" /\ req[p].isActive = Same
    BY <1>1, <1>2 DEF Noted, NoteFits
  <1>4. db[g] \in GoalRows /\ db[g].status = "active"
    BY <1>1 DEF Tables, Views, StatusFits, IsActive, Owned
  <1>5. Statement(p)
    BY <1>4, Ends
  <1>6. CommitGoal(p)
    BY <1>1, <1>4, <1>5, OnlyCommits DEF GoalsKept
  <1>7. g \in DOMAIN draft[p] /\ db'[g] = draft[p][g]
    BY <1>1, <1>4, <1>6, AtCommit
  <1>8. Done(p, g)
    <2>1. Same # TRUE
      BY ValuesApart
    <2> QED
      BY <1>1, <1>3, <1>7, <2>1 DEF DraftFits
  <1>9. draft[p][g] = db[g]
    <2>1. g = req[p].goal /\ draft[p][g] = UpdatedGoal(req[p], found[p], db[g])
      BY <1>3, <1>8 DEF Done
    <2>2. UpdateResult(req[p], found[p], db[req[p].goal], UpdatedGoal(req[p], found[p], db[req[p].goal]))
      BY <1>1, <1>3, <1>6, AtCommit
    <2> QED
      BY <1>3, <2>1, <2>2 DEF UpdateResult
  <1> QED
    BY <1>4, <1>7, <1>9

(* An edit that changes the row of an entry came from a form whose link was *)
(* touched.                                                                 *)
LEMMA PhoneKeepsLinks ==
    ASSUME FormsInv, [NextForms]_allVars
    PROVE  LinkKept
  <1> SUFFICES ASSUME NEW x \in Entry, NEW p \in Process, db[x] # Absent, db'[x] # Absent,
                      db'[x] # db[x], pc[p] = "store", pc'[p] = "idle", sent[p].kind = "edit",
                      ~ sent[p].touched
               PROVE  FALSE
    BY DEF LinkKept
  <1>1. IInv /\ Noted(p) /\ Tables
    BY PhoneParts, Parts
  <1>2. sent[p] # NotSent /\ sent[p].at = "sent"
    BY <1>1, NoteApart DEF Noted
  <1>3. req[p].op = "revise" /\ req[p].goal = Same
    BY <1>1, <1>2 DEF Noted, NoteFits
  <1>4. Statement(p)
    BY Ends
  <1>5. ReviseEntry(p)
    BY <1>3, <1>4 DEF Statement, ScanActive, Replace, InsertGoal, ReadGoal, UpdateGoal, EndGoal, CommitGoal,
       EnsureOwned, CreateEntry, PreviewImport, PreviewEmpty, ConfirmImport, RemoveEntry, Abort, Waiting, Step
  <1>6. db' = Over(<<>>, db)
    BY <1>3, <1>5 DEF ReviseEntry, Write
  <1>7. db'[x] = db[x]
    BY <1>1, <1>6, Overwritten, Empty, Names
  <1> QED
    BY <1>7

(* The phone replaces a goal without asking only if it had not loaded it or *)
(* from the form that ending a goal left open, and an edit relinks a        *)
(* transaction only if the customer touched the checkbox (goal.tsx,         *)
(* buildTransactionUpdatePayload).                                          *)
THEOREM PhoneStepsSoundly == SpecForms => PhoneSteps
  <1>1. FormsInv /\ [NextForms]_allVars => [AskedFirst]_allVars /\ [LinkKept]_allVars
    BY PhoneAsks, PhoneKeepsLinks
  <1>2. SpecForms => [][AskedFirst]_allVars /\ [][LinkKept]_allVars
    BY <1>1, Invariance, PTL DEF SpecForms
  <1> QED
    BY <1>2 DEF PhoneSteps, AskedBeforeReplacing, UntouchedLinkKept, AskedFirst, LinkKept

-----------------------------------------------------------------------------
(* Fields.  The text of an amount is read as the amount.                    *)
LEMMA ReadBack ==
    ASSUME NEW k \in Nat
    PROVE  /\ KoboToNairaInput(k) \in [whole : Nat, fraction : Seq(0..9)]
           /\ WellFormed(KoboToNairaInput(k)) /\ Kobo(KoboToNairaInput(k)) = k
  <1> DEFINE text == KoboToNairaInput(k)
             rest == k % 100
  <1>1. k \div 100 \in Nat /\ rest \in 0..99 /\ k = 100 * (k \div 100) + rest
    OBVIOUS
  <1>2. rest \div 10 \in 0..9 /\ rest % 10 \in 0..9 /\ rest = 10 * (rest \div 10) + (rest % 10)
    <2> HIDE DEF rest
    <2> QED
      BY <1>1
  <1>3. text = [whole |-> k \div 100, fraction |-> IF rest = 0 THEN <<>> ELSE <<rest \div 10, rest % 10>>]
    BY DEF KoboToNairaInput, Padded
  <1>4. CASE rest = 0
    <2>1. text = [whole |-> k \div 100, fraction |-> <<>>]
      BY <1>3, <1>4
    <2>2. text \in [whole : Nat, fraction : Seq(0..9)] /\ Len(text.fraction) <= 2
          /\ Digit(text.fraction, 1) = 0 /\ Digit(text.fraction, 2) = 0
      BY <1>1, <2>1 DEF Digit
    <2> QED
      BY <1>1, <1>4, <2>1, <2>2, FieldsAssumption DEF WellFormed, Kobo
  <1>5. CASE rest # 0
    <2>1. text = [whole |-> k \div 100, fraction |-> <<rest \div 10, rest % 10>>]
      BY <1>3, <1>5
    <2>2. <<rest \div 10, rest % 10>> \in Seq(0..9)
      BY <1>2
    <2>3. text \in [whole : Nat, fraction : Seq(0..9)] /\ Len(text.fraction) <= 2
          /\ Digit(text.fraction, 1) = rest \div 10 /\ Digit(text.fraction, 2) = rest % 10
      BY <1>1, <2>1, <2>2 DEF Digit
    <2> QED
      BY <1>1, <1>2, <2>1, <2>3, FieldsAssumption DEF WellFormed, Kobo
  <1> QED
    BY <1>4, <1>5

LEMMA FieldsKeepValues == FormsKeepValues
  <1>1. ASSUME NEW k \in Amount
        PROVE  k \in Nat /\ KoboToNairaInput(k) # Blank /\ NairaInputToKobo(KoboToNairaInput(k)) = k
    <2>1. k \in Nat /\ k \in 1..MaxSafe
      BY <1>1, FieldsAssumption DEF Amount
    <2> QED
      BY <2>1, ReadBack, FieldsAssumption DEF NairaInputToKobo
  <1>2. ASSUME NEW n \in 0..MaxSafe
        PROVE  KoboToNairaInput(n) # Blank /\ OptionalNairaInputToKobo(KoboToNairaInput(n)) = n
    <2>1. n \in Nat /\ n <= MaxSafe
      BY <1>2, FieldsAssumption
    <2> QED
      BY <2>1, ReadBack, FieldsAssumption DEF OptionalNairaInputToKobo
  <1>3. ASSUME NEW moment \in Moment
        PROVE  /\ DateInputToIso(IsoToDateInput(moment)) = AtNoon(moment)
               /\ AtNoon(moment) # Invalid
    <2>1. moment.day # Blank
      BY FieldsAssumption DEF Moment
    <2>2. AtNoon(moment) = [day |-> moment.day, time |-> "noon"] /\ AtNoon(moment) \in Moment
      BY DEF AtNoon, Moment
    <2> QED
      BY <2>1, <2>2, FieldsAssumption DEF DateInputToIso, IsoToDateInput
  <1>4. ASSUME NEW k \in Amount, NEW moment \in Moment
        PROVE  EditorPayload(EditorFields([amount |-> k, at |-> moment])) = [amount |-> k, at |-> AtNoon(moment)]
    BY <1>1, <1>3 DEF EditorPayload, EditorFields
  <1>5. ASSUME NEW k \in Amount, NEW moment \in Moment, NEW income \in {Blank, 0, MaxSafe - k}
        PROVE  LET goal == [name |-> "goal", amount |-> k, due |-> moment, income |-> income]
               IN  BuildUpdateGoalPayload(GoalToFormFields(goal)) = [goal EXCEPT !.due = AtNoon(moment)]
    <2> DEFINE goal == [name |-> "goal", amount |-> k, due |-> moment, income |-> income]
               shown == IF income = Blank THEN Blank ELSE KoboToNairaInput(income)
               fields == GoalToFormFields(goal)
    <2>1. fields = [name |-> "goal", amount |-> KoboToNairaInput(k), due |-> IsoToDateInput(moment),
                    income |-> shown]
      BY DEF GoalToFormFields
    <2>2. OptionalNairaInputToKobo(shown) = income /\ income # Invalid
      <3>1. CASE income = Blank
        BY <3>1, FieldsAssumption DEF OptionalNairaInputToKobo
      <3>2. CASE income # Blank
        <4>1. income \in 0..MaxSafe /\ shown = KoboToNairaInput(income)
          BY <3>2, FieldsAssumption DEF Amount
        <4> QED
          BY <1>2, <4>1, FieldsAssumption
      <3> QED
        BY <3>1, <3>2
    <2>3. "goal" # Blank /\ k # Invalid
      BY <1>1, FieldsAssumption
    <2> HIDE DEF shown, fields
    <2>4. /\ fields.name = "goal" /\ NairaInputToKobo(fields.amount) = k
          /\ DateInputToIso(fields.due) = AtNoon(moment) /\ OptionalNairaInputToKobo(fields.income) = income
      BY <1>1, <1>3, <2>1, <2>2
    <2>5. GoalFormValid(fields)
      BY <1>3, <2>2, <2>3, <2>4 DEF GoalFormValid
    <2>6. BuildUpdateGoalPayload(fields) =
              [name |-> "goal", amount |-> k, due |-> AtNoon(moment), income |-> income]
      BY <2>4, <2>5 DEF BuildUpdateGoalPayload, BuildGoalFields
    <2> QED
      BY <2>6 DEF fields
  <1>6. \A text \in Text : NairaInputToKobo(text) \in Amount \cup {Invalid}
    BY DEF NairaInputToKobo, Amount
  <1> QED
    BY <1>4, <1>5, <1>6 DEF FormsKeepValues

(* Whatever amount is stored, a form that is opened and saved as it is      *)
(* sends it back, with the income or its absence and the day                *)
(* (koboToNairaInput against nairaInputToKobo, goalToFormFields against     *)
(* buildUpdateGoalPayload).                                                 *)
THEOREM FieldsStaySound == SpecForms => []FieldsSound
  <1>1. FieldsSound
    BY FieldsKeepValues DEF FieldsSound
  <1> QED
    BY <1>1, PTL

-----------------------------------------------------------------------------
(* Statements.  The rows of a file, by their numbers: each row's            *)
(* fingerprint is its content and its number among the valid rows of that   *)
(* content.                                                                 *)
Among(rows, n) == {j \in 1..(n - 1) : rows[j + 1].valid /\ rows[j + 1].content = rows[n].content}
Parsed(rows) ==
    \E m \in Nat :
        /\ DOMAIN rows = 2..(m + 1)
        /\ \A n \in DOMAIN rows : rows[n].fingerprint = <<rows[n].content, Cardinality(Among(rows, n))>>

(* What the screen and its requests hold.                                   *)
ImportTyped ==
    /\ \A f \in DOMAIN bank : Parsed(bank[f].rows)
    /\ reading \in Seq(DOMAIN bank)
    /\ csv \in DOMAIN bank \cup {None}
    /\ preview \in [csv : DOMAIN bank, ready : SUBSET Nat] \cup {None}
    /\ selected \in SUBSET Nat /\ tagGoal \in BOOLEAN /\ crossed \in BOOLEAN
    /\ issued \in [picks : Nat, previews : Nat, confirms : Nat]
    /\ previews \subseteq [n : Nat, csv : DOMAIN bank, at : {"sent", "ok", "refused"}, ready : SUBSET Nat]
    /\ confirms \subseteq [n : Nat, csv : DOMAIN bank, rows : SUBSET Nat, goal : BOOLEAN,
                           at : {"sent", "done", "refused"}, waited : BOOLEAN,
                           reviewed : DOMAIN bank, crossed : BOOLEAN]
    /\ imported \subseteq [csv : DOMAIN bank, rows : SUBSET Nat]

(* The last preview asked for is of the text the screen has; an earlier one *)
(* that is shown is remembered as crossed.                                  *)
PreviewsOfText ==
    /\ preview # None \/ previews # {} => csv \in DOMAIN bank
    /\ preview # None => preview.csv = csv \/ crossed
    /\ \A c \in previews : c.n <= issued.previews /\ (c.n = issued.previews => c.csv = csv)
    /\ \A c \in confirms : c.reviewed = c.csv \/ c.crossed

(* An entry stands for the o-th row of its content in a file imported; no   *)
(* two stand for the same.                                                  *)
ListedIn(e, o) == \E i \in imported : o <= Listed(i.csv, e.content)
EntriesOfRows ==
    /\ IsFiniteSet(stored)
    /\ \A e \in stored : \E o \in Nat \ {0} : e.fingerprint = <<e.content, o>> /\ ListedIn(e, o)
    /\ \A d, e \in stored : d.fingerprint = e.fingerprint => d = e

(* Every row of a confirmation carried out has its entry.                   *)
RowsStored ==
    \A i \in imported : \A n \in i.rows :
        LET rows == bank[i.csv].rows
        IN  n \in DOMAIN rows /\ rows[n].valid /\ rows[n].fingerprint \in Fingerprints

ImportInv == ImportTyped /\ PreviewsOfText /\ ReviewedRowsOnly /\ EntriesOfRows /\ RowsStored

(* parseTransactionImport numbers a row among those before it.              *)
LEMMA FilesParsed ==
    ASSUME NEW text
    PROVE  Parsed(ParseTransactionImport(text))
  <1> DEFINE result == ParseTransactionImport(text)
  <1>1. CASE result = <<>>
    <2>1. DOMAIN result = 2..(0 + 1)
      BY <1>1
    <2> QED
      BY <2>1 DEF Parsed
  <1>2. result = <<>> \/ \E file : Len(file) \in 1..MaxFileRows /\ result = Numbered(file)
    BY Zenon DEF ParseTransactionImport
  <1>3. ASSUME NEW file, Len(file) \in 1..MaxFileRows, result = Numbered(file)
        PROVE  Parsed(result)
    <2> HIDE DEF result
    <2>1. DOMAIN result = 2..(Len(file) + 1)
      BY <1>3 DEF Numbered
    <2>2. ASSUME NEW n \in DOMAIN result
          PROVE  result[n].fingerprint = <<result[n].content, Cardinality(Among(result, n))>>
      <3> DEFINE same == {j \in 1..(n - 1) : Valid(file[j]) /\ Content(file[j]) = Content(file[n - 1])}
      <3>1. n \in 2..(Len(file) + 1) /\ n - 1 \in Nat
        BY <1>3, <2>1
      <3>2. result[n].content = Content(file[n - 1])
            /\ result[n].fingerprint = <<Content(file[n - 1]), Cardinality(same)>>
        BY <1>3, <3>1 DEF Numbered, Occurrence
      <3>3. ASSUME NEW j \in 1..(n - 1)
            PROVE  result[j + 1].valid = Valid(file[j]) /\ result[j + 1].content = Content(file[j])
        <4>1. j + 1 \in 2..(Len(file) + 1) /\ (j + 1) - 1 = j
          BY <3>1, <1>3
        <4> QED
          BY <4>1, <1>3 DEF Numbered
      <3>4. Among(result, n) = same
        BY <3>2, <3>3 DEF Among
      <3> QED
        BY <3>2, <3>4
    <2> QED
      BY <1>3, <2>1, <2>2 DEF Parsed
  <1> QED
    BY <1>1, <1>2, <1>3

(* What Parsed says of one row.                                             *)
LEMMA RowOfFile ==
    ASSUME NEW rows, Parsed(rows), NEW n \in DOMAIN rows
    PROVE  /\ n \in Nat /\ n >= 2
           /\ \A j \in 1..(n - 1) : j + 1 \in DOMAIN rows
           /\ IsFiniteSet(DOMAIN rows) /\ IsFiniteSet(Among(rows, n)) /\ Cardinality(Among(rows, n)) \in Nat
           /\ rows[n].fingerprint = <<rows[n].content, Cardinality(Among(rows, n))>>
  <1>1. PICK m \in Nat :
            /\ DOMAIN rows = 2..(m + 1)
            /\ \A k \in DOMAIN rows : rows[k].fingerprint = <<rows[k].content, Cardinality(Among(rows, k))>>
    BY DEF Parsed
  <1>2. n \in Nat /\ n >= 2 /\ \A j \in 1..(n - 1) : j + 1 \in DOMAIN rows
    BY <1>1
  <1>3. IsFiniteSet(DOMAIN rows) /\ IsFiniteSet(1..(n - 1))
    BY <1>1, <1>2, FS_Interval
  <1>4. IsFiniteSet(Among(rows, n))
    BY <1>3, FS_Subset DEF Among
  <1> QED
    BY <1>1, <1>2, <1>3, <1>4, FS_CardinalityType

(* A valid row is the first, second, ... of its content in its file, and no *)
(* later than the last.                                                     *)
LEMMA OccurrenceListed ==
    ASSUME NEW f \in DOMAIN bank, Parsed(bank[f].rows), NEW n \in DOMAIN bank[f].rows, bank[f].rows[n].valid
    PROVE  /\ Cardinality(Among(bank[f].rows, n)) \in Nat \ {0}
           /\ Listed(f, bank[f].rows[n].content) \in Nat
           /\ Cardinality(Among(bank[f].rows, n)) <= Listed(f, bank[f].rows[n].content)
  <1> DEFINE rows == bank[f].rows
             before == Among(rows, n)
             all == {k \in DOMAIN rows : rows[k].valid /\ rows[k].content = rows[n].content}
  <1> HIDE DEF rows
  <1>1. n \in Nat /\ n >= 2 /\ (\A j \in 1..(n - 1) : j + 1 \in DOMAIN rows)
        /\ IsFiniteSet(DOMAIN rows) /\ IsFiniteSet(before) /\ Cardinality(before) \in Nat
    BY RowOfFile DEF rows
  <1>2. n - 1 \in before
    BY <1>1 DEF Among, rows
  <1>3. Cardinality(before) # 0
    BY <1>1, <1>2, FS_EmptySet
  <1>4. IsFiniteSet(all)
    BY <1>1, FS_Subset
  <1> DEFINE next == [j \in before |-> j + 1]
  <1>5. next \in Injection(before, all)
    <2>1. \A j \in before : j \in Nat /\ j + 1 \in all
      BY <1>1 DEF Among
    <2> QED
      BY <2>1 DEF Injection, IsInjective
  <1>6. Cardinality(before) <= Cardinality(all) /\ Cardinality(all) \in Nat
    BY <1>4, <1>5, FS_Injection, FS_CardinalityType DEF ExistsInjection
  <1>7. Listed(f, rows[n].content) = Cardinality(all)
    BY DEF Listed, rows
  <1> QED
    BY <1>1, <1>3, <1>6, <1>7 DEF rows

(* Rows of the same file are told apart by their fingerprints.              *)
LEMMA RowsApart ==
    ASSUME NEW rows, Parsed(rows), NEW n \in DOMAIN rows, NEW k \in DOMAIN rows,
           rows[n].valid, rows[k].valid, rows[n].fingerprint = rows[k].fingerprint
    PROVE  n = k
  <1>1. ASSUME NEW i \in DOMAIN rows, NEW j \in DOMAIN rows, rows[j].valid,
               rows[i].fingerprint = rows[j].fingerprint
        PROVE  ~ i < j
    <2> SUFFICES ASSUME i < j PROVE FALSE
      OBVIOUS
    <2>1. i \in Nat /\ i >= 2 /\ rows[i].fingerprint = <<rows[i].content, Cardinality(Among(rows, i))>>
      BY RowOfFile
    <2>2. j \in Nat /\ j >= 2 /\ IsFiniteSet(Among(rows, j))
          /\ rows[j].fingerprint = <<rows[j].content, Cardinality(Among(rows, j))>>
      BY RowOfFile
    <2>3. rows[i].content = rows[j].content /\ Cardinality(Among(rows, i)) = Cardinality(Among(rows, j))
      <3>1. <<rows[i].content, Cardinality(Among(rows, i))>> = <<rows[j].content, Cardinality(Among(rows, j))>>
        BY <1>1, <2>1, <2>2
      <3> QED
        BY <3>1
    <2>4. Among(rows, i) \subseteq Among(rows, j)
      BY <2>1, <2>2, <2>3 DEF Among
    <2>5. j - 1 \in Among(rows, j) /\ j - 1 \notin Among(rows, i)
      BY <1>1, <2>1, <2>2 DEF Among
    <2> QED
      BY <2>2, <2>3, <2>4, <2>5, FS_Subset
  <1>2. n \in Nat /\ k \in Nat
    BY RowOfFile
  <1>3. ~ n < k /\ ~ k < n
    BY <1>1
  <1> QED
    BY <1>2, <1>3

LEMMA RemovedFrom ==
    ASSUME NEW S, NEW s \in Seq(S), NEW i \in DOMAIN s
    PROVE  RemoveAt(s, i) \in Seq(S) /\ s[i] \in S
  <1>1. i \in 1..Len(s) /\ Len(s) \in Nat
    OBVIOUS
  <1>2. SubSeq(s, 1, i - 1) \in Seq(S) /\ SubSeq(s, i + 1, Len(s)) \in Seq(S)
    BY <1>1
  <1> QED
    BY <1>1, <1>2 DEF RemoveAt

LEMMA ImportTypedInit ==
    ASSUME ImportInit
    PROVE  ImportTyped
  <1>1. PICK b \in Banks : bank = [f \in DOMAIN b |-> [text |-> b[f], rows |-> ParseTransactionImport(b[f])]]
    BY DEF ImportInit
  <1>2. \A f \in DOMAIN bank : Parsed(bank[f].rows)
    BY <1>1, FilesParsed
  <1>3. reading \in Seq(DOMAIN bank) /\ selected \in SUBSET Nat
    BY DEF ImportInit
  <1> QED
    BY <1>2, <1>3 DEF ImportInit, ImportTyped

LEMMA BankStays ==
    ASSUME [ImportNext]_importVars
    PROVE  bank' = bank
  BY DEF ImportNext, importVars, ChooseFile, FileRead, FileFailed, AnswerPreview, PreviewShown, PreviewFailed,
         ToggleRow, ToggleTag, SendConfirm, CarryOut, ImportComplete, ImportFailed

(* The ready rows of a preview are numbers of rows.                         *)
LEMMA ReadyAreRows ==
    ASSUME NEW f \in DOMAIN bank, Parsed(bank[f].rows)
    PROVE  ReadyRows(f) \in SUBSET Nat
  BY RowOfFile DEF ReadyRows

LEMMA ImportTypedStep ==
    ASSUME ImportTyped, PreviewsOfText, [ImportNext]_importVars
    PROVE  ImportTyped'
  <1>1. bank' = bank
    BY BankStays
  <1>2. CASE UNCHANGED importVars
    BY <1>2 DEF importVars, screenVars, ImportTyped
  <1>3. ASSUME NEW f \in DOMAIN bank, ChooseFile(f)
        PROVE  ImportTyped'
    BY <1>1, <1>3 DEF ChooseFile, ImportTyped
  <1>4. ASSUME NEW i \in DOMAIN reading, FileRead(i)
        PROVE  ImportTyped'
    <2>1. RemoveAt(reading, i) \in Seq(DOMAIN bank) /\ reading[i] \in DOMAIN bank
      BY RemovedFrom DEF ImportTyped
    <2>2. /\ reading' \in Seq(DOMAIN bank) /\ csv' \in DOMAIN bank /\ preview' = None /\ selected' = {}
          /\ tagGoal' = tagGoal /\ crossed' = crossed /\ confirms' = confirms /\ imported' = imported
      BY <1>4, <2>1 DEF FileRead
    <2>3. issued' \in [picks : Nat, previews : Nat, confirms : Nat]
      BY <1>4 DEF FileRead, SendPreview, ImportTyped
    <2>4. previews' \subseteq [n : Nat, csv : DOMAIN bank, at : {"sent", "ok", "refused"}, ready : SUBSET Nat]
      BY <1>4, <2>1 DEF FileRead, SendPreview, ImportTyped
    <2> QED
      BY <1>1, <2>2, <2>3, <2>4 DEF ImportTyped
  <1>5. ASSUME NEW i \in DOMAIN reading, FileFailed(i)
        PROVE  ImportTyped'
    <2>1. RemoveAt(reading, i) \in Seq(DOMAIN bank)
      BY RemovedFrom DEF ImportTyped
    <2> QED
      BY <1>1, <1>5, <2>1 DEF FileFailed, ImportTyped
  <1>6. ASSUME NEW c \in previews, AnswerPreview(c)
        PROVE  ImportTyped'
    <2>1. c \in [n : Nat, csv : DOMAIN bank, at : {"sent", "ok", "refused"}, ready : SUBSET Nat]
      BY DEF ImportTyped
    <2>2. ReadyRows(c.csv) \in SUBSET Nat
      BY <2>1, ReadyAreRows DEF ImportTyped
    <2>3. previews' \subseteq [n : Nat, csv : DOMAIN bank, at : {"sent", "ok", "refused"}, ready : SUBSET Nat]
      BY <1>6, <2>1, <2>2 DEF AnswerPreview, ImportTyped
    <2> QED
      BY <1>1, <1>6, <2>3 DEF AnswerPreview, screenVars, ImportTyped
  <1>7. ASSUME NEW c \in previews, PreviewShown(c)
        PROVE  ImportTyped'
    BY <1>1, <1>7 DEF PreviewShown, ImportTyped
  <1>8. ASSUME NEW c \in previews, PreviewFailed(c)
        PROVE  ImportTyped'
    BY <1>1, <1>8 DEF PreviewFailed, screenVars, ImportTyped
  <1>9. ASSUME preview # None, NEW n \in preview.ready, ToggleRow(n)
        PROVE  ImportTyped'
    <2>1. n \in Nat
      BY <1>9 DEF ImportTyped
    <2> QED
      BY <1>1, <1>9, <2>1 DEF ToggleRow, ImportTyped
  <1>10. CASE ToggleTag
    BY <1>1, <1>10 DEF ToggleTag, ImportTyped
  <1>11. CASE SendConfirm
    <2>1. preview.csv \in DOMAIN bank /\ csv \in DOMAIN bank
      BY <1>11 DEF SendConfirm, ImportTyped, PreviewsOfText
    <2>2. issued' \in [picks : Nat, previews : Nat, confirms : Nat] /\ issued.confirms \in Nat
      BY <1>11 DEF SendConfirm, ImportTyped
    <2>3. selected \in SUBSET Nat /\ tagGoal \in BOOLEAN /\ crossed \in BOOLEAN
      BY DEF ImportTyped
    <2>4. \A c \in confirms' : c \in confirms \/ c \in
             [n : Nat, csv : DOMAIN bank, rows : SUBSET Nat, goal : BOOLEAN,
              at : {"sent", "done", "refused"}, waited : BOOLEAN,
              reviewed : DOMAIN bank, crossed : BOOLEAN]
      <3> DEFINE new == [n |-> issued.confirms, csv |-> csv, rows |-> selected, goal |-> tagGoal, at |-> "sent",
                         waited |-> TRUE, reviewed |-> preview.csv, crossed |-> crossed]
      <3>1. new \in [n : Nat, csv : DOMAIN bank, rows : SUBSET Nat, goal : BOOLEAN,
                     at : {"sent", "done", "refused"}, waited : BOOLEAN,
                     reviewed : DOMAIN bank, crossed : BOOLEAN]
        BY <2>1, <2>2, <2>3
      <3>2. confirms' = confirms \cup {new}
        BY <1>11 DEF SendConfirm
      <3> QED
        BY <3>1, <3>2
    <2> QED
      BY <1>1, <1>11, <2>2, <2>4 DEF SendConfirm, screenVars, ImportTyped
  <1>12. ASSUME NEW c \in confirms, CarryOut(c)
         PROVE  ImportTyped'
    <2>1. \A c2 \in Carried(c) :
             c2 \in [n : Nat, csv : DOMAIN bank, rows : SUBSET Nat, goal : BOOLEAN,
                     at : {"sent", "done", "refused"}, waited : BOOLEAN,
                     reviewed : DOMAIN bank, crossed : BOOLEAN]
      BY DEF Carried, ImportTyped
    <2>2. [csv |-> c.csv, rows |-> c.rows] \in [csv : DOMAIN bank, rows : SUBSET Nat]
      BY DEF ImportTyped
    <2> QED
      BY <1>1, <1>12, <2>1, <2>2 DEF CarryOut, screenVars, ImportTyped
  <1>13. ASSUME NEW c \in confirms, ImportComplete(c)
         PROVE  ImportTyped'
    BY <1>1, <1>13 DEF ImportComplete, ImportTyped
  <1>14. ASSUME NEW c \in confirms, ImportFailed(c)
         PROVE  ImportTyped'
    BY <1>1, <1>14 DEF ImportFailed, screenVars, ImportTyped
  <1> QED
    BY <1>2, <1>3, <1>4, <1>5, <1>6, <1>7, <1>8, <1>9, <1>10, <1>11, <1>12, <1>13, <1>14 DEF ImportNext

LEMMA PreviewsStep ==
    ASSUME ImportTyped, PreviewsOfText, [ImportNext]_importVars
    PROVE  PreviewsOfText'
  <1>1. bank' = bank
    BY BankStays
  <1>2. issued.previews \in Nat /\ \A c \in previews : c.n \in Nat
    BY DEF ImportTyped
  <1>3. ASSUME NEW c \in previews, AnswerPreview(c)
        PROVE  PreviewsOfText'
    <2>1. \A d \in previews' : d \in previews \/ (d.n = c.n /\ d.csv = c.csv)
      BY <1>3 DEF AnswerPreview, ImportTyped
    <2> QED
      BY <1>1, <1>3, <2>1 DEF AnswerPreview, screenVars, PreviewsOfText
  <1>4. ASSUME NEW i \in DOMAIN reading, FileRead(i)
        PROVE  PreviewsOfText'
    <2>1. issued'.previews = issued.previews + 1
      BY <1>4 DEF FileRead, SendPreview, ImportTyped
    <2>2. csv' \in DOMAIN bank /\ csv' = reading[i] /\ preview' = None /\ confirms' = confirms
      BY <1>4, RemovedFrom DEF FileRead, ImportTyped
    <2>3. \A d \in previews' : d \in previews \/ (d.n = issued.previews + 1 /\ d.csv = reading[i])
      BY <1>4 DEF FileRead, SendPreview
    <2>4. \A d \in previews' : d.n <= issued'.previews /\ (d.n = issued'.previews => d.csv = csv')
      BY <1>2, <2>1, <2>2, <2>3 DEF PreviewsOfText
    <2> QED
      BY <1>1, <2>2, <2>4 DEF PreviewsOfText
  <1>5. ASSUME NEW c \in previews, PreviewShown(c)
        PROVE  PreviewsOfText'
    BY <1>1, <1>5 DEF PreviewShown, PreviewsOfText
  <1>6. CASE SendConfirm
    <2>1. issued'.previews = issued.previews /\ preview # None
      BY <1>6 DEF SendConfirm, ImportTyped
    <2>2. \A c \in confirms' : c \in confirms \/ (c.reviewed = preview.csv /\ c.csv = csv /\ c.crossed = crossed)
      BY <1>6 DEF SendConfirm
    <2> QED
      BY <1>1, <1>6, <2>1, <2>2 DEF SendConfirm, screenVars, PreviewsOfText
  <1>7. ASSUME NEW c \in confirms, CarryOut(c) \/ ImportFailed(c)
        PROVE  PreviewsOfText'
    <2>1. \A d \in confirms' : d \in confirms \/ (d.reviewed = c.reviewed /\ d.csv = c.csv /\ d.crossed = c.crossed)
      BY <1>7 DEF CarryOut, Carried, ImportFailed, ImportTyped
    <2> QED
      BY <1>1, <1>7, <2>1 DEF CarryOut, ImportFailed, screenVars, PreviewsOfText
  <1>8. ASSUME NEW f \in DOMAIN bank, ChooseFile(f)
        PROVE  PreviewsOfText'
    <2>1. issued'.previews = issued.previews
      BY <1>8 DEF ChooseFile, ImportTyped
    <2> QED
      BY <1>1, <1>8, <2>1 DEF ChooseFile, PreviewsOfText
  <1>9. CASE UNCHANGED importVars \/ ToggleTag \/ (\E i \in DOMAIN reading : FileFailed(i))
              \/ (\E c \in previews : PreviewFailed(c)) \/ (\E n \in preview.ready : ToggleRow(n))
    BY <1>1, <1>9 DEF importVars, screenVars, ToggleTag, FileFailed, PreviewFailed, ToggleRow, PreviewsOfText
  <1>10. ASSUME NEW c \in confirms, ImportComplete(c)
         PROVE  PreviewsOfText'
    BY <1>1, <1>10 DEF ImportComplete, PreviewsOfText
  <1> QED
    BY <1>3, <1>4, <1>5, <1>6, <1>7, <1>8, <1>9, <1>10 DEF ImportNext

(* What a confirmation adds.                                                *)
LEMMA EntryAdded ==
    ASSUME ImportTyped, NEW c \in confirms, Accepted(c), NEW e \in NewEntries(c)
    PROVE  \E n \in c.rows :
              LET rows == bank[c.csv].rows
              IN  /\ n \in DOMAIN rows /\ rows[n].valid
                  /\ rows[n].fingerprint \notin Fingerprints
                  /\ e = [fingerprint |-> rows[n].fingerprint, content |-> rows[n].content, goal |-> c.goal,
                          reviewed |-> c.reviewed = c.csv \/ c.crossed]
  BY DEF Accepted, NewEntries

(* Files are added to those imported, and what a file lists stays.          *)
LEMMA StillListed ==
    ASSUME bank' = bank, imported \subseteq imported', NEW e, NEW o, ListedIn(e, o)
    PROVE  ListedIn(e, o)'
  BY DEF ListedIn, Listed

LEMMA EntriesCarriedOut ==
    ASSUME ImportTyped, PreviewsOfText, EntriesOfRows, NEW c \in confirms, CarryOut(c), Accepted(c)
    PROVE  EntriesOfRows'
  <1> DEFINE rows == bank[c.csv].rows
  <1>1. /\ bank' = bank /\ stored' = stored \cup NewEntries(c)
        /\ imported' = imported \cup {[csv |-> c.csv, rows |-> c.rows]}
    BY DEF CarryOut
  <1>2. c.csv \in DOMAIN bank /\ Parsed(rows)
    BY DEF ImportTyped
  <1> HIDE DEF rows
  <1>3. \A e \in NewEntries(c) : \E n \in DOMAIN rows :
           /\ rows[n].valid /\ rows[n].fingerprint \notin Fingerprints
           /\ e = [fingerprint |-> rows[n].fingerprint, content |-> rows[n].content, goal |-> c.goal,
                   reviewed |-> c.reviewed = c.csv \/ c.crossed]
    BY EntryAdded DEF rows
  <1>4. IsFiniteSet(stored')
    <2>1. IsFiniteSet(DOMAIN rows)
      <3>1. PICK m \in Nat : DOMAIN rows = 2..(m + 1)
        BY <1>2 DEF Parsed
      <3> QED
        BY <3>1, FS_Interval
    <2> DEFINE entry == [n \in DOMAIN rows |->
                           [fingerprint |-> rows[n].fingerprint, content |-> rows[n].content, goal |-> c.goal,
                            reviewed |-> c.reviewed = c.csv \/ c.crossed]]
    <2>2. NewEntries(c) \subseteq Range(entry)
      BY <1>3 DEF Range
    <2>3. entry \in Surjection(DOMAIN rows, Range(entry))
      BY DEF Surjection, Range
    <2>4. IsFiniteSet(Range(entry))
      BY <2>1, <2>3, FS_Surjection
    <2> QED
      BY <1>1, <2>2, <2>4, FS_Subset, FS_Union DEF EntriesOfRows
  <1>5. ASSUME NEW e \in stored'
        PROVE  \E o \in Nat \ {0} : e.fingerprint = <<e.content, o>> /\ ListedIn(e, o)'
    <2>1. CASE e \in stored
      BY <1>1, <2>1, StillListed DEF EntriesOfRows
    <2>2. CASE e \in NewEntries(c)
      <3>1. PICK n \in DOMAIN rows :
               rows[n].valid /\ e.fingerprint = rows[n].fingerprint /\ e.content = rows[n].content
        BY <1>3, <2>2
      <3>2. PICK o \in Nat \ {0} : o = Cardinality(Among(rows, n)) /\ o <= Listed(c.csv, e.content)
        BY <1>2, <3>1, OccurrenceListed DEF rows
      <3>3. e.fingerprint = <<e.content, o>>
        BY <1>2, <3>1, <3>2, RowOfFile
      <3>4. Listed(c.csv, e.content)' = Listed(c.csv, e.content)
        BY <1>1 DEF Listed
      <3>5. PICK i \in imported' : i.csv = c.csv
        <4>1. [csv |-> c.csv, rows |-> c.rows] \in imported'
          BY <1>1
        <4> QED
          BY <4>1
      <3>6. ListedIn(e, o)'
        <4>1. o <= Listed(i.csv, e.content)'
          BY <3>2, <3>4, <3>5
        <4> QED
          BY <3>5, <4>1 DEF ListedIn
      <3> QED
        BY <3>2, <3>3, <3>6
    <2> QED
      BY <1>1, <2>1, <2>2
  <1>6. ASSUME NEW d \in stored', NEW e \in stored', d.fingerprint = e.fingerprint
        PROVE  d = e
    <2>1. CASE d \in stored /\ e \in stored
      BY <1>6, <2>1 DEF EntriesOfRows
    <2>2. CASE d \in NewEntries(c) /\ e \in NewEntries(c)
      <3>1. PICK n \in DOMAIN rows :
               /\ rows[n].valid
               /\ d = [fingerprint |-> rows[n].fingerprint, content |-> rows[n].content, goal |-> c.goal,
                       reviewed |-> c.reviewed = c.csv \/ c.crossed]
        BY <1>3, <2>2
      <3>2. PICK k \in DOMAIN rows :
               /\ rows[k].valid
               /\ e = [fingerprint |-> rows[k].fingerprint, content |-> rows[k].content, goal |-> c.goal,
                       reviewed |-> c.reviewed = c.csv \/ c.crossed]
        BY <1>3, <2>2
      <3>3. n = k
        BY <1>2, <1>6, <3>1, <3>2, RowsApart
      <3> QED
        BY <3>1, <3>2, <3>3
    <2>3. \A x \in stored, y \in NewEntries(c) : x.fingerprint # y.fingerprint
      BY <1>3 DEF Fingerprints
    <2> QED
      BY <1>1, <1>6, <2>1, <2>2, <2>3
  <1> QED
    BY <1>4, <1>5, <1>6 DEF EntriesOfRows

LEMMA EntriesStep ==
    ASSUME ImportTyped, PreviewsOfText, ReviewedRowsOnly, EntriesOfRows, [ImportNext]_importVars
    PROVE  EntriesOfRows' /\ ReviewedRowsOnly'
  <1>1. CASE stored' = stored /\ imported' = imported
    <2>1. \A e \in stored, o \in Nat \ {0} : ListedIn(e, o) => ListedIn(e, o)'
      BY <1>1, BankStays, StillListed
    <2> QED
      BY <1>1, <2>1 DEF EntriesOfRows, ReviewedRowsOnly
  <1>2. ASSUME NEW c \in confirms, CarryOut(c), Accepted(c)
        PROVE  EntriesOfRows' /\ ReviewedRowsOnly'
    <2>1. \A e \in NewEntries(c) : e.reviewed
      <3>1. c.reviewed = c.csv \/ c.crossed
        BY DEF PreviewsOfText
      <3>2. (c.reviewed = c.csv \/ c.crossed) = TRUE
        BY <3>1
      <3>3. ASSUME NEW e \in NewEntries(c)
            PROVE  e.reviewed
        <4>1. PICK n \in c.rows :
                 e = [fingerprint |-> bank[c.csv].rows[n].fingerprint, content |-> bank[c.csv].rows[n].content,
                      goal |-> c.goal, reviewed |-> TRUE]
          BY <3>2 DEF NewEntries
        <4> QED
          BY <4>1
      <3> QED
        BY <3>3
    <2>2. stored' = stored \cup NewEntries(c)
      BY <1>2 DEF CarryOut
    <2> QED
      BY <1>2, <2>1, <2>2, EntriesCarriedOut DEF ReviewedRowsOnly
  <1>3. (stored' = stored /\ imported' = imported) \/ \E c \in confirms : CarryOut(c) /\ Accepted(c)
    BY DEF ImportNext, importVars, ChooseFile, FileRead, FileFailed, AnswerPreview, PreviewShown, PreviewFailed,
           ToggleRow, ToggleTag, SendConfirm, CarryOut, ImportComplete, ImportFailed
  <1> QED
    BY <1>1, <1>2, <1>3

(* Carrying a confirmation out stores the rows it names, and no row of an   *)
(* earlier one is removed.                                                  *)
LEMMA RowsStoredStep ==
    ASSUME RowsStored, [ImportNext]_importVars
    PROVE  RowsStored'
  <1>1. bank' = bank
    BY BankStays
  <1>2. CASE stored' = stored /\ imported' = imported
    BY <1>1, <1>2 DEF RowsStored, Fingerprints
  <1>3. ASSUME NEW c \in confirms, CarryOut(c), Accepted(c)
        PROVE  RowsStored'
    <2> DEFINE rows == bank[c.csv].rows
               entry(n) == [fingerprint |-> rows[n].fingerprint, content |-> rows[n].content, goal |-> c.goal,
                            reviewed |-> c.reviewed = c.csv \/ c.crossed]
    <2>1. /\ stored' = stored \cup NewEntries(c)
          /\ imported' = imported \cup {[csv |-> c.csv, rows |-> c.rows]}
      BY <1>3 DEF CarryOut
    <2>2. \A n \in c.rows : n \in DOMAIN rows /\ rows[n].valid
      BY <1>3 DEF Accepted
    <2>3. ASSUME NEW n \in c.rows
          PROVE  rows[n].fingerprint \in Fingerprints'
      <3>1. CASE rows[n].fingerprint \in Fingerprints
        BY <2>1, <3>1 DEF Fingerprints
      <3>2. CASE rows[n].fingerprint \notin Fingerprints
        <4>1. entry(n) \in NewEntries(c)
          BY <3>2 DEF NewEntries
        <4> QED
          BY <2>1, <4>1 DEF Fingerprints
      <3> QED
        BY <3>1, <3>2
    <2>4. Fingerprints \subseteq Fingerprints'
      BY <2>1 DEF Fingerprints
    <2> QED
      BY <1>1, <2>1, <2>2, <2>3, <2>4 DEF RowsStored
  <1>4. (stored' = stored /\ imported' = imported) \/ \E c \in confirms : CarryOut(c) /\ Accepted(c)
    BY DEF ImportNext, importVars, ChooseFile, FileRead, FileFailed, AnswerPreview, PreviewShown, PreviewFailed,
           ToggleRow, ToggleTag, SendConfirm, CarryOut, ImportComplete, ImportFailed
  <1> QED
    BY <1>2, <1>3, <1>4

(* Rows of one confirmation have fingerprints of their own, and so entries  *)
(* of their own.                                                            *)
LEMMA RowsCounted ==
    ASSUME ImportTyped, EntriesOfRows, RowsStored
    PROVE  RepeatsCounted
  <1> SUFFICES ASSUME NEW i \in imported, NEW n \in i.rows
               PROVE  Cardinality(Alike(bank[i.csv].rows[n].content)) >=
                        Cardinality({m \in i.rows : bank[i.csv].rows[m].content = bank[i.csv].rows[n].content})
    BY DEF RepeatsCounted
  <1> DEFINE rows == bank[i.csv].rows
             content == rows[n].content
             repeats == {m \in i.rows : rows[m].content = content}
             same == Alike(content)
             entry == [m \in repeats |-> CHOOSE d \in stored : d.fingerprint = rows[m].fingerprint]
  <1>1. Parsed(rows)
    BY DEF ImportTyped
  <1>2. \A m \in repeats : m \in DOMAIN rows /\ rows[m].valid /\ rows[m].fingerprint \in Fingerprints
    BY DEF RowsStored
  <1> HIDE DEF rows
  <1>3. \A m \in repeats : entry[m] \in stored /\ entry[m].fingerprint = rows[m].fingerprint
    BY <1>2 DEF Fingerprints
  <1> HIDE DEF entry
  <1>4. ASSUME NEW m \in repeats
        PROVE  entry[m].content = content
    <2>1. PICK o \in Nat : entry[m].fingerprint = <<entry[m].content, o>>
      BY <1>3 DEF EntriesOfRows
    <2>2. rows[m].fingerprint = <<content, Cardinality(Among(rows, m))>>
      BY <1>1, <1>2, RowOfFile
    <2>3. <<entry[m].content, o>> = <<content, Cardinality(Among(rows, m))>>
      BY <1>3, <2>1, <2>2
    <2> QED
      BY <2>3
  <1>5. \A m, k \in repeats : entry[m] = entry[k] => m = k
    BY <1>1, <1>2, <1>3, RowsApart
  <1>6. entry \in Injection(repeats, same)
    <2>1. entry \in [repeats -> same]
      BY <1>3, <1>4 DEF Alike, entry
    <2> QED
      BY <1>5, <2>1 DEF Injection, IsInjective
  <1>7. IsFiniteSet(same) /\ Cardinality(same) \in Nat
    BY FS_Subset, FS_CardinalityType DEF EntriesOfRows, Alike
  <1>8. Cardinality(repeats) <= Cardinality(same) /\ Cardinality(repeats) \in Nat
    BY <1>6, <1>7, FS_Injection, FS_CardinalityType
  <1> QED
    BY <1>7, <1>8 DEF rows

(* Of as many entries of a content as there are, one stands for a row with  *)
(* at least their number before it: its file lists the content that often.  *)
LEMMA AsOftenAsListed ==
    ASSUME ImportTyped, EntriesOfRows
    PROVE  EachOccurrenceOnce
  <1> SUFFICES ASSUME NEW e \in stored
               PROVE  \E i \in imported :
                         Cardinality({d \in stored : d.content = e.content}) <= Listed(i.csv, e.content)
    BY DEF EachOccurrenceOnce, Alike
  <1> DEFINE same == {d \in stored : d.content = e.content}
             number == Cardinality(same)
             o == [d \in same |-> d.fingerprint[2]]
  <1>1. IsFiniteSet(same) /\ number \in Nat /\ number # 0
    <2>1. IsFiniteSet(same) /\ e \in same
      BY FS_Subset DEF EntriesOfRows
    <2> QED
      BY <2>1, FS_EmptySet, FS_CardinalityType
  <1>2. \A d \in same : o[d] \in Nat \ {0} /\ d.fingerprint = <<e.content, o[d]>>
                        /\ \E i \in imported : o[d] <= Listed(i.csv, e.content)
    BY DEF EntriesOfRows, ListedIn
  <1>3. \A c, d \in same : o[c] = o[d] => c = d
    <2> SUFFICES ASSUME NEW c \in same, NEW d \in same, o[c] = o[d]
                 PROVE  c = d
      OBVIOUS
    <2>1. c.fingerprint = d.fingerprint
      BY <1>2
    <2> QED
      BY <2>1 DEF EntriesOfRows
  <1> HIDE DEF same, o
  <1>4. \E d \in same : o[d] >= number
    <2> SUFFICES ASSUME \A d \in same : o[d] < number
                 PROVE  FALSE
      BY <1>1, <1>2
    <2>1. o \in [same -> 1..(number - 1)]
      <3>1. ASSUME NEW d \in same
            PROVE  o[d] \in 1..(number - 1)
        <4>1. o[d] \in Nat \ {0} /\ o[d] < number
          BY <1>2
        <4> QED
          BY <1>1, <4>1
      <3> QED
        BY <3>1 DEF o
    <2>2. o \in Injection(same, 1..(number - 1))
      BY <1>3, <2>1 DEF Injection, IsInjective
    <2>3. IsFiniteSet(1..(number - 1)) /\ Cardinality(1..(number - 1)) = number - 1
      <3>1. 1 \in Int /\ number - 1 \in Int /\ ~ 1 > (number - 1) + 1
        BY <1>1
      <3>2. Cardinality(1..(number - 1)) = (IF 1 > number - 1 THEN 0 ELSE (number - 1) - 1 + 1)
        BY <3>1, FS_Interval
      <3>3. IsFiniteSet(1..(number - 1))
        BY <3>1, FS_Interval
      <3> QED
        BY <1>1, <3>2, <3>3
    <2>4. number <= number - 1
      BY <2>2, <2>3, FS_Injection
    <2> QED
      BY <1>1, <2>4
  <1>5. PICK d \in same : o[d] >= number
    BY <1>4
  <1>6. PICK i \in imported : o[d] <= Listed(i.csv, e.content)
    BY <1>2, <1>5
  <1> DEFINE f == i.csv
  <1>7. Listed(f, e.content) \in Nat
    <2>1. f \in DOMAIN bank /\ Parsed(bank[f].rows)
      BY DEF ImportTyped
    <2> DEFINE rows == bank[f].rows
    <2> HIDE DEF rows
    <2>2. IsFiniteSet(DOMAIN rows)
      <3>1. PICK m \in Nat : DOMAIN rows = 2..(m + 1)
        BY <2>1 DEF Parsed, rows
      <3> QED
        BY <3>1, FS_Interval
    <2>3. IsFiniteSet({n \in DOMAIN rows : rows[n].valid /\ rows[n].content = e.content})
      BY <2>2, FS_Subset
    <2> QED
      BY <2>3, FS_CardinalityType DEF Listed, rows
  <1>8. number <= Listed(f, e.content)
    BY <1>1, <1>2, <1>5, <1>6, <1>7
  <1> QED
    BY <1>8 DEF same

LEMMA ImportInitially ==
    ASSUME ImportInit
    PROVE  ImportInv
  <1>1. ImportTyped
    BY ImportTypedInit
  <1>2. IsFiniteSet(stored)
    BY FS_EmptySet DEF ImportInit
  <1> QED
    BY <1>1, <1>2 DEF ImportInit, ImportInv, PreviewsOfText, ReviewedRowsOnly, EntriesOfRows, RowsStored

(* The invariant of the import screen and the statements behind it: rows    *)
(* numbered within their files, previews and confirmations of the text the  *)
(* screen has unless crossed, entries that each stand for one row of a file *)
(* imported (chooseFile, previewMutation, confirmImport).                   *)
THEOREM ImportInvariance == ImportSpec => []ImportInv
  <1>1. ImportInit => ImportInv
    BY ImportInitially
  <1>2. ImportInv /\ [ImportNext]_importVars => ImportInv'
    BY ImportTypedStep, PreviewsStep, EntriesStep, RowsStoredStep DEF ImportInv
  <1> QED
    BY <1>1, <1>2, PTL DEF ImportSpec

(* For any files, any number of files chosen and confirmations sent, and    *)
(* answers late, lost or out of order: nothing is stored that was not       *)
(* reviewed unless previews crossed, and overlapping statements imported in *)
(* part and repeatedly count an entry as often as the statement that lists  *)
(* it most often, and no more, and every row confirmed (confirmImport,      *)
(* createMany with skipDuplicates, the occurrence in the fingerprint).      *)
THEOREM ImportsStaySound == ImportSpec => []ImportsSound
  <1>1. ImportInv => ImportsSound
    BY AsOftenAsListed, RowsCounted DEF ImportInv, ImportsSound
  <1> QED
    BY <1>1, ImportInvariance, PTL
=============================================================================
