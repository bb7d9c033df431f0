---------------------------- MODULE CustomerRecords ----------------------------
(***************************************************************************)
(* Goals and transactions of customers: GoalsService and                   *)
(* TransactionsService, statement by statement, with several requests in   *)
(* flight.  What the statements see and wait for is RowTransactions; the   *)
(* two unique indexes they rely on are ActiveBlockers/ActiveTaken (one     *)
(* active goal per customer) and the skipped duplicates of ConfirmImport   *)
(* (one transaction per customer and fingerprint).                         *)
(***************************************************************************)
EXTENDS RowTransactions

CONSTANTS
    User,          \* customers
    Fingerprint,   \* fingerprints of import rows
    Bad,           \* a row of a file that the parser rejects
    NoGoal,        \* a transaction without a goal
    Same,          \* a field left out of an update: it keeps its stored value
    MaxRequests,   \* requests handled in a behaviour
    MaxRows        \* goals, and transactions, ever created (never the limit)

ASSUME RoomForAll ==
    MaxRequests \in Nat /\ MaxRows \in Nat /\ MaxRows >= 2 * MaxRequests + 1

VARIABLES
    pc,        \* per request: the statement it executes next
    req,       \* per request: the operation, its customer and its input
    found,     \* per request: what its first read returned
    targets,   \* per request: the rows its updateMany matched
    made,      \* ids given out, by kind
    handled    \* requests started

txVars == <<db, draft, shared>>
vars == <<txVars, pc, req, found, targets, made, handled>>

-----------------------------------------------------------------------------
Goal == {"goal"} \X (1..MaxRows)
Entry == {"entry"} \X (1..MaxRows)
Row == Goal \cup Entry
Closed == {"completed", "cancelled"}
GoalRow(u, on, st) == [owner |-> u, isActive |-> on, status |-> st]
EntryRow(u, g, f) == [owner |-> u, goal |-> g, print |-> f]
GoalRows == [owner : User, isActive : BOOLEAN, status : Closed \cup {"active", "replaced"}]
EntryRows == [owner : User, goal : Goal \cup {NoGoal}, print : Fingerprint \cup {NoGoal}]

(* Import files: numbered rows, each the fingerprint the parser derives or Bad.*)
Files == {f \in [1..2 -> Fingerprint \cup {Bad}] : f[1] # f[2]}

Requests ==
    [op : {"create"}, user : User]
        \cup [op : {"update"}, user : User, goal : Goal, isActive : BOOLEAN \cup {Same}]
        \cup [op : {"end"}, user : User, goal : Goal, status : Closed]
        \cup [op : {"record"}, user : User, goal : Goal \cup {NoGoal}]
        \cup [op : {"import"}, user : User, goal : Goal \cup {NoGoal}, file : Files]
        \cup [op : {"revise"}, user : User, entry : Entry, goal : Goal \cup {NoGoal, Same}]
        \cup [op : {"remove"}, user : User, entry : Entry]

NoRequest == [op |-> "none"]

ASSUME ValuesApart ==
    /\ User # {} /\ NoGoal \notin Goal /\ Same \notin Goal \cup {NoGoal} \cup BOOLEAN
    /\ Absent \notin GoalRows \cup EntryRows

(* A customer's app names the goals and transactions that exist.           *)
Named(r) == /\ "goal" \in DOMAIN r /\ r.goal \in Goal => db[r.goal] # Absent
            /\ "entry" \in DOMAIN r => db[r.entry] # Absent

Init ==
    /\ db = [r \in Row |-> IF r = <<"goal", 1>> THEN GoalRow(CHOOSE u \in User : TRUE, TRUE, "active")
                           ELSE Absent]
    /\ draft = [p \in Process |-> <<>>]
    /\ shared = [p \in Process |-> {}]
    /\ pc = [p \in Process |-> "idle"]
    /\ req = [p \in Process |-> NoRequest]
    /\ found = [p \in Process |-> Absent]
    /\ targets = [p \in Process |-> {}]
    /\ made = [goal |-> 1, entry |-> 0]
    /\ handled = 0

-----------------------------------------------------------------------------
Owned(v, u) == v # Absent /\ v.owner = u
IsActive(v, u) == Owned(v, u) /\ v.isActive

(* The partial unique index: a row that becomes active waits for the       *)
(* transactions that make or unmake an active goal of the same customer,   *)
(* and is refused while one is committed or written by its own transaction.*)
ActiveBlockers(p, u) ==
    {q \in Process \ {p} : \E g \in Goal \cap DOMAIN draft[q] :
                               IsActive(draft[q][g], u) \/ IsActive(db[g], u)}
ActiveTaken(p, u, g) == \E h \in Goal \ {g} : IsActive(Seen(p)[h], u)

Step(p, from, to) == pc[p] = from /\ pc' = [pc EXCEPT ![p] = to]
Keep(locals) == UNCHANGED <<db, made, handled>> /\ UNCHANGED locals

(* The answer: an error rolls the open transaction back.                   *)
Forget(p) ==
    /\ pc' = [pc EXCEPT ![p] = "idle"]
    /\ req' = [req EXCEPT ![p] = NoRequest]
    /\ found' = [found EXCEPT ![p] = Absent]
    /\ targets' = [targets EXCEPT ![p] = {}]
    /\ UNCHANGED handled
Fail(p) == Rollback(p) /\ Forget(p) /\ UNCHANGED made

FirstStatement(r) ==
    CASE r.op = "create" -> "scan"
      [] r.op \in {"update", "end"} -> "read"
      [] OTHER -> "check"

Begin(p, r) ==
    /\ handled < MaxRequests /\ Named(r)
    /\ handled' = handled + 1
    /\ Step(p, "idle", FirstStatement(r))
    /\ req' = [req EXCEPT ![p] = r]
    /\ UNCHANGED <<txVars, found, targets, made>>

Arrive(p) == \E r \in Requests : Begin(p, r)

-----------------------------------------------------------------------------
(* GoalsService.  create, and update with isActive: true, first mark the   *)
(* other active goals replaced: the snapshot finds them, the write waits   *)
(* for their locks and looks at each of them again.                        *)
ScanActive(p) ==
    /\ Step(p, "scan", "replace")
    /\ targets' = [targets EXCEPT ![p] =
           {g \in Goal : IsActive(Seen(p)[g], req[p].user)
                             /\ (req[p].op = "update" => g # req[p].goal)}]
    /\ Keep(<<draft, shared, req, found>>)

Replace(p) ==
    /\ Writers(p, targets[p]) = {}
    /\ Step(p, "replace", IF req[p].op = "create" THEN "insert" ELSE "write")
    /\ LET still == {g \in targets[p] : IsActive(Seen(p)[g], req[p].user)}
       IN  Stage(p, [g \in still |-> [db[g] EXCEPT !.isActive = FALSE, !.status = "replaced"]])
    /\ Keep(<<shared, req, found, targets>>)

InsertGoal(p) ==
    /\ pc[p] = "insert"
    /\ ActiveBlockers(p, req[p].user) = {}
    /\ LET g == <<"goal", made.goal + 1>> IN
       /\ \/ /\ ~ ActiveTaken(p, req[p].user, g)
             /\ Stage(p, Only(g, GoalRow(req[p].user, TRUE, "active")))
             /\ made' = [made EXCEPT !.goal = @ + 1]
             /\ Step(p, "insert", "commit")
             /\ UNCHANGED <<db, shared, req, found, targets, handled>>
          \/ ActiveTaken(p, req[p].user, g) /\ Fail(p)

(* update and end read the goal before they write it.                      *)
ReadGoal(p) ==
    /\ pc[p] = "read"
    /\ LET r == req[p]
           v == Seen(p)[r.goal]
           ok == Owned(v, r.user) /\ (r.op = "end" => v.isActive /\ v.status = "active")
       IN  \/ /\ ok
              /\ Step(p, "read", IF r.op = "update" /\ r.isActive = TRUE THEN "scan" ELSE "write")
              /\ found' = [found EXCEPT ![p] = v]
              /\ Keep(<<draft, shared, req, targets>>)
           \/ ~ ok /\ Fail(p)

(* Mutant: a reactivated goal keeps the status it ended with.              *)
BugStatusKept(r, existing, now) ==
    IF r.isActive = Same THEN now ELSE [now EXCEPT !.isActive = r.isActive]

(* update's data: a field that is undefined keeps its stored value, and    *)
(* whether the goal is being ended is decided by the row read before.      *)
UpdatedGoal(r, existing, now) ==
    CASE r.isActive = TRUE -> [now EXCEPT !.isActive = TRUE, !.status = "active"]
      [] r.isActive = FALSE /\ existing.isActive ->
            [now EXCEPT !.isActive = FALSE, !.status = "cancelled"]
      [] r.isActive = FALSE /\ ~ existing.isActive -> [now EXCEPT !.isActive = FALSE]
      [] OTHER -> now

UpdateGoal(p) ==
    /\ pc[p] = "write" /\ req[p].op = "update"
    /\ Writers(p, {req[p].goal}) = {}
    /\ LET r == req[p]
           taken == r.isActive = TRUE /\ ActiveTaken(p, r.user, r.goal)
       IN  /\ r.isActive = TRUE => ActiveBlockers(p, r.user) = {}
           /\ \/ /\ ~ taken
                 /\ Step(p, "write", "commit")
                 /\ Stage(p, Only(r.goal, UpdatedGoal(r, found[p], Seen(p)[r.goal])))
                 /\ Keep(<<shared, req, found, targets>>)
              \/ taken /\ Fail(p)

(* Mutant: end updates by id, trusting the row it read.                    *)
BugEndById(p) ==
    /\ pc[p] = "write" /\ req[p].op = "end"
    /\ Writers(p, {req[p].goal}) = {}
    /\ Step(p, "write", "commit")
    /\ Stage(p, Only(req[p].goal, GoalRow(req[p].user, FALSE, req[p].status)))
    /\ Keep(<<shared, req, found, targets>>)

(* end updates only a goal that is still active.                           *)
EndGoal(p) ==
    /\ pc[p] = "write" /\ req[p].op = "end"
    /\ LET r == req[p]
           match == IsActive(db[r.goal], r.user) /\ db[r.goal].status = "active"
       IN  \/ /\ match /\ Writers(p, {r.goal}) = {}
              /\ Step(p, "write", "commit")
              /\ Stage(p, Only(r.goal, GoalRow(r.user, FALSE, r.status)))
              /\ Keep(<<shared, req, found, targets>>)
           \/ ~ match /\ Fail(p)

CommitGoal(p) == pc[p] = "commit" /\ Commit(p) /\ Forget(p) /\ UNCHANGED made

-----------------------------------------------------------------------------
(* TransactionsService.  The ownership checks are statements of their own, *)
(* before the statement that writes.                                       *)
EnsureOwned(p) ==
    /\ pc[p] = "check"
    /\ LET r == req[p]
           ok == /\ r.op # "remove" /\ r.goal \in Goal => Owned(db[r.goal], r.user)
                 /\ r.op \in {"revise", "remove"} => Owned(db[r.entry], r.user)
       IN  \/ /\ ok
              /\ Step(p, "check", IF r.op = "import" THEN "preview" ELSE "store")
              /\ UNCHANGED <<txVars, req, found, targets, made, handled>>
           \/ ~ ok /\ Fail(p)

NewEntry(u, g, f) == Only(<<"entry", made.entry + 1>>, EntryRow(u, g, f))

CreateEntry(p) ==
    /\ pc[p] = "store" /\ req[p].op = "record"
    /\ Write(NewEntry(req[p].user, req[p].goal, NoGoal))
    /\ made' = [made EXCEPT !.entry = @ + 1]
    /\ Forget(p)

(* previewImport marks the rows already imported; the customer then        *)
(* confirms a selection.  The screen offers the rows shown as ready, but   *)
(* the preview it shows may be older than a confirmation elsewhere, or of  *)
(* another text: a selection may name any row, and one that the text does  *)
(* not have (0).                                                           *)
Imported(u) == {db[x].print : x \in {y \in Entry : Owned(db[y], u)}} \ {NoGoal}
Ready(file, u) == {n \in DOMAIN file : file[n] # Bad /\ file[n] \notin Imported(u)}

PreviewImport(p) ==
    /\ Step(p, "preview", "confirm")
    /\ \E rows \in (SUBSET DOMAIN req[p].file \ {{}}) \cup {{0}} :
          found' = [found EXCEPT ![p] = rows]
    /\ UNCHANGED <<txVars, req, targets, made, handled>>

(* A preview with nothing to select ends the import on the screen.         *)
PreviewEmpty(p) ==
    /\ pc[p] = "preview"
    /\ Ready(req[p].file, req[p].user) = {}
    /\ Fail(p)

(* Mutant: rows imported since the preview are inserted again.             *)
BugInsertedAgain(u, g, prints) ==
    LET at == CHOOSE f \in [prints -> 1..Cardinality(prints)] :
                  \A a, b \in prints : a # b => f[a] # f[b]
    IN  [x \in {<<"entry", made.entry + at[a]>> : a \in prints} |->
            EntryRow(u, g, CHOOSE a \in prints : x[2] = made.entry + at[a])]

(* confirmImport inserts the selected rows, all or none, except those      *)
(* whose fingerprint the customer has by then.                             *)
Inserted(u, g, prints) ==
    LET fresh == prints \ Imported(u)
        at == CHOOSE f \in [fresh -> 1..Cardinality(fresh)] :
                  \A a, b \in fresh : a # b => f[a] # f[b]
    IN  [x \in {<<"entry", made.entry + at[a]>> : a \in fresh} |->
            EntryRow(u, g, CHOOSE a \in fresh : x[2] = made.entry + at[a])]

(* Before, it checks again that the goal is the customer's, and parses the *)
(* text again: it refuses the selection if a row is missing or invalid.    *)
(* The check of the goal and the insertion are one step: goals are neither *)
(* removed nor given away in between.                                      *)
ConfirmImport(p) ==
    /\ pc[p] = "confirm"
    /\ LET r == req[p]
           ok == /\ r.goal \in Goal => Owned(db[r.goal], r.user)
                 /\ \A n \in found[p] : n \in DOMAIN r.file /\ r.file[n] # Bad
           new == Inserted(r.user, r.goal, {r.file[n] : n \in found[p]})
       IN  \/ /\ ok
              /\ Write(new) /\ Forget(p)
              /\ made' = [made EXCEPT !.entry = @ + Cardinality(DOMAIN new)]
           \/ ~ ok /\ Fail(p)

(* update keeps the fingerprint and what the request leaves out; a row     *)
(* removed since is an error.                                              *)
ReviseEntry(p) ==
    /\ pc[p] = "store" /\ req[p].op = "revise"
    /\ LET r == req[p] IN
       IF db[r.entry] = Absent \/ r.goal = Same THEN Write(<<>>)
       ELSE Write(Only(r.entry, [db[r.entry] EXCEPT !.goal = r.goal]))
    /\ Forget(p) /\ UNCHANGED made

RemoveEntry(p) ==
    /\ pc[p] = "store" /\ req[p].op = "remove"
    /\ Write(Only(req[p].entry, Absent))
    /\ Forget(p) /\ UNCHANGED made

(* A transaction that waits is ended as a deadlock's victim or by Prisma's *)
(* transaction timeout.                                                    *)
Waiting(p) ==
    \/ pc[p] = "replace" /\ Writers(p, targets[p]) # {}
    \/ pc[p] = "insert" /\ ActiveBlockers(p, req[p].user) # {}
    \/ /\ pc[p] = "write"
       /\ \/ Writers(p, {req[p].goal}) # {}
          \/ req[p].op = "update" /\ req[p].isActive = TRUE /\ ActiveBlockers(p, req[p].user) # {}
Abort(p) == Waiting(p) /\ Fail(p)

Statement(p) ==
    \/ ScanActive(p) \/ Replace(p) \/ InsertGoal(p) \/ ReadGoal(p) \/ UpdateGoal(p)
    \/ EndGoal(p) \/ CommitGoal(p)
    \/ EnsureOwned(p) \/ CreateEntry(p) \/ PreviewImport(p) \/ PreviewEmpty(p) \/ ConfirmImport(p)
    \/ ReviseEntry(p) \/ RemoveEntry(p)
    \/ Abort(p)

Next == \E p \in Process : Arrive(p) \/ Statement(p)
Spec == Init /\ [][Next]_vars

-----------------------------------------------------------------------------
(* Types of the tables; a draft holds rows of the same tables.             *)
TypeOK ==
    /\ \A g \in Goal : db[g] \in GoalRows \cup {Absent}
    /\ \A x \in Entry : db[x] \in EntryRows \cup {Absent}
    /\ \A p \in Process :
          /\ DOMAIN draft[p] \subseteq Goal
          /\ \A g \in DOMAIN draft[p] : draft[p][g] \in GoalRows
          /\ req[p] \in Requests \cup {NoRequest}
          /\ pc[p] = "idle" <=> req[p] = NoRequest

(* A customer never has two active goals, whatever creations,              *)
(* reactivations and updates overlap, and a goal that is active is not     *)
(* recorded as ended (GoalsService.create and update).                     *)
OneActiveGoal ==
    /\ \A g, h \in Goal : db[g] # Absent /\ db[h] # Absent /\ g # h =>
          ~ (db[g].isActive /\ db[h].isActive /\ db[g].owner = db[h].owner)
    /\ \A g \in Goal : db[g] # Absent /\ db[g].isActive => db[g].status = "active"

(* Replacement is atomic: a customer who had an active goal is without one *)
(* only because a request to end or deactivate a goal was answered, never  *)
(* because a replacement stopped half way (GoalsService.create's           *)
(* transaction).                                                           *)
HasActive(u) == \E g \in Goal : IsActive(db[g], u)
ReplacementAtomic ==
    [][\A u \in User : HasActive(u) /\ ~ HasActive(u)' =>
          \E p \in Process : /\ pc[p] = "commit" /\ req[p].user = u
                             /\ \/ req[p].op = "end"
                                \/ req[p].op = "update" /\ req[p].isActive = FALSE]_vars

(* How a goal ended is recorded once: complete and cancel never overwrite  *)
(* an outcome; only a reactivation, or a deactivation that read the goal   *)
(* while it was still active, does (GoalsService.end, conditional update). *)
OutcomeKept ==
    [][\A g \in Goal : db[g] # Absent /\ db[g].status # "active" /\ db'[g] # db[g] =>
          \E p \in Process : /\ pc[p] = "commit" /\ req[p].op = "update" /\ req[p].goal = g
                             /\ (req[p].isActive = TRUE \/ found[p].isActive)]_vars

(* A transaction is linked to a goal of its own customer, although the     *)
(* check and the write are separate statements (ensureGoalBelongsToUser).  *)
EntriesOwned ==
    \A x \in Entry : db[x] # Absent /\ db[x].goal # NoGoal =>
        Owned(db[db[x].goal], db[x].owner)

(* Importing a file again, from two devices at once or after a preview     *)
(* that is no longer current, counts none of its rows twice                *)
(* (confirmImport, docs/transaction-file-import.md).                       *)
ImportedOnce ==
    \A x, y \in Entry : db[x] # Absent /\ db[y] # Absent /\ x # y =>
        db[x].print = NoGoal \/ db[x].print # db[y].print \/ db[x].owner # db[y].owner

(* The transactions of every customer, and what happens to goals.          *)
EntriesSound == EntriesOwned /\ ImportedOnce
GoalSteps == ReplacementAtomic /\ OutcomeKept

-----------------------------------------------------------------------------
(* The inductive invariant behind OneActiveGoal, EntriesSound and           *)
(* GoalSteps.                                                               *)

(* The statement a request is at belongs to its operation.                  *)
StatementFits(p) ==
    LET op == req[p].op IN
    CASE pc[p] = "idle" -> op = "none"
      [] pc[p] \in {"scan", "replace"} -> op = "create" \/ (op = "update" /\ req[p].isActive = TRUE)
      [] pc[p] = "insert" -> op = "create"
      [] pc[p] \in {"read", "write"} -> op \in {"update", "end"}
      [] pc[p] = "commit" -> op \in {"create", "update", "end"}
      [] pc[p] = "check" -> op \in {"record", "import", "revise", "remove"}
      [] pc[p] \in {"preview", "confirm"} -> op = "import"
      [] pc[p] = "store" -> op \in {"record", "revise", "remove"}
      [] OTHER -> FALSE

(* What a request has checked stays true: goals are not removed, and rows   *)
(* do not change their owner.                                               *)
CheckedHolds(p) ==
    LET r == req[p] IN
    /\ pc[p] \in {"scan", "replace", "write", "commit"} /\ r.op \in {"update", "end"} =>
          Owned(db[r.goal], r.user) /\ found[p] \in GoalRows
    /\ pc[p] \in {"check", "store"} /\ r.op = "revise" => r.entry[2] <= made.entry
    /\ pc[p] \in {"preview", "confirm", "store"} =>
          /\ r.op # "remove" /\ r.goal \in Goal => Owned(db[r.goal], r.user)
          /\ r.op = "revise" => db[r.entry] = Absent \/ Owned(db[r.entry], r.user)
    /\ pc[p] = "replace" => targets[p] \subseteq Goal /\ (r.op = "update" => r.goal \notin targets[p])

(* Ids are given out once, and there are enough of them: two at most for    *)
(* every request that has not inserted yet.                                 *)
Creating == {p \in Process : pc[p] \in {"scan", "replace", "insert"} /\ req[p].op = "create"}
Storing == {p \in Process : pc[p] \in {"check", "preview", "confirm", "store"}
                                /\ req[p].op \in {"record", "import"}}
IdsFresh ==
    /\ \A n \in 1..MaxRows :
          /\ n > made.goal => /\ db[<<"goal", n>>] = Absent
                              /\ \A p \in Process : <<"goal", n>> \notin DOMAIN draft[p]
          /\ n > made.entry => db[<<"entry", n>>] = Absent
    /\ IsFiniteSet(Creating) /\ IsFiniteSet(Storing)
    /\ made.goal + Cardinality(Creating) <= handled + 1
    /\ made.entry + 2 * Cardinality(Storing) <= 2 * handled
    /\ handled <= MaxRequests

(* A transaction writes goals of its customer only, over the rows as they   *)
(* are: it has replaced active ones, and before the commit done what it is  *)
(* for.                                                                     *)
Replaced(p, g) ==
    /\ IsActive(db[g], req[p].user)
    /\ draft[p][g] = [db[g] EXCEPT !.isActive = FALSE, !.status = "replaced"]
Done(p, g) ==
    LET r == req[p] IN
    CASE r.op = "create" -> db[g] = Absent /\ draft[p][g] = GoalRow(r.user, TRUE, "active")
      [] r.op = "update" -> g = r.goal /\ draft[p][g] = UpdatedGoal(r, found[p], db[g])
      [] r.op = "end" -> /\ g = r.goal /\ IsActive(db[g], r.user)
                         /\ draft[p][g] = GoalRow(r.user, FALSE, r.status)
DraftFits(p) ==
    LET r == req[p]
        replaces == r.op = "create" \/ (r.op = "update" /\ r.isActive = TRUE)
    IN
    /\ pc[p] \notin {"insert", "write", "commit"} => DOMAIN draft[p] = {}
    /\ pc[p] = "write" /\ r.op = "update" => r.goal \notin DOMAIN draft[p]
    /\ \A g \in DOMAIN draft[p] : (replaces /\ Replaced(p, g)) \/ (pc[p] = "commit" /\ Done(p, g))
    /\ pc[p] = "commit" => \E g \in DOMAIN draft[p] : Done(p, g)

(* Rows are locked by one transaction; every transaction sees one active    *)
(* goal of a customer, and one transaction at a time has an active goal of  *)
(* that customer in its draft.                                              *)
LockedByOne == \A p, q \in Process : p # q => DOMAIN draft[p] \cap DOMAIN draft[q] = {}
OneInView(p) ==
    \A u \in User : \A g, h \in Goal : IsActive(Seen(p)[g], u) /\ IsActive(Seen(p)[h], u) => g = h
Activates(p, u) == \E g \in DOMAIN draft[p] : IsActive(draft[p][g], u)
OneActivates ==
    \A u \in User : \A p, q \in Process : Activates(p, u) /\ Activates(q, u) => p = q
StatusFits(v) == v \in GoalRows /\ v.isActive => v.status = "active"

Frame ==
    /\ DOMAIN db = Row
    /\ DOMAIN draft = Process /\ DOMAIN pc = Process /\ DOMAIN req = Process
    /\ DOMAIN found = Process /\ DOMAIN targets = Process
    /\ made \in [goal : Nat, entry : Nat] /\ handled \in Nat

IInv ==
    /\ Frame /\ TypeOK
    /\ \A p \in Process : StatementFits(p) /\ CheckedHolds(p) /\ DraftFits(p) /\ OneInView(p)
    /\ IdsFresh
    /\ LockedByOne /\ OneActivates
    /\ \A p \in Process : \A g \in DOMAIN draft[p] : StatusFits(draft[p][g])
    /\ OneActiveGoal /\ EntriesSound
=============================================================================
