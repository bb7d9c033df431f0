------------------------------ MODULE AccountData ------------------------------
(***************************************************************************)
(* The customer's account: AccountService (profile, consents, export,      *)
(* deletion), the notification queue's block on accounts being deleted,    *)
(* and the consumer that may be delivering to them.  One customer, rows of *)
(* every kind that refers to them, requests and consumers on several API   *)
(* instances.  AddRows stands for the other services' inserts, committed   *)
(* statement by statement.                                                 *)
(***************************************************************************)
EXTENDS RowTransactions

CONSTANTS
    Instance,      \* API processes: each has its own in-memory block
    MaxRequests,   \* requests handled in a behaviour
    MaxTries,      \* deliveries a consumer begins
    MaxAdds        \* inserts by other services

VARIABLES
    pc, req, at,   \* per request: next statement, operation, its instance
    found,         \* per request: the consents it read, or the jobs to block
    consumer,      \* per instance: the delivery it works on
    blocked,       \* per instance: deletingAccountIds holds the customer
    blockedJobs,   \* per instance: deletingNotificationIds
    ownIds,        \* per instance: deletingNotificationIdsByAccount
    searching,     \* per instance: discoveringAccountPhones holds the phone
    timers,        \* per instance: finalizeAccountDeletion's pending timers
    history,       \* consent records in the order they were inserted
    late,          \* per request: the events a deletion of its came too early for
    handled, tries, adds

txVars == <<db, draft, shared>>
reqVars == <<pc, req, at, found>>
blockVars == <<blocked, blockedJobs, ownIds, searching, timers>>
sendVars == <<consumer, tries>>
vars == <<txVars, reqVars, blockVars, sendVars, history, late, handled, adds>>

-----------------------------------------------------------------------------
Category == {"analytics", "research"}
User == <<"user", 1>>
Pref == <<"pref", 1>>
Jobs == {"job", "legacy"} \X (1..MaxAdds + 1)
Codes == {"code"} \X (1..MaxAdds + 1)
Goals == {"goal"} \X (1..MaxAdds + 1)
Events == {"event"} \X (1..MaxAdds + 1)
Row == {User, Pref} \cup Jobs \cup Codes \cup Goals \cup Events
Nobody == <<"nobody", 0>>
Redacted == [of |-> Nobody]
Unset == [c \in Category |-> FALSE]

ASSUME AccountAssumption ==
    /\ MaxAdds \in Nat
    /\ Absent \notin [name : {"old", "new"}] \cup [of : {User, Nobody} \cup Codes] \cup [Category -> BOOLEAN]

(* A consent request sets one category or both.                            *)
Choices == UNION {[C -> BOOLEAN] : C \in SUBSET Category \ {{}}}
Requests == [op : {"consents"}, input : Choices] \cup [op : {"profile", "export", "delete"}]
NoRequest == [op |-> "none"]
NoDelivery == [step |-> "idle"]

(* At the start the customer has a queued message, one of the kind stored  *)
(* before jobs had a userId, a goal and an authentication event.           *)
Init ==
    /\ db = [r \in Row |-> CASE r = User -> [name |-> "old"]
                             [] r \in Jobs \cup Goals \cup Events /\ r[2] = 1 -> [of |-> User]
                             [] OTHER -> Absent]
    /\ draft = [p \in Process |-> <<>>]
    /\ shared = [p \in Process |-> {}]
    /\ pc = [p \in Process |-> "idle"]
    /\ req = [p \in Process |-> NoRequest]
    /\ at \in [Process -> Instance]
    /\ found = [p \in Process |-> Absent]
    /\ consumer = [i \in Instance |-> NoDelivery]
    /\ blocked = {} /\ searching = {}
    /\ blockedJobs = [i \in Instance |-> {}]
    /\ ownIds = [i \in Instance |-> {}]
    /\ timers = [i \in Instance |-> 0]
    /\ history = [c \in Category |-> <<>>]
    /\ late = [p \in Process |-> {}]
    /\ handled = 0 /\ tries = 0 /\ adds = 0

-----------------------------------------------------------------------------
Present(r) == db[r] # Absent
Unread(j) == Kind(j) = "legacy" /\ db[j] = Redacted
Step(p, from, to) == pc[p] = from /\ pc' = [pc EXCEPT ![p] = to]

Forget(p) ==
    /\ pc' = [pc EXCEPT ![p] = "idle"]
    /\ req' = [req EXCEPT ![p] = NoRequest]
    /\ found' = [found EXCEPT ![p] = Absent]
    /\ UNCHANGED at

Arrive(p) ==
    /\ handled < MaxRequests
    /\ handled' = handled + 1
    /\ \E r \in Requests : Step(p, "idle", r.op) /\ req' = [req EXCEPT ![p] = r]
    /\ UNCHANGED <<txVars, at, found, blockVars, sendVars, history, late, adds>>

(* updateProfile is one statement; getAccount and exportData only read.    *)
Profile(p) ==
    /\ pc[p] = "profile" /\ Writers(p, {User}) = {}
    /\ Write(IF Present(User) THEN Only(User, [name |-> "new"]) ELSE <<>>)
    /\ Forget(p)
    /\ UNCHANGED <<blockVars, sendVars, history, late, handled, adds>>

(* exportData reads the customer with the rows that belong to them, and    *)
(* then the notification and authentication history.                       *)
Export(p) ==
    /\ Step(p, "export", "history")
    /\ found' = [found EXCEPT ![p] = {r \in Row : Present(r)}]
    /\ UNCHANGED <<txVars, req, at, blockVars, sendVars, history, late, handled, adds>>
ExportHistory(p) ==
    /\ pc[p] = "history"
    /\ Forget(p)
    /\ UNCHANGED <<txVars, blockVars, sendVars, history, late, handled, adds>>

-----------------------------------------------------------------------------
(* updateConsents: the stored choices are read, compared with the input,   *)
(* and the differences upserted and appended to the history.               *)
ReadConsents(p) ==
    /\ pc[p] = "consents"
    /\ LET current == IF Seen(p)[Pref] = Absent THEN Unset ELSE Seen(p)[Pref]
           input == req[p].input
           same == \A c \in DOMAIN input : input[c] = current[c]
       IN  \/ /\ Present(User) /\ ~ same
              /\ Step(p, "consents", "upsert")
              /\ found' = [found EXCEPT ![p] = current]
              /\ UNCHANGED <<req, at>>
           \/ ~ Present(User) /\ Forget(p)
           \/ Present(User) /\ same /\ Forget(p)
    /\ UNCHANGED <<txVars, blockVars, sendVars, history, late, handled, adds>>

(* The row to create takes the other category from the earlier read, the   *)
(* row to update keeps what is stored.                                     *)
Upserted(p) ==
    LET stored == Seen(p)[Pref]
    IN  Over(req[p].input, IF stored = Absent THEN found[p] ELSE stored)

Upsert(p) ==
    /\ pc[p] = "upsert"
    /\ Writers(p, {Pref}) = {} /\ Removers(p, {User}) = {}
    /\ \/ /\ Present(User)
          /\ Step(p, "upsert", "append")
          /\ Stage(p, Only(Pref, Upserted(p)))
          /\ Refer(p, {User})
          /\ UNCHANGED <<db, req, at, found>>
       \/ ~ Present(User) /\ Rollback(p) /\ Forget(p)
    /\ UNCHANGED <<blockVars, sendVars, history, late, handled, adds>>

(* Mutant: the comparison is made after the upsert.                        *)
BugComparedLate(p) == {c \in DOMAIN req[p].input : req[p].input[c] # Seen(p)[Pref][c]}

(* createMany and the commit.                                              *)
Changed(p) == {c \in DOMAIN req[p].input : req[p].input[c] # found[p][c]}

AppendRecords(p) ==
    /\ pc[p] = "append"
    /\ history' = [c \in Category |->
           IF c \in Changed(p) THEN Append(history[c], req[p].input[c]) ELSE history[c]]
    /\ Commit(p)
    /\ Forget(p)
    /\ UNCHANGED <<blockVars, sendVars, late, handled, adds>>

-----------------------------------------------------------------------------
(* deleteAccount.  The block is raised in this instance's memory before    *)
(* the jobs to remove are looked up, and the rows then go table by table.  *)
Blocking(i, on) == blocked' = IF on THEN blocked \cup {i} ELSE blocked \ {i}

BeginDeletion(p) ==
    /\ pc[p] = "delete"
    /\ \/ /\ Present(User)
          /\ Step(p, "delete", "discover")
          /\ Blocking(at[p], TRUE) /\ searching' = searching \cup {at[p]}
          /\ UNCHANGED <<req, at, found>>
       \/ ~ Present(User) /\ Forget(p) /\ UNCHANGED <<blocked, searching>>
    /\ UNCHANGED <<txVars, blockedJobs, ownIds, timers, sendVars, history, late, handled, adds>>

(* Mutant: only jobs with a userId are looked up.                          *)
BugDiscoverOwned(p) ==
    /\ Step(p, "discover", "jobs")
    /\ LET ids == {j \in Jobs : Present(j) /\ Kind(j) = "job"} IN
       /\ found' = [found EXCEPT ![p] = ids]
       /\ ownIds' = [ownIds EXCEPT ![at[p]] = ids]
       /\ blockedJobs' = [blockedJobs EXCEPT ![at[p]] = @ \cup ids]
    /\ searching' = searching \ {at[p]}
    /\ UNCHANGED <<txVars, req, at, blocked, timers, sendVars, history, late, handled, adds>>

(* Jobs without a userId are told by the phone in their payload, which a   *)
(* redacted or undecryptable one does not show.                            *)
Discover(p) ==
    /\ Step(p, "discover", "jobs")
    /\ LET ids == {j \in Jobs : Present(j) /\ ~ Unread(j)} IN
       /\ found' = [found EXCEPT ![p] = ids]
       /\ ownIds' = [ownIds EXCEPT ![at[p]] = ids]
       /\ blockedJobs' = [blockedJobs EXCEPT ![at[p]] = @ \cup ids]
    /\ searching' = searching \ {at[p]}
    /\ UNCHANGED <<txVars, req, at, blocked, timers, sendVars, history, late, handled, adds>>

(* clearAccountDeletionBlock                                               *)
ClearBlock(i) ==
    /\ Blocking(i, FALSE)
    /\ blockedJobs' = [blockedJobs EXCEPT ![i] = @ \ ownIds[i]]
    /\ ownIds' = [ownIds EXCEPT ![i] = {}]

(* Mutant: a failed deletion leaves the block.                             *)
BugBlockKept(p) ==
    /\ Rollback(p)
    /\ Forget(p)
    /\ UNCHANGED <<blocked, blockedJobs, ownIds, timers, sendVars, history, late, handled, adds>>

DeletionFails(p) ==
    /\ Rollback(p)
    /\ ClearBlock(at[p])
    /\ Forget(p)
    /\ late' = [late EXCEPT ![p] = {}]
    /\ UNCHANGED <<timers, sendVars, history, handled, adds>>

(* The look-up itself may fail.                                            *)
DiscoverFails(p) ==
    /\ pc[p] = "discover"
    /\ searching' = searching \ {at[p]}
    /\ DeletionFails(p)

(* Mutant: the authentication events are left to the foreign key.          *)
BugEventsKept(t, ids) ==
    CASE t = "jobs" -> {j \in Jobs : Kind(j) = "job"} \cup ids
      [] t = "events" -> {}
      [] t = "codes" -> Codes
      [] t = "choices" -> {Pref}
      [] t = "goals" -> Goals
      [] t = "user" -> {User}

Table(t, ids) ==
    CASE t = "jobs" -> {j \in Jobs : Kind(j) = "job"} \cup ids
      [] t = "events" -> Events
      [] t = "codes" -> Codes
      [] t = "choices" -> {Pref}
      [] t = "goals" -> Goals
      [] t = "user" -> {User}
NextTable == [jobs |-> "events", events |-> "codes", codes |-> "choices", choices |-> "goals", goals |-> "user",
              user |-> "close"]
Deleting(p) == pc[p] \in {"jobs", "events", "codes", "choices", "goals", "user"}
Swept(p) == pc[p] \in {"codes", "choices", "goals", "user", "close"}

(* A row goes only if nothing that stays refers to it: a code with a job   *)
(* queued since, a customer with a code or a goal added since, stop the    *)
(* deletion.  The customer's other rows go with them, except an event,     *)
(* which keeps its phone number and loses the reference (ON DELETE SET     *)
(* NULL; the reference itself is left out).                                *)
Referred(p, t) ==
    CASE t = "codes" -> \E c \in Codes : Seen(p)[c] # Absent /\ Seen(p)[<<"job", c[2]>>] # Absent
      [] t = "user" -> \E r \in Codes \cup Goals : Seen(p)[r] # Absent
      [] OTHER -> FALSE
Cascade(t) == IF t = "user" THEN {Pref} \cup {j \in Jobs : Kind(j) = "job"} ELSE {}

(* Mutant: the statements are not one transaction.                         *)
BugDeleteCommits(p) ==
    /\ Deleting(p)
    /\ LET rows == {r \in Table(pc[p], found[p]) \cup Cascade(pc[p]) : Present(r)}
       IN  /\ Holders(p, rows) = {} /\ ~ Referred(p, pc[p])
           /\ Step(p, pc[p], NextTable[pc[p]])
           /\ Write([r \in rows |-> Absent])
           /\ UNCHANGED <<req, at, found, blockVars, sendVars, history, late, handled, adds>>

DeleteTable(p) ==
    /\ Deleting(p)
    /\ LET t == pc[p]
           rows == {r \in Table(t, found[p]) \cup Cascade(t) : Present(r)}
           gone == t = "user" /\ Seen(p)[User] = Absent
       IN  /\ Holders(p, rows \cup (Table(t, found[p]) \cap {User})) = {}
           /\ \/ /\ ~ Referred(p, t) /\ ~ gone
                 /\ Step(p, t, NextTable[t])
                 /\ Stage(p, [r \in rows |-> Absent])
                 /\ UNCHANGED <<db, shared, req, at, found, blockVars, sendVars, history, late, handled, adds>>
              \/ (Referred(p, t) \/ gone) /\ UNCHANGED searching /\ DeletionFails(p)

(* The commit, and finalizeAccountDeletion: the block is lifted by a timer.*)
CloseDeletion(p) ==
    /\ pc[p] = "close"
    /\ Commit(p)
    /\ Forget(p)
    /\ timers' = [timers EXCEPT ![at[p]] = @ + 1]
    /\ history' = [c \in Category |-> <<>>]
    /\ UNCHANGED <<blocked, blockedJobs, ownIds, searching, sendVars, late, handled, adds>>

TimerFires(i) ==
    /\ timers[i] > 0
    /\ timers' = [timers EXCEPT ![i] = @ - 1]
    /\ ClearBlock(i)
    /\ UNCHANGED <<txVars, reqVars, searching, sendVars, history, late, handled, adds>>

(* A statement that waits may be ended as a deadlock's victim or by the    *)
(* transaction's timeout.                                                  *)
Abort(p) ==
    \/ /\ pc[p] = "upsert"
       /\ Writers(p, {Pref}) # {} \/ Removers(p, {User}) # {}
       /\ Rollback(p) /\ Forget(p)
       /\ UNCHANGED <<blockVars, sendVars, history, late, handled, adds>>
    \/ /\ Deleting(p)
       /\ Holders(p, Table(pc[p], found[p]) \cup Cascade(pc[p])) # {}
       /\ UNCHANGED searching /\ DeletionFails(p)

-----------------------------------------------------------------------------
(* Other services insert for the customer while nobody deletes the row     *)
(* they refer to: a code, whose message follows, or a goal.                *)
AddRows ==
    /\ adds < MaxAdds /\ Present(User)
    /\ \A q \in Process : User \notin DOMAIN draft[q]
    /\ adds' = adds + 1
    /\ \E kind \in {"code", "goal"} : Write(Only(<<kind, adds' + 1>>, [of |-> User]))
    /\ UNCHANGED <<reqVars, blockVars, sendVars, history, late, handled>>

AddJob ==
    /\ \E c \in Codes : /\ Present(c) /\ ~ Present(<<"job", c[2]>>)
                        /\ \A q \in Process : {c, User} \cap DOMAIN draft[q] = {}
                        /\ Write(Only(<<"job", c[2]>>, [of |-> c]))
    /\ UNCHANGED <<reqVars, blockVars, sendVars, history, late, handled, adds>>

(* An authentication event is inserted with the phone number alone, as     *)
(* those of a rate limit are, so that it waits for no lock; late notes for *)
(* which deletions it came too late.                                       *)
AddEvent ==
    /\ adds < MaxAdds /\ Present(User)
    /\ adds' = adds + 1
    /\ Write(Only(<<"event", adds' + 1>>, [of |-> User]))
    /\ late' = [q \in Process |-> IF Swept(q) THEN late[q] \cup {<<"event", adds' + 1>>} ELSE late[q]]
    /\ UNCHANGED <<reqVars, blockVars, sendVars, history, handled>>

-----------------------------------------------------------------------------
(* The consumer: it has claimed a job whose payload it could read,         *)
(* canDeliver looks at the block and then at the table, and the message    *)
(* goes to the provider.                                                   *)
Claim(i) ==
    /\ consumer[i] = NoDelivery /\ tries < MaxTries
    /\ tries' = tries + 1
    /\ \E j \in Jobs : Present(j) /\ ~ Unread(j) /\ consumer' = [consumer EXCEPT ![i] = [step |-> "block", job |-> j]]
    /\ UNCHANGED <<txVars, reqVars, blockVars, history, late, handled, adds>>

Unblocked(i, j) ==
    /\ j \notin blockedJobs[i]
    /\ Kind(j) = "job" => i \notin blocked
    /\ i \notin searching

CheckBlock(i) ==
    /\ consumer[i].step = "block"
    /\ consumer' = [consumer EXCEPT ![i] =
           IF Unblocked(i, @.job) THEN [@ EXCEPT !.step = "table"] ELSE NoDelivery]
    /\ UNCHANGED <<txVars, reqVars, blockVars, history, late, tries, handled, adds>>

CheckTable(i) ==
    /\ consumer[i].step = "table"
    /\ consumer' = [consumer EXCEPT ![i] =
           IF Present(@.job) THEN [@ EXCEPT !.step = "send"] ELSE NoDelivery]
    /\ UNCHANGED <<txVars, reqVars, blockVars, history, late, tries, handled, adds>>

(* Unless the message is to be tried again its payload is redacted; of a   *)
(* job with a userId nobody reads it for the phone number.                 *)
Send(i) ==
    /\ consumer[i].step = "send"
    /\ consumer' = [consumer EXCEPT ![i] = NoDelivery]
    /\ \/ UNCHANGED txVars
       \/ /\ Kind(consumer[i].job) = "legacy" /\ Present(consumer[i].job)
          /\ \A q \in Process : consumer[i].job \notin DOMAIN draft[q]
          /\ Write(Only(consumer[i].job, Redacted))
    /\ UNCHANGED <<reqVars, blockVars, history, late, tries, handled, adds>>

-----------------------------------------------------------------------------
Statement(p) ==
    \/ Profile(p) \/ Export(p) \/ ExportHistory(p)
    \/ ReadConsents(p) \/ Upsert(p) \/ AppendRecords(p)
    \/ BeginDeletion(p) \/ Discover(p) \/ DiscoverFails(p) \/ DeleteTable(p) \/ CloseDeletion(p)
    \/ Abort(p)
Deliver(i) == CheckBlock(i) \/ CheckTable(i) \/ Send(i)

Next ==
    \/ \E p \in Process : Arrive(p) \/ Statement(p)
    \/ \E i \in Instance : Claim(i) \/ Deliver(i) \/ TimerFires(i)
    \/ AddRows \/ AddJob \/ AddEvent
Spec == Init /\ [][Next]_vars

-----------------------------------------------------------------------------
TypeOK ==
    /\ db[Pref] \in [Category -> BOOLEAN] \cup {Absent}
    /\ \A p \in Process : /\ DOMAIN draft[p] \subseteq Row /\ shared[p] \subseteq {User}
                          /\ req[p] \in Requests \cup {NoRequest}
                          /\ pc[p] = "idle" <=> req[p] = NoRequest
                          /\ late[p] \subseteq Events
    /\ blocked \subseteq Instance /\ searching \subseteq Instance
    /\ \A i \in Instance : ownIds[i] \subseteq Jobs /\ blockedJobs[i] \subseteq Jobs

(* A consent in force was given: whatever saves overlap, a category that   *)
(* is on has a record of a grant (updateConsents, also for the category a  *)
(* new preference row takes over from an earlier read).                    *)
GrantedOnRecord ==
    \A c \in Category : db[Pref] # Absent /\ db[Pref][c] =>
        \E n \in 1..Len(history[c]) : history[c][n]
ConsentsSound == TypeOK /\ GrantedOnRecord

(* What is left of a deleted account is a message without a userId whose   *)
(* payload can no longer be read, and an authentication event that was     *)
(* inserted after the deletion's statement for these; it keeps the phone   *)
(* number.  Nothing else is, not even a message tied to the customer by    *)
(* its phone number only, whatever was inserted meanwhile (deleteAccount). *)
AccountGoneWhole ==
    ~ Present(User) =>
        \E p \in Process : \A r \in Row : Present(r) => Unread(r) \/ r \in late[p]

(* Rows disappear only in the step that removes the customer, so that a    *)
(* deletion that fails has removed nothing (deleteAccount's transaction);  *)
(* and from that step on canDeliver lets no message of the customer pass,  *)
(* unless it is one the deletion left because another consumer, which had  *)
(* claimed it too, has finished it.  A message it let pass before may      *)
(* still go out after it.                                                  *)
DeletionSteps ==
    [][/\ \A r \in Row : Present(r) /\ ~ Present(r)' => ~ Present(User)'
       /\ \A i \in Instance :
             consumer[i].step = "table" /\ consumer'[i].step = "send" =>
                 Present(User) \/ Unread(consumer[i].job)]_vars

(* The block does not outlive its deletion: once no deletion runs and no   *)
(* timer is pending, the account and its messages are deliverable again,   *)
(* but those whose payload is redacted or unreadable, however deletions    *)
(* overlapped and failed (restoreForAccount, finalizeAccountDeletion).     *)
BlocksEnd ==
    \A i \in Instance :
        timers[i] = 0 /\ (\A p \in Process : at[p] = i => pc[p] # "discover" /\ pc[p] # "close" /\ ~ Deleting(p))
            => /\ i \notin blocked \cup searching
               /\ \A j \in blockedJobs[i] : ~ Present(j) \/ Unread(j)

(* docs/account-data-self-service.md: every changed consent choice is      *)
(* appended to the history; so the latest record of a category is what is  *)
(* stored, and a category without a record is off.                         *)
ConsentExplained ==
    \A c \in Category :
        (db[Pref] # Absent /\ db[Pref][c]) <=> (history[c] # <<>> /\ history[c][Len(history[c])])

-----------------------------------------------------------------------------
(* The inductive invariant behind ConsentsSound, AccountGoneWhole,          *)
(* BlocksEnd and DeletionSteps.                                             *)
Closing(p) == Deleting(p) \/ pc[p] = "close"

(* The deletion that removed the customer is over, and what it left stays   *)
(* the same.                                                                *)
Closed(p) ==
    /\ pc[p] # "discover" /\ ~ Closing(p)
    /\ \A r \in Row : Present(r) => Unread(r) \/ r \in late[p]
ClosedWhole == ~ Present(User) => \E p \in Process : Closed(p)

(* What the transaction of a request has written: nothing, the upserted     *)
(* choices, or deletions, which in the end cover every row there is but     *)
(* unreadable messages and late events.                                     *)
Transaction(p) ==
    /\ shared[p] = IF pc[p] = "append" THEN {User} ELSE {}
    /\ pc[p] # "append" /\ ~ Closing(p) => DOMAIN draft[p] = {}
    /\ pc[p] = "append" =>
          /\ Present(User)
          /\ DOMAIN draft[p] = {Pref} /\ draft[p][Pref] \in [Category -> BOOLEAN]
    /\ Closing(p) =>
          /\ \A r \in DOMAIN draft[p] : draft[p][r] = Absent
          /\ found[p] \subseteq Jobs
          /\ \A j \in Jobs : Kind(j) = "legacy" /\ Present(j) /\ ~ Unread(j) =>
                /\ j \in found[p]
                /\ pc[p] # "jobs" => j \in DOMAIN draft[p]
    /\ Swept(p) => \A e \in Events : Present(e) => e \in DOMAIN draft[p] \cup late[p]
    /\ Deleting(p) => User \notin DOMAIN draft[p]
    /\ pc[p] = "close" => /\ User \in DOMAIN draft[p]
                          /\ \A r \in Row : Present(r) =>
                                 r \in DOMAIN draft[p] \cup late[p] \/ Unread(r)

(* Locks: a row is in one draft, and the customer goes only when no insert  *)
(* that refers to them is open.                                             *)
Locked(p, q) ==
    /\ DOMAIN draft[p] \cap DOMAIN draft[q] = {}
    /\ pc[p] = "close" => pc[q] # "append"

(* What a consent request has read and will write is backed by the history. *)
Granted(c) == \E n \in 1..Len(history[c]) : history[c][n]
Consenting(p) ==
    /\ pc[p] \in {"consents", "upsert", "append"} => req[p].op = "consents"
    /\ pc[p] \in {"upsert", "append"} => found[p] \in [Category -> BOOLEAN]
    /\ pc[p] = "upsert" /\ Present(User) => \A c \in Category : found[p][c] => Granted(c)
    /\ pc[p] = "append" =>
          \A c \in Category : draft[p][Pref][c] =>
              Granted(c) \/ (c \in Changed(p) /\ req[p].input[c])

(* What an instance blocks it will release, and it blocks no job for good.  *)
Blocks(i) ==
    /\ i \in searching => \E p \in Process : at[p] = i /\ pc[p] = "discover"
    /\ i \in blocked \/ ownIds[i] # {} =>
          timers[i] # 0 \/ \E p \in Process : at[p] = i /\ (pc[p] = "discover" \/ Closing(p))
    /\ Present(User) => /\ \A j \in blockedJobs[i] : j \in ownIds[i] \/ Unread(j)
                        /\ \A j \in ownIds[i] : Present(j)

Delivery == [step : {"block", "table", "send"}, job : Jobs]
StateTyped ==
    /\ DOMAIN db = Row /\ DOMAIN draft = Process /\ DOMAIN shared = Process
    /\ DOMAIN req = Process /\ DOMAIN found = Process /\ DOMAIN late = Process
    /\ DOMAIN ownIds = Instance /\ DOMAIN blockedJobs = Instance /\ DOMAIN consumer = Instance
    /\ \A i \in Instance : consumer[i] \in {NoDelivery} \cup Delivery
    /\ pc \in [Process -> {"idle", "profile", "export", "history", "consents", "upsert", "append",
                           "delete", "discover", "jobs", "events", "codes", "choices", "goals", "user",
                           "close"}]
    /\ at \in [Process -> Instance]
    /\ timers \in [Instance -> Nat] /\ adds \in Nat
    /\ history \in [Category -> Seq(BOOLEAN)]

IInv ==
    /\ ConsentsSound
    /\ StateTyped
    /\ ClosedWhole
    /\ \A p \in Process : Transaction(p) /\ Consenting(p)
    /\ \A p, q \in Process : p # q => Locked(p, q)
    /\ \A i \in Instance : Blocks(i)
=============================================================================
