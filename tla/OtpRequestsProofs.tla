------------------------- MODULE OtpRequestsProofs -------------------------
(***************************************************************************)
(* Proofs about OtpRequests, for any number of concurrent requests, keys   *)
(* and codes and any hourly limit: a client that was told ok has a         *)
(* complete code with a job that carries it, no job has lost its code, and *)
(* requests that pass a limit's check together overshoot it by no more     *)
(* than their number.                                                      *)
(***************************************************************************)
EXTENDS OtpRequests, FiniteSetTheorems, TLAPS

(* The part of the invariant that does not count.                          *)
Core ==
    /\ TypeOK
    /\ JobsCarryRows
    /\ OkMeansQueued
    /\ RequestFits
    /\ IssuedByOne
    /\ LegacyOlder

-----------------------------------------------------------------------------
(* Steps that create no row, enqueue no job and mark no row done.  They may *)
(* remove unfinished rows that no job carries.                             *)
Removing(gone) ==
    /\ gone \subseteq Present /\ row' \in [Code -> Row]
    /\ \A c \in gone : ~ row[c].done /\ row'[c].status = "deleted" /\ \A k \in Key : job[k] # c
    /\ \A c \in Code \ gone : row'[c] = row[c]

(* Nothing is removed where no row changes.                                 *)
LEMMA NothingRemoved ==
    ASSUME TypeOK, UNCHANGED row
    PROVE  Removing({})
  BY DEF Removing, TypeOK

(* The row of a request that failed before its job was queued is removed.   *)
LEMMA RemoveOne ==
    ASSUME TypeOK, NEW c \in Present, ~ row[c].done, \A k \in Key : job[k] # c,
           row' = Remove(c)
    PROVE  Removing({c})
  <1>1. c \in Code
    BY DEF Present
  <1> QED
    BY <1>1 DEF Removing, Remove, NoRow, TypeOK, Row

(* A request goes on; at most unfinished rows without a job are removed.    *)
LEMMA QuietStep ==
    ASSUME Core, NEW p \in Process, NEW gone, Removing(gone),
           UNCHANGED <<job, legacy>>, TypeOK',
           \A q \in Process \ {p} : pc'[q] = pc[q] /\ key'[q] = key[q] /\ code'[q] = code[q],
           pc'[p] \in Steps => key'[p] \in Key,
           pc'[p] \in Working => /\ code'[p] \in Code
                                 /\ row[code'[p]].status # "absent"
                                 /\ code'[p] \in Present => row[code'[p]].key = key'[p],
           pc'[p] \in {"finish", "complete"} => Enqueued(key'[p], code'[p]),
           pc'[p] \in Issuing => pc[p] \in Issuing /\ code'[p] = code[p],
           pc'[p] = "take" /\ legacy # None => code'[p] <= legacy,
           \A k \in acked' : k \in acked \/ \E c \in RowOf(k) : row[c].done
    PROVE  Core'
  <1>1. /\ TypeOK /\ gone \subseteq Code
        /\ Present' = Present \ gone /\ \A k : RowOf(k)' = RowOf(k) \ gone
    BY DEF Core, Present, RowOf, Removing
  <1>2. JobsCarryRows'
    BY <1>1 DEF Core, JobsCarryRows, Removing
  <1>3. OkMeansQueued'
    <2>1. \A k \in acked' : \E c \in RowOf(k) : row[c].done
      BY DEF Core, OkMeansQueued
    <2>2. \A k \in acked' : \E c \in RowOf(k)' : row'[c].done
      BY <1>1, <2>1 DEF Removing, RowOf, Present
    <2>3. \A c \in Present' : c \in Present /\ row'[c] = row[c]
      BY <1>1 DEF Removing, Present
    <2> QED
      BY <2>2, <2>3 DEF Core, OkMeansQueued, Enqueued
  <1>4. RequestFits'
    BY <1>1 DEF Core, RequestFits, Enqueued, Removing, Present
  <1>5. IssuedByOne'
    BY DEF Core, IssuedByOne
  <1>6. LegacyOlder'
    BY <1>1 DEF Core, LegacyOlder, Removing, TypeOK
  <1> QED
    BY <1>2, <1>3, <1>4, <1>5, <1>6 DEF Core

(* What a reply leaves of its request.                                     *)
LEMMA Replied ==
    ASSUME TypeOK, NEW p \in Process, NEW answer \in Answers, Reply(p, answer),
           answer = "ok" => key[p] \in Key,
           row' \in [Code -> Row], job' \in [Key -> Code \cup {None}],
           legacy' \in Code \cup {None}
    PROVE  /\ TypeOK' /\ pc'[p] = answer
           /\ \A q \in Process \ {p} : pc'[q] = pc[q] /\ key'[q] = key[q] /\ code'[q] = code[q]
           /\ acked' \subseteq acked \cup {key[p]}
           /\ answer # "ok" => acked' = acked
           /\ pc'[p] \notin Steps \cup Working \cup Issuing \cup {"finish", "complete", "take"}
  <1>1. /\ TypeOK' /\ pc'[p] = answer
        /\ \A q \in Process \ {p} : pc'[q] = pc[q] /\ key'[q] = key[q] /\ code'[q] = code[q]
        /\ acked' \subseteq acked \cup {key[p]}
        /\ answer # "ok" => acked' = acked
    BY DEF TypeOK, Reply
  <1> QED
    BY <1>1 DEF Answers, Steps, Working, Issuing

(* A request is answered; ok only under a key whose code is done.           *)
LEMMA ReplyStep ==
    ASSUME Core, NEW p \in Process, NEW gone, Removing(gone), UNCHANGED jobs,
           NEW answer \in Answers, Reply(p, answer),
           answer = "ok" => key[p] \in Key /\ \E c \in RowOf(key[p]) : row[c].done
    PROVE  Core'
  <1>1. UNCHANGED <<job, legacy>> /\ row' \in [Code -> Row] /\ TypeOK
    BY DEF jobs, Removing, Core
  <1>2. /\ TypeOK' /\ pc'[p] = answer
        /\ \A q \in Process \ {p} : pc'[q] = pc[q] /\ key'[q] = key[q] /\ code'[q] = code[q]
        /\ acked' \subseteq acked \cup {key[p]}
        /\ answer # "ok" => acked' = acked
        /\ pc'[p] \notin Steps \cup Working \cup Issuing \cup {"finish", "complete", "take"}
    BY <1>1, Replied DEF TypeOK
  <1> QED
    BY <1>1, <1>2, QuietStep

(* Going on to another step with the same key and code.                    *)
LEMMA GotoStep ==
    ASSUME Core, NEW p \in Process, NEW gone, Removing(gone), UNCHANGED jobs,
           pc[p] \in Steps, NEW step \in Steps, Goto(p, step),
           step \in Working => pc[p] \in Working,
           step \in Issuing => pc[p] \in Issuing,
           step \in {"finish", "complete"} => Enqueued(key[p], code[p]),
           step = "take" /\ legacy # None => code[p] <= legacy
    PROVE  Core'
  <1>1. UNCHANGED <<job, legacy, key, code, again, acked>> /\ row' \in [Code -> Row]
    BY DEF jobs, Goto, Removing
  <1>2. TypeOK /\ RequestFits
    BY DEF Core
  <1>3. pc'[p] = step /\ \A q \in Process \ {p} : pc'[q] = pc[q]
    BY <1>2 DEF TypeOK, Goto
  <1>4. TypeOK'
    BY <1>1, <1>2 DEF TypeOK, Goto
  <1>5. key[p] \in Key
    BY <1>2 DEF RequestFits
  <1>6. pc'[p] \in Working => /\ code[p] \in Code
                              /\ row[code[p]].status # "absent"
                              /\ code[p] \in Present => row[code[p]].key = key[p]
    BY <1>2, <1>3 DEF RequestFits
  <1> QED
    BY <1>1, <1>3, <1>4, <1>5, <1>6, QuietStep DEF Enqueued

(* A replay that finds no row answers with an error or goes on to the       *)
(* limits.                                                                  *)
LEMMA NothingToReplayStep ==
    ASSUME Core, NEW p \in Process, NEW gone, Removing(gone), UNCHANGED jobs,
           pc[p] \in Steps, NothingToReplay(p)
    PROVE  Core'
  <1>1. CASE again[p]
    <2>1. Reply(p, "error") /\ "error" \in Answers /\ "error" # "ok"
      BY <1>1 DEF NothingToReplay, Answers
    <2> QED
      BY <2>1, ReplyStep
  <1>2. CASE ~ again[p]
    <2>1. /\ Goto(p, "limits") /\ "limits" \in Steps /\ "limits" \notin Working
          /\ "limits" \notin Issuing /\ "limits" \notin {"finish", "complete", "take"}
      BY <1>2 DEF NothingToReplay, Steps, Working, Issuing
    <2> QED
      BY <2>1, GotoStep
  <1> QED
    BY <1>1, <1>2

-----------------------------------------------------------------------------
(* Marking, creating, enqueueing.                                          *)

(* Marking a row done whose job carries it.                                *)
LEMMA MarkStep ==
    ASSUME Core, NEW p \in Process, pc[p] \in {"finish", "complete"},
           MarkDone(p, code[p]), UNCHANGED jobs
    PROVE  Core'
  <1>1. /\ TypeOK /\ RequestFits /\ JobsCarryRows /\ OkMeansQueued
        /\ key[p] \in Key /\ code[p] \in Code /\ job[key[p]] = code[p]
        /\ code[p] # None
    BY RequestAssumption DEF Core, RequestFits, Working, Steps, Enqueued
  <1>2. code[p] \in RowOf(key[p]) /\ code[p] \in Present /\ row[code[p]].key = key[p]
    BY <1>1 DEF JobsCarryRows, RowOf
  <1>3. UNCHANGED <<job, legacy>> /\ Reply(p, "ok") /\ "ok" \in Answers
    BY <1>2 DEF jobs, MarkDone, Answers
  <1>4. /\ row' = [row EXCEPT ![code[p]].done = TRUE]
        /\ row[code[p]] \in [status : {"present"}, key : Key, age : 0..Hour, done : BOOLEAN]
    BY <1>1, <1>2 DEF MarkDone, TypeOK, Row, Present
  <1>5. /\ row' \in [Code -> Row]
        /\ row'[code[p]].done
        /\ \A c \in Code : /\ row'[c].status = row[c].status /\ row'[c].key = row[c].key
                           /\ c # code[p] => row'[c] = row[c]
    BY <1>1, <1>4 DEF TypeOK, Row
  <1>6. Present' = Present /\ \A k : RowOf(k)' = RowOf(k)
    BY <1>5 DEF Present, RowOf
  <1>7. /\ TypeOK' /\ pc'[p] = "ok"
        /\ \A q \in Process \ {p} : pc'[q] = pc[q] /\ key'[q] = key[q] /\ code'[q] = code[q]
        /\ acked' \subseteq acked \cup {key[p]}
        /\ pc'[p] \notin Steps \cup Working \cup Issuing \cup {"finish", "complete", "take"}
    BY <1>1, <1>3, <1>5, Replied DEF TypeOK
  <1>9. JobsCarryRows'
    BY <1>1, <1>3, <1>6 DEF JobsCarryRows
  <1>10. OkMeansQueued'
    <2>1. \A c \in Present' : row'[c].done => Enqueued(row[c].key, c)'
      BY <1>1, <1>2, <1>3, <1>5, <1>6 DEF OkMeansQueued, Enqueued, Present
    <2>2. \A k \in acked' : \E c \in RowOf(k) : row'[c].done
      BY <1>1, <1>2, <1>5, <1>7 DEF OkMeansQueued, RowOf, Present
    <2> QED
      BY <1>5, <1>6, <2>1, <2>2 DEF OkMeansQueued, Present, Enqueued
  <1>11. RequestFits'
    BY <1>1, <1>3, <1>5, <1>6, <1>7 DEF RequestFits, Enqueued, Present
  <1>12. IssuedByOne'
    BY <1>3, <1>7 DEF Core, IssuedByOne
  <1>13. LegacyOlder'
    BY <1>1, <1>3, <1>5, <1>7 DEF Core, LegacyOlder, TypeOK
  <1> QED
    BY <1>7, <1>9, <1>10, <1>11, <1>12, <1>13 DEF Core

(* The row of a new code is inserted under its key.                         *)
LEMMA CreateStep ==
    ASSUME Core, NEW p \in Process, Create(p)
    PROVE  Core'
  <1>1. PICK c \in Code :
          /\ \A d \in Code : row[d].status = "absent" <=> d >= c
          /\ row' = [row EXCEPT ![c] = [status |-> "present", key |-> key[p],
                                        age |-> 0, done |-> FALSE]]
          /\ code' = [code EXCEPT ![p] = c]
    BY DEF Create
  <1>2. /\ TypeOK /\ RequestFits /\ pc[p] = "create" /\ key[p] \in Key /\ RowOf(key[p]) = {}
        /\ pc' = [pc EXCEPT ![p] = "event"]
        /\ UNCHANGED <<job, legacy, key, again, acked>>
    BY DEF Core, Create, RequestFits, jobs, Steps
  <1>3. c \in Nat /\ row[c].status = "absent" /\ c \notin Present
    BY <1>1, RequestAssumption DEF Code, Present
  <1>4. /\ row' \in [Code -> Row]
        /\ row'[c].status = "present" /\ row'[c].key = key[p] /\ ~ row'[c].done
        /\ \A d \in Code \ {c} : row'[d] = row[d]
    <2> DEFINE new == [status |-> "present", key |-> key[p], age |-> 0, done |-> FALSE]
    <2>1. new \in Row /\ new.status = "present" /\ new.key = key[p] /\ new.done = FALSE
      BY <1>2 DEF Row, Hour
    <2>2. row' = [row EXCEPT ![c] = new]
      BY <1>1
    <2> HIDE DEF new
    <2> QED
      BY <1>2, <2>1, <2>2 DEF TypeOK
  <1>5. TypeOK'
    BY <1>1, <1>2, <1>4 DEF TypeOK, Steps
  <1>6. Present' = Present \cup {c} /\ \A k : RowOf(k) \subseteq RowOf(k)'
    BY <1>1, <1>3, <1>4 DEF Present, RowOf
  <1>7. /\ pc'[p] = "event" /\ code'[p] = c
        /\ \A q \in Process \ {p} : pc'[q] = pc[q] /\ code'[q] = code[q]
    BY <1>1, <1>2 DEF TypeOK
  <1>8. \A q \in Process : pc[q] \in Working => code[q] \in Code /\ code[q] # c
    BY <1>2, <1>3 DEF RequestFits
  <1>9. \A k \in Key : job[k] # c
    BY <1>3, RequestAssumption DEF Core, JobsCarryRows, RowOf, Code
  <1>10. JobsCarryRows'
    BY <1>2, <1>6 DEF Core, JobsCarryRows
  <1>11. OkMeansQueued'
    <2>1. \A d \in Present : row'[d] = row[d]
      BY <1>3, <1>4 DEF Present
    <2>2. \A k \in acked' : \E d \in RowOf(k)' : row'[d].done
      BY <1>2, <1>6, <2>1 DEF Core, OkMeansQueued, RowOf
    <2>3. \A d \in Present' : row'[d].done => d \in Present
      BY <1>4, <1>6
    <2> QED
      BY <1>2, <2>1, <2>2, <2>3 DEF Core, OkMeansQueued, Enqueued
  <1>12. RequestFits'
    BY <1>1, <1>2, <1>4, <1>6, <1>7, <1>8 DEF RequestFits, Enqueued, Working, Issuing, Present
  <1>13. IssuedByOne'
    BY <1>2, <1>7, <1>8, <1>9 DEF Core, IssuedByOne, Working
  <1>14. LegacyOlder'
    <2> SUFFICES ASSUME legacy # None
                 PROVE  /\ row'[legacy].status # "absent"
                        /\ \A q \in Process : pc'[q] = "take" => code'[q] <= legacy
                        /\ \A q \in Process : pc'[q] \in Issuing => legacy < code'[q]
      BY <1>2 DEF LegacyOlder
    <2>1. legacy \in Code /\ row[legacy].status # "absent" /\ legacy # c
      BY <1>2, <1>3 DEF Core, LegacyOlder, TypeOK
    <2>2. legacy < c
      BY <1>1, <1>3, <2>1, RequestAssumption DEF Code
    <2> QED
      BY <1>4, <1>7, <2>1, <2>2 DEF Core, LegacyOlder
  <1> QED
    BY <1>5, <1>10, <1>11, <1>12, <1>13, <1>14 DEF Core

(* A job for the request's own code: no other one is linked to it by now.  *)
LEMMA EnqueueStep ==
    ASSUME Core, NEW p \in Process, pc[p] \in {"publish", "take"},
           code[p] \in Present, job[key[p]] = None,
           job' = [job EXCEPT ![key[p]] = code[p]],
           legacy' \in {legacy, None}, pc[p] = "take" => legacy # None /\ legacy' = None,
           NEW step \in {"finish", "complete"}, Goto(p, step), UNCHANGED row
    PROVE  Core'
  <1>1. /\ TypeOK /\ RequestFits /\ key[p] \in Key /\ code[p] \in Code
        /\ row[code[p]].key = key[p]
        /\ key' = key /\ code' = code /\ again' = again /\ acked' = acked
        /\ pc' = [pc EXCEPT ![p] = step]
    BY DEF Core, RequestFits, Working, Issuing, Steps, Goto
  <1>2. step \in Steps /\ step # "take" /\ step \notin Issuing /\ step \in Working
    BY DEF Steps, Issuing, Working
  <1>3. /\ job'[key[p]] = code[p] /\ \A k \in Key \ {key[p]} : job'[k] = job[k]
        /\ pc'[p] = step /\ \A q \in Process \ {p} : pc'[q] = pc[q]
    BY <1>1 DEF TypeOK
  <1>4. TypeOK'
    BY <1>1, <1>2 DEF TypeOK
  <1>5. Present' = Present /\ \A k : RowOf(k)' = RowOf(k)
    BY DEF Present, RowOf
  <1>6. JobsCarryRows'
    BY <1>1, <1>3, <1>5 DEF Core, JobsCarryRows, RowOf
  <1>7. OkMeansQueued'
    <2>1. \A c \in Present : row[c].done => row[c].key # key[p]
      BY <1>1, RequestAssumption DEF Core, OkMeansQueued, Enqueued, Present
    <2>2. \A c \in Present : row[c].done => Enqueued(row[c].key, c)'
      BY <1>1, <1>3, <2>1 DEF Core, OkMeansQueued, Enqueued, Present, TypeOK, Row
    <2> QED
      BY <1>1, <1>5, <2>2 DEF Core, OkMeansQueued, Enqueued
  <1>8. RequestFits'
    <2> SUFFICES ASSUME NEW q \in Process
                 PROVE  /\ pc'[q] \in Steps => key[q] \in Key
                        /\ pc'[q] \in Working =>
                              /\ code[q] \in Code
                              /\ row[code[q]].status # "absent"
                              /\ code[q] \in Present => row[code[q]].key = key[q]
                        /\ pc'[q] \in {"finish", "complete"} => job'[key[q]] = code[q]
      BY <1>1, <1>5 DEF RequestFits, Enqueued
    <2>1. CASE q = p
      BY <1>1, <1>3, <2>1 DEF RequestFits, Working, Issuing
    <2>2. CASE q # p
      <3>1. pc'[q] = pc[q]
        BY <1>3, <2>2
      <3>2. pc[q] \in {"finish", "complete"} =>
              key[q] \in Key /\ code[q] # None /\ job[key[q]] = code[q]
        BY <1>1, RequestAssumption DEF RequestFits, Enqueued, Steps, Working
      <3> QED
        BY <1>1, <1>3, <3>1, <3>2 DEF RequestFits
    <2> QED
      BY <2>1, <2>2
  <1>9. IssuedByOne'
    <2>1. \A q \in Process \ {p} : pc[q] \in Issuing => code[q] # code[p]
      <3>1. CASE pc[p] = "publish"
        BY <3>1 DEF Core, IssuedByOne, Issuing
      <3>2. CASE pc[p] = "take"
        <4>1. legacy \in Code /\ code[p] <= legacy
          BY <1>1, <3>2 DEF Core, LegacyOlder, TypeOK
        <4>2. \A q \in Process : pc[q] \in Issuing => legacy < code[q] /\ code[q] \in Code
          BY <1>1, <3>2 DEF Core, LegacyOlder, RequestFits, Working
        <4> QED
          BY <1>1, <4>1, <4>2, RequestAssumption DEF Code
      <3> QED
        BY <3>1, <3>2
    <2> QED
      BY <1>1, <1>2, <1>3, <2>1 DEF Core, IssuedByOne
  <1>10. LegacyOlder'
    BY <1>1, <1>2, <1>3 DEF Core, LegacyOlder
  <1> QED
    BY <1>4, <1>6, <1>7, <1>8, <1>9, <1>10 DEF Core

(* Rows age by a step.                                                      *)
LEMMA TickStep ==
    ASSUME Core, Tick
    PROVE  Core'
  <1>1. /\ TypeOK /\ UNCHANGED <<job, legacy, pc, key, code, again, acked>>
        /\ row' = [c \in Code |-> IF c \in Present /\ row[c].age < Hour
                                    THEN [row[c] EXCEPT !.age = @ + 1] ELSE row[c]]
    BY DEF Core, Tick, jobs, requestVars
  <1>2. /\ row' \in [Code -> Row]
        /\ \A c \in Code : /\ row'[c].status = row[c].status
                           /\ row'[c].key = row[c].key /\ row'[c].done = row[c].done
    <2> SUFFICES ASSUME NEW c \in Code
                 PROVE  /\ row'[c] \in Row /\ row'[c].status = row[c].status
                        /\ row'[c].key = row[c].key /\ row'[c].done = row[c].done
      BY <1>1
    <2>1. row[c] \in Row
      BY <1>1 DEF TypeOK
    <2>2. CASE c \in Present /\ row[c].age < Hour
      <3>1. row[c] \in [status : {"present"}, key : Key, age : 0..Hour, done : BOOLEAN]
        BY <2>1, <2>2 DEF Row, Present
      <3>2. row'[c] = [row[c] EXCEPT !.age = row[c].age + 1] /\ row[c].age + 1 \in 0..Hour
        BY <1>1, <2>2, <3>1 DEF Hour
      <3> QED
        BY <3>1, <3>2 DEF Row
    <2>3. CASE ~ (c \in Present /\ row[c].age < Hour)
      BY <1>1, <2>1, <2>3
    <2> QED
      BY <2>2, <2>3
  <1>3. Present' = Present /\ \A k : RowOf(k)' = RowOf(k)
    BY <1>2 DEF Present, RowOf
  <1>4. TypeOK'
    BY <1>1, <1>2 DEF TypeOK
  <1>5. JobsCarryRows'
    BY <1>1, <1>3 DEF Core, JobsCarryRows
  <1>6. OkMeansQueued'
    BY <1>1, <1>2, <1>3 DEF Core, OkMeansQueued, RowOf, Present, Enqueued
  <1>7. RequestFits'
    BY <1>1, <1>2, <1>3 DEF Core, RequestFits, Enqueued
  <1>8. IssuedByOne' /\ LegacyOlder'
    BY <1>1, <1>2 DEF Core, IssuedByOne, LegacyOlder, TypeOK
  <1> QED
    BY <1>4, <1>5, <1>6, <1>7, <1>8 DEF Core

-----------------------------------------------------------------------------
(* The steps of a request.                                                 *)

(* A row without a job is removed or waited for.                            *)
LEMMA UnqueuedStep ==
    ASSUME Core, NEW p \in Process, pc[p] \in {"adopt", "recheck"}, Unqueued(p),
           UNCHANGED <<row, jobs>>
    PROVE  Core'
  <1>1. Removing({})
    BY NothingRemoved DEF Core
  <1>2. CASE Goto(p, "remove")
    BY <1>1, <1>2, GotoStep DEF Steps, Working, Issuing
  <1>3. CASE Reply(p, "busy")
    BY <1>1, <1>3, ReplyStep DEF Answers
  <1> QED
    BY <1>2, <1>3 DEF Unqueued

(* adoptLegacyOtpRequest: find the unlinked job, then link it.              *)
LEMMA AdoptStep ==
    ASSUME Core, NEW p \in Process, Adopt(p)
    PROVE  Core'
  <1>1. ASSUME FindLegacy(p) PROVE Core'
    <2>1. Removing({}) /\ UNCHANGED <<row, jobs>> /\ pc[p] = "adopt"
      BY <1>1, NothingRemoved DEF Core, FindLegacy
    <2>2. CASE legacy # None /\ legacy >= code[p]
      <3>1. legacy \in Int /\ code[p] \in Int
        BY <2>1, <2>2, RequestAssumption DEF Core, TypeOK, RequestFits, Working, Code
      <3> QED
        BY <1>1, <2>1, <2>2, <3>1, GotoStep DEF FindLegacy, Steps, Working, Issuing
    <2>3. CASE ~ (legacy # None /\ legacy >= code[p])
      BY <1>1, <2>1, <2>3, UnqueuedStep DEF FindLegacy
    <2> QED
      BY <2>2, <2>3
  <1>2. ASSUME AdoptLegacy(p) PROVE Core'
    <2>1. UNCHANGED row /\ Removing({}) /\ pc[p] = "take"
      BY <1>2, NothingRemoved DEF Core, AdoptLegacy
    <2>2. CASE Goto(p, "recheck") /\ UNCHANGED jobs
      BY <2>1, <2>2, GotoStep DEF Steps, Working, Issuing
    <2>3. CASE Reply(p, "error") /\ UNCHANGED jobs
      BY <2>1, <2>3, ReplyStep DEF Answers
    <2>4. CASE /\ legacy # None /\ job[key[p]] = None /\ code[p] \in Present
               /\ job' = [job EXCEPT ![key[p]] = code[p]] /\ legacy' = None
               /\ Goto(p, "finish")
      BY <2>1, <2>4, EnqueueStep
    <2> QED
      BY <1>2, <2>2, <2>3, <2>4 DEF AdoptLegacy
  <1>3. ASSUME Recheck(p) PROVE Core'
    <2>1. UNCHANGED <<row, jobs>> /\ Removing({}) /\ pc[p] = "recheck"
      BY <1>3, NothingRemoved DEF Core, Recheck
    <2>2. CASE Enqueued(key[p], code[p])
      BY <1>3, <2>1, <2>2, GotoStep DEF Recheck, Steps, Working, Issuing
    <2>3. CASE ~ Enqueued(key[p], code[p])
      BY <1>3, <2>1, <2>3, UnqueuedStep DEF Recheck
    <2> QED
      BY <2>2, <2>3
  <1> QED
    BY <1>1, <1>2, <1>3 DEF Adopt

(* A request is looked up by its key.                                       *)
LEMMA LookupStep ==
    ASSUME Core, NEW p \in Process, Lookup(p)
    PROVE  Core'
  <1>1. /\ UNCHANGED <<row, jobs>> /\ Removing({}) /\ pc[p] = "lookup" /\ pc[p] \in Steps
        /\ key[p] \in Key
    BY NothingRemoved DEF Core, Lookup, RequestFits, Steps
  <1>2. CASE NothingToReplay(p)
    BY <1>1, <1>2, NothingToReplayStep
  <1>3. ASSUME NEW c \in RowOf(key[p]), row[c].done, Reply(p, "ok") PROVE Core'
    BY <1>1, <1>3, ReplyStep DEF Answers
  <1>4. ASSUME NEW c \in RowOf(key[p]), code' = [code EXCEPT ![p] = c],
               pc' = [pc EXCEPT ![p] = "check"], UNCHANGED <<key, again, acked>>
        PROVE  Core'
    <2>1. TypeOK /\ c \in Code /\ c \in Present /\ row[c].key = key[p]
      BY DEF Core, RowOf, Present
    <2>2. TypeOK' /\ UNCHANGED <<job, legacy>>
      BY <1>1, <1>4, <2>1 DEF TypeOK, Steps, jobs
    <2>3. /\ pc'[p] = "check" /\ code'[p] = c /\ key'[p] = key[p]
          /\ \A q \in Process \ {p} : pc'[q] = pc[q] /\ key'[q] = key[q] /\ code'[q] = code[q]
      BY <1>4, <2>1 DEF TypeOK
    <2>4. row[c].status # "absent" /\ "check" \notin Issuing
      BY <2>1 DEF Present, Issuing
    <2> QED
      BY <1>1, <1>4, <2>1, <2>2, <2>3, <2>4, QuietStep
  <1> QED
    BY <1>2, <1>3, <1>4 DEF Lookup

(* The replay of a request: done, still running, adopted or removed.        *)
LEMMA ReplayStep ==
    ASSUME Core, NEW p \in Process, Replay(p)
    PROVE  Core'
  <1>1. ASSUME Check(p) PROVE Core'
    <2>1. UNCHANGED <<row, jobs>> /\ Removing({}) /\ pc[p] = "check"
      BY <1>1, NothingRemoved DEF Core, Check
    <2> QED
      BY <1>1, <2>1, GotoStep DEF Check, Steps, Working, Issuing
  <1>2. ASSUME Finish(p) PROVE Core'
    BY <1>2, MarkStep DEF Finish
  <1>3. ASSUME RemoveStale(p) PROVE Core'
    <2>1. /\ pc[p] = "remove" /\ code[p] \in Present /\ ~ row[code[p]].done
          /\ job[key[p]] # code[p] /\ row' = Remove(code[p])
          /\ NothingToReplay(p) /\ UNCHANGED jobs
      BY <1>3 DEF RemoveStale, Enqueued
    <2>2. row[code[p]].key = key[p] /\ code[p] # None /\ pc[p] \in Steps
      BY <2>1, RequestAssumption DEF Core, RequestFits, Working, Steps, Present
    <2>3. \A k \in Key : job[k] # code[p]
      BY <2>1, <2>2 DEF Core, JobsCarryRows, RowOf
    <2>4. Removing({code[p]})
      BY <2>1, <2>3, RemoveOne DEF Core
    <2> QED
      BY <2>1, <2>2, <2>4, NothingToReplayStep
  <1>4. ASSUME RemoveStopped(p) PROVE Core'
    <2>1. /\ UNCHANGED <<row, jobs>> /\ Removing({}) /\ pc[p] = "remove"
          /\ Enqueued(key[p], code[p]) /\ Goto(p, "finish")
      BY <1>4, NothingRemoved DEF Core, RemoveStopped
    <2> QED
      BY <2>1, GotoStep DEF Steps, Working, Issuing
  <1>5. ASSUME RemoveMissed(p) PROVE Core'
    <2>1. Removing({}) /\ Reply(p, "busy") /\ UNCHANGED jobs /\ "busy" \in Answers
      BY <1>5, NothingRemoved DEF Core, RemoveMissed, Answers
    <2> QED
      BY <2>1, ReplyStep
  <1> QED
    BY <1>1, <1>2, <1>3, <1>4, <1>5, LookupStep, AdoptStep DEF Replay

(* The hourly limits and the cooldown.                                      *)
LEMMA LimitSteps ==
    ASSUME Core, NEW p \in Process, Limits(p) \/ CooldownCheck(p)
    PROVE  Core'
  <1>1. /\ UNCHANGED <<row, jobs>> /\ Removing({}) /\ pc[p] \in {"limits", "cooldown"}
        /\ key[p] \in Key
    BY NothingRemoved DEF Core, Limits, CooldownCheck, RequestFits, Steps
  <1>2. CASE \E answer \in {"refused", "busy"} : Reply(p, answer)
    BY <1>1, <1>2, ReplyStep DEF Answers
  <1>3. CASE \E step \in {"cooldown", "create"} : Goto(p, step)
    BY <1>1, <1>3, GotoStep DEF Steps, Working, Issuing
  <1>4. ASSUME NEW c \in Recent, row[c].key = key[p], row[c].done, Reply(p, "ok")
        PROVE  Core'
    <2>1. c \in RowOf(key[p])
      BY <1>4 DEF RowOf, Recent
    <2> QED
      BY <1>1, <1>4, <2>1, ReplyStep DEF Answers
  <1> QED
    BY <1>2, <1>3, <1>4 DEF Limits, CooldownCheck, Newest

(* From the inserted row over event and job to completion, and back if one  *)
(* of them fails.                                                           *)
LEMMA IssueStep ==
    ASSUME Core, NEW p \in Process, Issue(p)
    PROVE  Core'
  <1>1. ASSUME CreateCollides(p) PROVE Core'
    <2>1. /\ UNCHANGED <<row, job, legacy, key, code, acked>> /\ pc[p] = "create"
          /\ pc' = [pc EXCEPT ![p] = "lookup"] /\ again' = [again EXCEPT ![p] = TRUE]
      BY <1>1 DEF CreateCollides, jobs
    <2>2. TypeOK /\ Removing({}) /\ key[p] \in Key
      BY <2>1, NothingRemoved DEF Core, RequestFits, Steps
    <2>3. TypeOK'
      BY <2>1, <2>2 DEF TypeOK, Steps
    <2>4. /\ pc'[p] = "lookup" /\ \A q \in Process \ {p} : pc'[q] = pc[q]
          /\ "lookup" \notin Working /\ "lookup" \notin Issuing
      BY <2>1, <2>2 DEF TypeOK, Working, Issuing
    <2> QED
      BY <2>1, <2>2, <2>3, <2>4, QuietStep
  <1>2. ASSUME EventRecorded(p) \/ EventFails(p) PROVE Core'
    <2>1. /\ UNCHANGED <<row, jobs>> /\ Removing({}) /\ pc[p] = "event"
          /\ \E step \in {"publish", "undo"} : Goto(p, step)
      BY <1>2, NothingRemoved DEF Core, EventRecorded, EventFails
    <2> QED
      BY <2>1, GotoStep DEF Steps, Working, Issuing
  <1>3. ASSUME Undo(p) PROVE Core'
    <2>1. pc[p] = "undo" /\ Reply(p, "error") /\ UNCHANGED jobs /\ "error" \in Answers
      BY <1>3 DEF Undo, Answers
    <2>2. CASE code[p] \in Present /\ ~ row[code[p]].done
      <3>1. Removing({code[p]})
        BY <1>3, <2>1, <2>2, RemoveOne DEF Undo, Core, IssuedByOne, Issuing
      <3> QED
        BY <2>1, <3>1, ReplyStep
    <2>3. CASE ~ (code[p] \in Present /\ ~ row[code[p]].done)
      <3>1. Removing({})
        BY <1>3, <2>3, NothingRemoved DEF Undo, Core
      <3> QED
        BY <2>1, <3>1, ReplyStep
    <2> QED
      BY <2>2, <2>3
  <1>4. ASSUME Publish(p) PROVE Core'
    <2>1. /\ UNCHANGED <<row, legacy>> /\ pc[p] = "publish" /\ code[p] \in Present
          /\ job[key[p]] = None /\ job' = [job EXCEPT ![key[p]] = code[p]]
          /\ Goto(p, "complete")
      BY <1>4 DEF Publish
    <2> QED
      BY <2>1, EnqueueStep
  <1>5. ASSUME PublishFails(p) PROVE Core'
    <2>1. Removing({}) /\ Reply(p, "error") /\ UNCHANGED jobs /\ "error" \in Answers
      BY <1>5, NothingRemoved DEF Core, PublishFails, Answers
    <2> QED
      BY <2>1, ReplyStep
  <1>6. ASSUME Complete(p) PROVE Core'
    BY <1>6, MarkStep DEF Complete
  <1> QED
    BY <1>1, <1>2, <1>3, <1>4, <1>5, <1>6, LimitSteps, CreateStep DEF Issue

(* A request arrives with its key.                                          *)
LEMMA BeginStep ==
    ASSUME Core, NEW p \in Process, Begin(p)
    PROVE  Core'
  <1>1. PICK k \in Key : key' = [key EXCEPT ![p] = k]
    BY DEF Begin
  <1>2. /\ UNCHANGED <<row, job, legacy, code, again, acked>> /\ Removing({})
        /\ pc' = [pc EXCEPT ![p] = "lookup"]
    BY NothingRemoved DEF Begin, jobs, Core
  <1>3. TypeOK'
    BY <1>1, <1>2 DEF Core, TypeOK, Steps
  <1>4. /\ pc'[p] = "lookup" /\ key'[p] = k
        /\ \A q \in Process \ {p} : pc'[q] = pc[q] /\ key'[q] = key[q]
        /\ "lookup" \notin Working /\ "lookup" \notin Issuing
    BY <1>1, <1>2 DEF Core, TypeOK, Working, Issuing
  <1> QED
    BY <1>2, <1>3, <1>4, QuietStep

(* Every step keeps the part that does not count.                           *)
LEMMA NextCore == Core /\ [Next]_vars => Core'
  <1> SUFFICES ASSUME Core, [Next]_vars PROVE Core'
    OBVIOUS
  <1>1. ASSUME NEW p \in Process, Fail(p) PROVE Core'
    <2>1. Removing({}) /\ Reply(p, "error") /\ UNCHANGED jobs /\ "error" \in Answers
      BY <1>1, NothingRemoved DEF Core, Fail, Answers
    <2> QED
      BY <2>1, ReplyStep
  <1>2. CASE UNCHANGED vars
    <2>1. /\ row' = row /\ job' = job /\ legacy' = legacy /\ pc' = pc /\ key' = key
          /\ code' = code /\ again' = again /\ acked' = acked
      BY <1>2 DEF vars, jobs, requestVars
    <2> QED
      BY <2>1 DEF Core, TypeOK, JobsCarryRows, OkMeansQueued, RequestFits, IssuedByOne,
                  LegacyOlder, RowOf, Present, Enqueued
  <1> QED
    BY <1>1, <1>2, BeginStep, ReplayStep, IssueStep, TickStep DEF Next

-----------------------------------------------------------------------------
(* Counting rows and requests.                                             *)

(* What is counted is finite.                                               *)
LEMMA Counted ==
    ASSUME NEW steps
    PROVE  /\ IsFiniteSet(Recent) /\ IsFiniteSet(LastHour) /\ IsFiniteSet(At(steps))
           /\ Cardinality(Recent) \in Nat /\ Cardinality(LastHour) \in Nat
           /\ Cardinality(At(steps)) \in Nat /\ Cardinality(Process) \in Nat
           /\ Cardinality(At(steps)) <= Cardinality(Process)
  <1>1. IsFiniteSet(Code)
    BY RequestAssumption, FS_Interval DEF Code
  <1>2. Recent \subseteq Code /\ LastHour \subseteq Code /\ At(steps) \subseteq Process
    BY DEF Recent, LastHour, Present, At
  <1>3. IsFiniteSet(Recent) /\ IsFiniteSet(LastHour)
    BY <1>1, <1>2, FS_Subset
  <1>4. IsFiniteSet(At(steps)) /\ Cardinality(At(steps)) <= Cardinality(Process)
    BY <1>2, ProcessAssumption, FS_Subset
  <1> QED
    BY <1>3, <1>4, ProcessAssumption, FS_CardinalityType

(* The age of a row is a number.                                            *)
LEMMA AgeTyped ==
    ASSUME NEW r \in Row
    PROVE  r.age \in Int
  <1>1. CASE r \in [status : {"present"}, key : Key, age : 0..3, done : BOOLEAN]
    BY <1>1
  <1>2. CASE r \in [status : {"absent", "deleted"}, key : {None}, age : {0}, done : {FALSE}]
    BY <1>2
  <1> QED
    BY <1>1, <1>2 DEF Row, Hour

(* So are the ages of all rows.                                             *)
LEMMA AgesTyped == TypeOK => \A c \in Code : row[c].age \in Int
  BY AgeTyped DEF TypeOK

(* Ages grow and rows go; no other request comes to a limit's check.       *)
Ageing ==
    /\ \A c \in Present' : c \in Present /\ row[c].age <= row'[c].age
    /\ \A q \in Process : pc'[q] \in {"cooldown", "create"} => pc'[q] = pc[q]

(* A step that creates no row and sends nobody to a limit's check           *)
(* overshoots nothing.                                                      *)
LEMMA AgeingStep ==
    ASSUME TypeOK, TypeOK', Ageing, LimitsBounded
    PROVE  LimitsBounded'
  <1>1. \A c \in Present' : row[c].age \in Int /\ row'[c].age \in Int
    <2>1. \A c \in Code : row[c] \in Row /\ row'[c] \in Row
      BY DEF TypeOK
    <2> QED
      BY <2>1, AgeTyped DEF Present
  <1>2. Recent' \subseteq Recent /\ LastHour' \subseteq LastHour
    BY <1>1 DEF Ageing, Recent, LastHour, Cooldown, Hour
  <1>3. /\ At({"create"})' \subseteq At({"create"})
        /\ At({"cooldown", "create"})' \subseteq At({"cooldown", "create"})
    BY DEF Ageing, At
  <1>4. /\ Cardinality(Recent') <= Cardinality(Recent)
        /\ Cardinality(LastHour') <= Cardinality(LastHour)
        /\ Cardinality(At({"create"})') <= Cardinality(At({"create"}))
        /\ Cardinality(At({"cooldown", "create"})') <= Cardinality(At({"cooldown", "create"}))
        /\ Cardinality(Recent') \in Nat /\ Cardinality(LastHour') \in Nat
        /\ Cardinality(At({"create"})') \in Nat
        /\ Cardinality(At({"cooldown", "create"})') \in Nat
    BY <1>2, <1>3, Counted, FS_Subset, FS_CardinalityType
  <1> QED
    BY <1>4, Counted, RequestAssumption DEF LimitsBounded

(* A request passes the hourly limit's check.                              *)
LEMMA LimitsCounted ==
    ASSUME TypeOK, TypeOK', NEW p \in Process, Limits(p), LimitsBounded
    PROVE  LimitsBounded'
  <1>1. CASE Reply(p, "refused")
    <2>1. Ageing
      <3>1. row' = row /\ \A q \in Process : pc'[q] \in {"cooldown", "create"} => pc'[q] = pc[q]
        BY <1>1 DEF Limits, Reply, TypeOK
      <3> QED
        BY <3>1, AgesTyped DEF Ageing, Present
    <2> QED
      BY <2>1, AgeingStep
  <1>2. CASE Cardinality(LastHour) < HourlyLimit /\ Goto(p, "cooldown")
    <2>1. row' = row /\ pc' = [pc EXCEPT ![p] = "cooldown"]
      BY <1>2 DEF Limits, Goto
    <2>2. Recent' = Recent /\ LastHour' = LastHour
      BY <2>1 DEF Recent, LastHour, Present
    <2>3. At({"create"})' \subseteq At({"create"})
      BY <2>1 DEF At, TypeOK
    <2>4. /\ Cardinality(At({"create"})') <= Cardinality(At({"create"}))
          /\ Cardinality(At({"create"})') \in Nat
      BY <2>3, Counted, FS_Subset, FS_CardinalityType
    <2>5. /\ Cardinality(At({"cooldown", "create"})') <= Cardinality(Process)
          /\ Cardinality(At({"cooldown", "create"})') \in Nat
      <3>1. At({"cooldown", "create"})' \subseteq Process
        BY DEF At
      <3> QED
        BY <3>1, ProcessAssumption, FS_Subset, FS_CardinalityType
    <2> QED
      BY <1>2, <2>2, <2>4, <2>5, Counted, RequestAssumption DEF LimitsBounded
  <1> QED
    BY <1>1, <1>2 DEF Limits

(* A request finds no recent row and goes on to create one.                *)
LEMMA CooldownCounted ==
    ASSUME TypeOK, TypeOK', NEW p \in Process, CooldownCheck(p), LimitsBounded
    PROVE  LimitsBounded'
  <1>1. CASE \E answer \in {"refused", "busy", "ok"} : Reply(p, answer)
    <2>1. Ageing
      <3>1. row' = row /\ pc' \in [Process -> Answers \cup Steps]
        BY DEF CooldownCheck, TypeOK
      <3>2. \A q \in Process : pc'[q] \in {"cooldown", "create"} => pc'[q] = pc[q]
        BY <1>1 DEF Reply, TypeOK
      <3> QED
        BY <3>1, <3>2, AgesTyped DEF Ageing, Present
    <2> QED
      BY <2>1, AgeingStep
  <1>2. CASE Recent = {} /\ Goto(p, "create")
    <2>1. row' = row /\ pc' = [pc EXCEPT ![p] = "create"] /\ pc[p] = "cooldown"
      BY <1>2 DEF CooldownCheck, Goto
    <2>2. Recent' = {} /\ LastHour' = LastHour
      BY <1>2, <2>1 DEF Recent, LastHour, Present
    <2>3. At({"cooldown", "create"})' = At({"cooldown", "create"})
      BY <2>1 DEF At, TypeOK
    <2>4. /\ Cardinality(At({"create"})') <= Cardinality(Process)
          /\ Cardinality(At({"create"})') \in Nat
      <3>1. At({"create"})' \subseteq Process
        BY DEF At
      <3> QED
        BY <3>1, ProcessAssumption, FS_Subset, FS_CardinalityType
    <2> QED
      BY <2>2, <2>3, <2>4, Counted, FS_EmptySet DEF LimitsBounded
  <1> QED
    BY <1>1, <1>2 DEF CooldownCheck

(* A request that was counted becomes a row that is counted.               *)
LEMMA CreateCounted ==
    ASSUME TypeOK, NEW p \in Process, Create(p), LimitsBounded
    PROVE  LimitsBounded'
  <1>1. PICK c \in Code :
          /\ row[c].status = "absent"
          /\ row' = [row EXCEPT ![c] = [status |-> "present", key |-> key[p],
                                        age |-> 0, done |-> FALSE]]
    <2>1. PICK c \in Code :
            /\ \A d \in Code : row[d].status = "absent" <=> d >= c
            /\ row' = [row EXCEPT ![c] = [status |-> "present", key |-> key[p],
                                          age |-> 0, done |-> FALSE]]
      BY DEF Create
    <2>2. row[c].status = "absent"
      BY <2>1, RequestAssumption DEF Code
    <2> QED
      BY <2>1, <2>2
  <1>2. pc[p] = "create" /\ pc' = [pc EXCEPT ![p] = "event"]
    BY DEF Create
  <1>3. /\ row'[c].status = "present" /\ row'[c].age = 0
        /\ \A d \in Code \ {c} : row'[d] = row[d]
    BY <1>1 DEF TypeOK
  <1>4. Recent' = Recent \cup {c} /\ LastHour' = LastHour \cup {c}
        /\ c \notin Recent /\ c \notin LastHour
    BY <1>1, <1>3 DEF Recent, LastHour, Present, Cooldown, Hour
  <1>5. /\ At({"create"})' = At({"create"}) \ {p} /\ p \in At({"create"})
        /\ At({"cooldown", "create"})' = At({"cooldown", "create"}) \ {p}
        /\ p \in At({"cooldown", "create"})
    BY <1>2 DEF At, TypeOK
  <1>6. /\ Cardinality(Recent') = Cardinality(Recent) + 1
        /\ Cardinality(LastHour') = Cardinality(LastHour) + 1
    BY <1>4, Counted, FS_AddElement
  <1>7. /\ Cardinality(At({"create"})') = Cardinality(At({"create"})) - 1
        /\ Cardinality(At({"cooldown", "create"})') = Cardinality(At({"cooldown", "create"})) - 1
    BY <1>5, Counted, FS_RemoveElement
  <1> QED
    BY <1>6, <1>7, Counted, RequestAssumption DEF LimitsBounded

(* Every other step only ages or removes rows, as far as the limits count. *)
LEMMA RowsAge ==
    ASSUME TypeOK,
           \A q \in Process : pc'[q] \in {"cooldown", "create"} => pc'[q] = pc[q],
           \/ UNCHANGED row
           \/ \E c \in Present : row' = Remove(c) \/ row' = [row EXCEPT ![c].done = TRUE]
    PROVE  Ageing
  <1>1. \A c \in Code : row[c].age \in Int
    BY AgesTyped
  <1>2. CASE UNCHANGED row
    BY <1>1, <1>2 DEF Ageing, Present
  <1>3. ASSUME NEW c \in Present, row' = Remove(c) PROVE Ageing
    <2>1. row'[c].status = "deleted" /\ \A d \in Code \ {c} : row'[d] = row[d]
      BY <1>3 DEF Remove, NoRow, TypeOK, Present
    <2> QED
      BY <1>1, <2>1 DEF Ageing, Present
  <1>4. ASSUME NEW c \in Present, row' = [row EXCEPT ![c].done = TRUE] PROVE Ageing
    <2>1. c \in Code /\ row' = [row EXCEPT ![c] = [row[c] EXCEPT !.done = TRUE]]
      BY <1>4 DEF Present
    <2>2. row[c] \in [status : {"present"}, key : Key, age : 0..Hour, done : BOOLEAN]
      BY <2>1 DEF TypeOK, Row, Present
    <2>3. row'[c].age = row[c].age /\ \A d \in Code \ {c} : row'[d] = row[d]
      BY <2>1, <2>2 DEF TypeOK
    <2> QED
      BY <1>1, <2>3 DEF Ageing, Present
  <1> QED
    BY <1>2, <1>3, <1>4

(* All statements are such steps, apart from the checks and the insert.     *)
LEMMA OthersAge ==
    ASSUME TypeOK, NEW p \in Process,
           \/ Begin(p) \/ Replay(p) \/ CreateCollides(p) \/ EventRecorded(p) \/ EventFails(p)
           \/ Undo(p) \/ Publish(p) \/ PublishFails(p) \/ Complete(p) \/ Fail(p)
    PROVE  Ageing
  <1> DEFINE Elsewhere == \A q \in Process : pc'[q] \in {"cooldown", "create"} => pc'[q] = pc[q]
             RowStep == \/ UNCHANGED row
                        \/ \E c \in Present :
                              row' = Remove(c) \/ row' = [row EXCEPT ![c].done = TRUE]
  <1>1. ASSUME NEW step, step \notin {"cooldown", "create"}, Goto(p, step) PROVE Elsewhere
    BY <1>1 DEF Goto, TypeOK
  <1>2. ASSUME NEW answer, answer \notin {"cooldown", "create"}, Reply(p, answer) PROVE Elsewhere
    BY <1>2 DEF Reply, TypeOK
  <1>3. ASSUME Begin(p) \/ CreateCollides(p) PROVE Elsewhere /\ RowStep
    BY <1>3 DEF Begin, CreateCollides, TypeOK
  <1>4. ASSUME NothingToReplay(p) PROVE Elsewhere
    BY <1>1, <1>2, <1>4 DEF NothingToReplay
  <1>5. ASSUME Unqueued(p) PROVE Elsewhere
    BY <1>1, <1>2, <1>5 DEF Unqueued
  <1>6. ASSUME MarkDone(p, code[p]) PROVE Elsewhere /\ RowStep
    BY <1>2, <1>6 DEF MarkDone
  <1>7. ASSUME Lookup(p) PROVE Elsewhere /\ RowStep
    <2>1. UNCHANGED row
      BY <1>7 DEF Lookup
    <2>2. \/ NothingToReplay(p) \/ Reply(p, "ok") \/ pc' = [pc EXCEPT ![p] = "check"]
      BY <1>7 DEF Lookup
    <2>3. Elsewhere
      BY <1>2, <1>4, <2>2 DEF TypeOK
    <2> QED
      BY <2>1, <2>3
  <1>8. ASSUME Check(p) \/ Adopt(p) PROVE Elsewhere /\ RowStep
    <2>1. UNCHANGED row
      BY <1>8 DEF Check, Adopt, FindLegacy, AdoptLegacy, Recheck
    <2>2. Elsewhere
      BY <1>1, <1>2, <1>5, <1>8 DEF Check, Adopt, FindLegacy, AdoptLegacy, Recheck
    <2> QED
      BY <2>1, <2>2
  <1>9. ASSUME Finish(p) \/ Complete(p) PROVE Elsewhere /\ RowStep
    BY <1>6, <1>9 DEF Finish, Complete
  <1>10. ASSUME RemoveStale(p) PROVE Elsewhere /\ RowStep
    BY <1>4, <1>10 DEF RemoveStale
  <1>11. ASSUME \/ RemoveStopped(p) \/ RemoveMissed(p) \/ EventRecorded(p) \/ EventFails(p)
                \/ Publish(p) \/ PublishFails(p) \/ Fail(p)
         PROVE Elsewhere /\ RowStep
    <2>1. UNCHANGED row
      BY <1>11 DEF RemoveStopped, RemoveMissed, EventRecorded, EventFails, Publish,
                   PublishFails, Fail
    <2>2. Elsewhere
      BY <1>1, <1>2, <1>11 DEF RemoveStopped, RemoveMissed, EventRecorded, EventFails, Publish,
                               PublishFails, Fail
    <2> QED
      BY <2>1, <2>2
  <1>12. ASSUME Undo(p) PROVE Elsewhere /\ RowStep
    BY <1>2, <1>12 DEF Undo
  <1>13. Elsewhere /\ RowStep
    BY <1>3, <1>7, <1>8, <1>9, <1>10, <1>11, <1>12 DEF Replay
  <1> QED
    BY <1>13, RowsAge

(* So is the passing of time.                                               *)
LEMMA TickAges == TypeOK /\ Tick => Ageing
  <1> SUFFICES ASSUME TypeOK, Tick PROVE Ageing
    OBVIOUS
  <1>1. row' = [c \in Code |-> IF c \in Present /\ row[c].age < Hour
                                 THEN [row[c] EXCEPT !.age = @ + 1] ELSE row[c]]
    BY DEF Tick
  <1>2. \A c \in Code : row[c].age \in Int /\ row'[c].age \in {row[c].age, row[c].age + 1}
                        /\ row'[c].status = row[c].status
    <2> SUFFICES ASSUME NEW c \in Code
                 PROVE  row[c].age \in Int /\ row'[c].age \in {row[c].age, row[c].age + 1}
                        /\ row'[c].status = row[c].status
      OBVIOUS
    <2>1. row[c] \in Row /\ row[c].age \in Int
      BY AgesTyped DEF TypeOK
    <2>2. CASE c \in Present
      <3>1. row[c] \in [status : {"present"}, key : Key, age : 0..Hour, done : BOOLEAN]
        BY <2>1, <2>2 DEF Row, Present
      <3> QED
        BY <1>1, <2>1, <3>1
    <2>3. CASE c \notin Present
      BY <1>1, <2>1, <2>3
    <2> QED
      BY <2>2, <2>3
  <1>3. pc' = pc
    BY DEF Tick, requestVars
  <1> QED
    BY <1>2, <1>3 DEF Ageing, Present

(* Every step keeps the bounds on the overshoot.                            *)
LEMMA NextLimits == Core /\ Core' /\ LimitsBounded /\ [Next]_vars => LimitsBounded'
  <1> SUFFICES ASSUME TypeOK, TypeOK', LimitsBounded, [Next]_vars PROVE LimitsBounded'
    BY DEF Core
  <1>1. CASE Tick
    BY <1>1, TickAges, AgeingStep
  <1>2. ASSUME NEW p \in Process, Begin(p) \/ Replay(p) \/ Issue(p) \/ Fail(p)
        PROVE  LimitsBounded'
    <2>1. CASE Limits(p)
      BY <2>1, LimitsCounted
    <2>2. CASE CooldownCheck(p)
      BY <2>2, CooldownCounted
    <2>3. CASE Create(p)
      BY <2>3, CreateCounted
    <2>4. CASE \/ Begin(p) \/ Replay(p) \/ CreateCollides(p) \/ EventRecorded(p) \/ EventFails(p)
               \/ Undo(p) \/ Publish(p) \/ PublishFails(p) \/ Complete(p) \/ Fail(p)
      BY <2>4, OthersAge, AgeingStep
    <2> QED
      BY <1>2, <2>1, <2>2, <2>3, <2>4 DEF Issue
  <1>3. CASE UNCHANGED vars
    <2>1. row' = row /\ pc' = pc
      BY <1>3 DEF vars, requestVars
    <2> QED
      BY <2>1 DEF LimitsBounded, At, Recent, LastHour, Present
  <1> QED
    BY <1>1, <1>2, <1>3 DEF Next

-----------------------------------------------------------------------------
(* The table starts with at most two unfinished rows of an earlier version. *)
LEMMA InitInvariant == Init => IInv
  <1> SUFFICES ASSUME Init PROVE IInv
    OBVIOUS
  <1>1. PICK n \in 0..2 : n <= MaxCodes /\ row \in Unfinished(n) /\ legacy = IF n = 0 THEN None ELSE n
    BY DEF Init
  <1>2. /\ row \in [Code -> Row]
        /\ \A c \in Code : IF c > n THEN row[c] = NoRow ELSE row[c].status = "present" /\ ~ row[c].done
        /\ \A c, d \in 1..n : c < d => row[c].key # row[d].key
    BY <1>1 DEF Unfinished
  <1>3. /\ job = [k \in Key |-> None] /\ acked = {}
        /\ \A p \in Process : pc[p] = "idle"
        /\ n # 0 => legacy \in Code /\ legacy = n
        /\ legacy # None => n # 0
    BY <1>1, RequestAssumption DEF Init, Code
  <1>4. Present \subseteq 1..n
    BY <1>2, RequestAssumption DEF Present, NoRow, Code
  <1>5. TypeOK
    BY <1>1, <1>2, <1>3 DEF Init, TypeOK, Answers
  <1>6. JobsCarryRows /\ OkMeansQueued
    BY <1>2, <1>3, RequestAssumption DEF JobsCarryRows, OkMeansQueued, Present, Code, NoRow
  <1>7. RequestFits /\ IssuedByOne
    BY <1>3 DEF RequestFits, IssuedByOne, Steps, Working, Issuing
  <1>8. LegacyOlder
    BY <1>2, <1>3, RequestAssumption DEF LegacyOlder, Issuing, Code
  <1>9. LimitsBounded
    <2>1. Recent \subseteq 1..n /\ LastHour \subseteq 1..n
      BY <1>4 DEF Recent, LastHour
    <2>2. /\ IsFiniteSet(1..n) /\ n \in Nat
          /\ Cardinality(1..n) = IF 1 > n THEN 0 ELSE n - 1 + 1
      BY FS_Interval
    <2>3. /\ Cardinality(Recent) <= Cardinality(1..n)
          /\ Cardinality(LastHour) <= Cardinality(1..n)
      BY <2>1, <2>2, FS_Subset
    <2>4. At({"create"}) = {} /\ At({"cooldown", "create"}) = {}
      BY <1>3 DEF At
    <2> QED
      BY <2>2, <2>3, <2>4, FS_EmptySet, Counted, ProcessAssumption, RequestAssumption DEF LimitsBounded
  <1> QED
    BY <1>5, <1>6, <1>7, <1>8, <1>9 DEF IInv

(* The strengthened invariant holds in every reachable state.              *)
THEOREM Invariance == Spec => []IInv
  <1>1. IInv <=> Core /\ LimitsBounded
    BY DEF IInv, Core
  <1>2. IInv /\ [Next]_vars => IInv'
    BY <1>1, NextCore, NextLimits DEF IInv, Core
  <1> QED
    BY <1>2, InitInvariant, PTL DEF Spec

(* No job is left without its code, and rows, jobs and requests keep their *)
(* types, whichever request takes an unfinished one over (the conditional  *)
(* DELETE of replayOtpRequest and the job's foreign key).                  *)
THEOREM JobsStaySound == Spec => []JobsSound
  <1>1. IInv => JobsSound
    BY DEF IInv, JobsSound
  <1> QED
    BY <1>1, Invariance, PTL

(* A client that was told ok has a complete code, and a complete code has  *)
(* its job, however many requests share the key and wherever any of them   *)
(* died (requestOtp, replayOtpRequest, adoptLegacyOtpRequest).             *)
THEOREM OkStaysQueued == Spec => []OkMeansQueued
  <1>1. IInv => OkMeansQueued
    BY DEF IInv
  <1> QED
    BY <1>1, Invariance, PTL

(* Requests racing past a limit's check overshoot the cooldown and the     *)
(* hourly limit by no more than their number, those that have yet to       *)
(* create their code included (requestOtp counts the rows in statements of *)
(* their own before it creates one).                                       *)
THEOREM LimitsStayBounded == Spec => []LimitsBounded
  <1>1. IInv => LimitsBounded
    BY DEF IInv
  <1> QED
    BY <1>1, Invariance, PTL
=============================================================================
