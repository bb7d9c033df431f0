---------------------------- MODULE RowTransactions ----------------------------
(***************************************************************************)
(* The database as the API's services use it through Prisma: PostgreSQL    *)
(* transactions at READ COMMITTED.  A statement sees what is committed and *)
(* what its own transaction wrote; what it writes stays in the draft of    *)
(* its transaction, which keeps the rows locked, until the commit.  A      *)
(* statement that meets a row of another transaction's draft waits for     *)
(* that transaction to end and then works on the row's latest version.     *)
(***************************************************************************)
EXTENDS Naturals, Sequences, FiniteSets

CONSTANTS Process, Absent

VARIABLES
    db,      \* the committed value of every row, Absent if there is none
    draft,   \* per process, the rows its open transaction wrote
    shared   \* per process, the rows its inserts refer to (locked FOR KEY SHARE)

Kind(r) == r[1]

(* A row as a write of it alone, and writes laid over the rows there are.  *)
Only(r, value) == [x \in {r} |-> value]
Over(writes, rows) ==
    [r \in DOMAIN writes \cup DOMAIN rows |-> IF r \in DOMAIN writes THEN writes[r] ELSE rows[r]]

(* What a statement of p reads.                                            *)
Seen(p) == Over(draft[p], db)

(* The transactions that hold a write lock on one of the rows R.           *)
Writers(p, R) == {q \in Process \ {p} : R \cap DOMAIN draft[q] # {}}

(* Deleting a row also waits for the inserts that refer to it ...          *)
Holders(p, R) == Writers(p, R) \cup {q \in Process \ {p} : R \cap shared[q] # {}}

(* ... and an insert waits for a transaction that deletes what it refers to.*)
Removers(p, R) ==
    {q \in Process \ {p} : \E r \in R \cap DOMAIN draft[q] : draft[q][r] = Absent}

Stage(p, writes) == draft' = [draft EXCEPT ![p] = Over(writes, @)]
Refer(p, rows) == shared' = [shared EXCEPT ![p] = @ \cup rows]

Release(p) ==
    /\ draft' = [draft EXCEPT ![p] = <<>>]
    /\ shared' = [shared EXCEPT ![p] = {}]

Commit(p) == db' = Seen(p) /\ Release(p)
Rollback(p) == db' = db /\ Release(p)

(* A statement outside a transaction commits at once.                      *)
Write(writes) == db' = Over(writes, db) /\ UNCHANGED <<draft, shared>>
=============================================================================
