------------------------------- MODULE Outbox -------------------------------
(***************************************************************************)
(* messaging/outbox.py, class Outbox: the SQLite tables that hold the      *)
(* messages the broker did not take.                                       *)
(*                                                                         *)
(* Every method of the class runs under one lock and is one transaction on *)
(* one connection, so each is an atomic step.  The database runs in WAL    *)
(* mode, where a statement or a commit that fails is rolled back: a        *)
(* sqlite3.Error raised by a method leaves the tables as they were.        *)
(***************************************************************************)
EXTENDS Integers, FiniteSets, Functions

CONSTANTS
    Messages,     \* telemetry messages; each stands for one message_id (a uuid4)
    MaxPending    \* Outbox.max_pending

ASSUME MaxPendingAssumption == MaxPending \in Nat \ {0}

VARIABLES
    rows,             \* table outbox: row id -> [message_id, retry_count]
    dead_letter,      \* table outbox_dead_letter: the messages in it
    next_id,          \* the id AUTOINCREMENT gives to the next row
    pending_estimate  \* Outbox._pending_estimate, the in-memory row counter

outboxVars == <<rows, dead_letter, next_id, pending_estimate>>

Row == [message_id : Messages, retry_count : Nat]

Pending == DOMAIN rows
Queued == {rows[i].message_id : i \in Pending}

EmptyTable == [i \in {} |-> 0]

\* An empty database, and the counter __init__ reads from it.
OutboxInit ==
    /\ rows = EmptyTable
    /\ dead_letter = {}
    /\ next_id = 1
    /\ pending_estimate = 0

\* Outbox.__init__ on an existing database: SELECT COUNT(*), or 0 when that
\* query fails.
Reopen(countFails) ==
    /\ pending_estimate' = IF countFails THEN 0 ELSE Cardinality(Pending)
    /\ UNCHANGED <<rows, dead_letter, next_id>>

\* The admission test of enqueue.
IsFull == pending_estimate >= MaxPending

\* enqueue past the admission test: INSERT, commit, count.
Enqueue(m) ==
    /\ ~IsFull
    /\ rows' = [i \in Pending \cup {next_id} |->
                    IF i = next_id THEN [message_id |-> m, retry_count |-> 0]
                                   ELSE rows[i]]
    /\ next_id' = next_id + 1
    /\ pending_estimate' = pending_estimate + 1
    /\ UNCHANGED dead_letter

\* The limit oldest rows: SELECT ... ORDER BY id ASC LIMIT limit.
Oldest(limit) == {i \in Pending : Cardinality({j \in Pending : j < i}) < limit}
FetchBatch(limit) == Restrict(rows, Oldest(limit))

\* The counter after one row was removed.
Decrement(n) == IF n > 0 THEN n - 1 ELSE 0

\* DELETE FROM outbox WHERE id = row_id; the counter follows rowcount.
Delete(id) ==
    /\ rows' = Restrict(rows, Pending \ {id})
    /\ pending_estimate' = IF id \in Pending THEN Decrement(pending_estimate)
                                             ELSE pending_estimate
    /\ UNCHANGED <<dead_letter, next_id>>

\* UPDATE outbox SET retry_count = retry_count + 1 WHERE id = row_id.
MarkRetry(id) ==
    /\ rows' = [i \in Pending |->
                    IF i = id THEN [rows[i] EXCEPT !.retry_count = @ + 1]
                              ELSE rows[i]]
    /\ UNCHANGED <<dead_letter, next_id, pending_estimate>>

\* Mutant: the INSERT into the dead-letter table is left out.
MoveWithoutInsert(id) == Delete(id)

\* Mutant: the counter is not decremented.
MoveWithoutCounting(id) ==
    /\ dead_letter' = dead_letter \cup {rows[i].message_id : i \in Pending \cap {id}}
    /\ rows' = Restrict(rows, Pending \ {id})
    /\ UNCHANGED <<next_id, pending_estimate>>

\* move_to_dead_letter: nothing for an unknown id, else INSERT into the
\* dead-letter table and DELETE from the queue in one transaction.
MoveToDeadLetter(id) ==
    IF id \notin Pending
    THEN UNCHANGED outboxVars
    ELSE /\ dead_letter' = dead_letter \cup {rows[id].message_id}
         /\ rows' = Restrict(rows, Pending \ {id})
         /\ pending_estimate' = Decrement(pending_estimate)
         /\ UNCHANGED next_id

OutboxTypeOK ==
    /\ Pending \subseteq 1 .. next_id - 1
    /\ rows \in [Pending -> Row]
    /\ dead_letter \subseteq Messages
    /\ next_id \in Nat \ {0}
    /\ pending_estimate \in Nat
=============================================================================
