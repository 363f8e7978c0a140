------------------------------ MODULE Delivery ------------------------------
(***************************************************************************)
(* The delivery path of the gateway: poller.poll_device hands readings to  *)
(* ResilientPublisher.publish, which tries the broker and falls back to    *)
(* the Outbox; the OutboxRetrier thread sends the outbox rows again.       *)
(*                                                                         *)
(* Threads: one poll_device task per element of Devices (a task that was   *)
(* given up on by the poll cycle keeps running, so a device polled twice   *)
(* at once is two elements), and the retrier.  A step ends where another   *)
(* thread can see the difference: at the broker call, at an Outbox method  *)
(* (one lock each) and at a write of the circuit-breaker flag.             *)
(***************************************************************************)
EXTENDS Outbox

CONSTANTS
    Devices,     \* poll_device tasks
    Poison,      \* messages the broker never accepts
    MaxRetries,  \* OutboxRetrier._max_retries
    BatchSize,   \* OutboxRetrier._batch_size
    DbMayFail,   \* whether SQLite may raise
    None         \* no message

ASSUME DeliveryAssumption ==
    /\ Poison \subseteq Messages
    /\ MaxRetries \in Nat \ {0}
    /\ BatchSize \in Nat \ {0}
    /\ DbMayFail \in BOOLEAN
    /\ None \notin Messages

VARIABLES
    ready,        \* JetStreamPublisher._ready: the NATS connection is up
    stored,       \* messages the JetStream stream holds
    outbox_full,  \* ResilientPublisher._outbox_full, the circuit breaker
    pc,           \* where each poll_device task is
    todo,         \* readings a task has still to publish, the current one included
    cur,          \* the message a task is publishing
    outcome,      \* what became of the publish call of each message
    retrier,      \* where OutboxRetrier._run is
    batch,        \* the rows _run fetched and has not dealt with, as fetched
    refusals,     \* per message: publish errors, not-ready ones excluded (history)
    phase         \* the shutdown sequence of main.run

brokerVars == <<ready, stored>>
taskVars == <<pc, todo, cur, outcome>>
retrierVars == <<retrier, batch, refusals>>
vars == <<outboxVars, brokerVars, outbox_full, taskVars, retrierVars, phase>>

TaskPc == {"idle", "next", "acked", "failed", "full", "ioerror"}
RetrierPc == {"fetch", "row", "acked", "delete", "failed", "died", "stopped"}
Phase == {"running", "stopping", "joining", "closed"}

\* "new": not read yet; "polled": read, publish has not ended; "returned":
\* publish returned; "rejected": publish raised, or was never called because an
\* earlier reading of the task raised OutboxFullError; "crashed": the process
\* ended before publish did.
Outcome == {"new", "polled", "returned", "rejected", "crashed"}

TypeOK ==
    /\ OutboxTypeOK
    /\ \A i \in Pending : rows[i].retry_count < MaxRetries
    /\ ready \in BOOLEAN
    /\ stored \subseteq Messages
    /\ outbox_full \in BOOLEAN
    /\ pc \in [Devices -> TaskPc]
    /\ todo \in [Devices -> SUBSET Messages]
    /\ cur \in [Devices -> Messages \cup {None}]
    /\ outcome \in [Messages -> Outcome]
    /\ retrier \in RetrierPc
    /\ batch \in [DOMAIN batch -> Row]
    /\ refusals \in [Messages -> 0 .. MaxRetries]
    /\ phase \in Phase

Init ==
    /\ OutboxInit
    /\ ready \in BOOLEAN
    /\ stored = {}
    /\ outbox_full = FALSE
    /\ pc = [d \in Devices |-> "idle"]
    /\ todo = [d \in Devices |-> {}]
    /\ cur = [d \in Devices |-> None]
    /\ outcome = [m \in Messages |-> "new"]
    /\ retrier = "fetch"
    /\ batch = EmptyTable
    /\ refusals = [m \in Messages |-> 0]
    /\ phase = "running"

-----------------------------------------------------------------------------
(* JetStreamPublisher.publish, seen from its callers.                      *)

\* The stream took the message and the ack arrived in time.
BrokerAck(m) ==
    /\ ready
    /\ m \notin Poison
    /\ stored' = stored \cup {m}
    /\ UNCHANGED ready

\* JetStreamNotReadyError.
BrokerNotReady ==
    /\ ~ready
    /\ UNCHANGED brokerVars

\* JetStreamPublishError: refused, or no ack within the timeout; the stream may
\* hold the message all the same.
BrokerError(m) ==
    /\ ready
    /\ \/ stored' = stored
       \/ m \notin Poison /\ stored' = stored \cup {m}
    /\ UNCHANGED ready

\* The connection callbacks _on_disconnected and _on_closed.
Disconnect ==
    /\ ready
    /\ ready' = FALSE
    /\ UNCHANGED <<outboxVars, stored, outbox_full, taskVars, retrierVars, phase>>

\* _on_reconnected, or _background_reconnect succeeding.
Reconnect ==
    /\ ~ready
    /\ phase # "closed"
    /\ ready' = TRUE
    /\ UNCHANGED <<outboxVars, stored, outbox_full, taskVars, retrierVars, phase>>

-----------------------------------------------------------------------------
(* poll_device and ResilientPublisher.publish.                             *)

\* run_poll_cycle finds the breaker closed and the task reads its device: the
\* readings S are new messages.
PollDevice(d) ==
    /\ phase = "running"
    /\ ~outbox_full
    /\ pc[d] = "idle"
    /\ \E S \in SUBSET {m \in Messages : outcome[m] = "new"} :
        /\ S # {}
        /\ todo' = [todo EXCEPT ![d] = S]
        /\ outcome' = [m \in Messages |-> IF m \in S THEN "polled" ELSE outcome[m]]
    /\ pc' = [pc EXCEPT ![d] = "next"]
    /\ UNCHANGED <<outboxVars, brokerVars, outbox_full, cur, retrierVars, phase>>

\* The broker call of publish, for any reading left.
TryBroker(d, m, next) ==
    /\ pc[d] = "next"
    /\ cur' = [cur EXCEPT ![d] = m]
    /\ pc' = [pc EXCEPT ![d] = next]
    /\ UNCHANGED <<outboxVars, outbox_full, todo, outcome, retrierVars, phase>>

PublishAcked(d) == \E m \in todo[d] : TryBroker(d, m, "acked") /\ BrokerAck(m)
PublishNotReady(d) == \E m \in todo[d] : TryBroker(d, m, "failed") /\ BrokerNotReady
PublishFailed(d) == \E m \in todo[d] : TryBroker(d, m, "failed") /\ BrokerError(m)

\* publish ends with this outcome and poll_device goes on to its next reading.
EndPublish(d, result) ==
    /\ outcome' = [outcome EXCEPT ![cur[d]] = result]
    /\ todo' = [todo EXCEPT ![d] = @ \ {cur[d]}]
    /\ cur' = [cur EXCEPT ![d] = None]
    /\ pc' = [pc EXCEPT ![d] = IF todo[d] = {cur[d]} THEN "idle" ELSE "next"]

\* After an ack: `if self._outbox_full: self._clear_outbox_full()`, and return.
ClearBreaker(d) ==
    /\ pc[d] = "acked"
    /\ outbox_full' = FALSE
    /\ EndPublish(d, "returned")
    /\ UNCHANGED <<outboxVars, brokerVars, retrierVars, phase>>

\* The except branch of publish: outbox.enqueue succeeds and publish returns.
EnqueueFailed(d) ==
    /\ pc[d] = "failed"
    /\ Enqueue(cur[d])
    /\ EndPublish(d, "returned")
    /\ UNCHANGED <<brokerVars, outbox_full, retrierVars, phase>>

\* enqueue raises OutboxFullError, or a sqlite3.Error.
EnqueueRaises(d) ==
    /\ pc[d] = "failed"
    /\ \/ IsFull /\ pc' = [pc EXCEPT ![d] = "full"]
       \/ DbMayFail /\ ~IsFull /\ pc' = [pc EXCEPT ![d] = "ioerror"]
    /\ UNCHANGED <<outboxVars, brokerVars, outbox_full, todo, cur, outcome,
                   retrierVars, phase>>

\* _set_outbox_full, then OutboxFullError leaves publish and poll_device: the
\* task ends and its other readings are not published.
TripOnFull(d) ==
    /\ pc[d] = "full"
    /\ outbox_full' = TRUE
    /\ outcome' = [m \in Messages |-> IF m \in todo[d] THEN "rejected" ELSE outcome[m]]
    /\ todo' = [todo EXCEPT ![d] = {}]
    /\ cur' = [cur EXCEPT ![d] = None]
    /\ pc' = [pc EXCEPT ![d] = "idle"]
    /\ UNCHANGED <<outboxVars, brokerVars, retrierVars, phase>>

\* Mutant: the I/O error is swallowed and publish returns.
IoErrorSwallowed(d) ==
    /\ pc[d] = "ioerror"
    /\ outbox_full' = TRUE
    /\ EndPublish(d, "returned")
    /\ UNCHANGED <<outboxVars, brokerVars, retrierVars, phase>>

\* _set_outbox_full for any other error, which poll_device logs before it goes
\* on to the next reading.
TripOnIoError(d) ==
    /\ pc[d] = "ioerror"
    /\ outbox_full' = TRUE
    /\ EndPublish(d, "rejected")
    /\ UNCHANGED <<outboxVars, brokerVars, retrierVars, phase>>

Task(d) ==
    \/ PublishAcked(d) \/ PublishNotReady(d) \/ PublishFailed(d)
    \/ ClearBreaker(d) \/ EnqueueFailed(d) \/ EnqueueRaises(d)
    \/ TripOnFull(d) \/ TripOnIoError(d)

-----------------------------------------------------------------------------
(* OutboxRetrier._run.                                                     *)

\* OutboxRetrier._stop is set.
Stop == phase \in {"joining", "closed"}

\* The row the for loop is at: the oldest one of the batch.
IsCurrent(id) == id \in DOMAIN batch /\ \A j \in DOMAIN batch : id <= j

\* A non-empty batch is fetched.  On an empty table, and when fetch_batch
\* raises, the loop only waits.
Fetch ==
    /\ retrier = "fetch"
    /\ ~Stop
    /\ Pending # {}
    /\ batch' = FetchBatch(BatchSize)
    /\ retrier' = "row"
    /\ UNCHANGED <<outboxVars, brokerVars, outbox_full, taskVars, refusals, phase>>

\* publish_outbox_row: the broker call.
RetryAcked(id) ==
    /\ retrier = "row"
    /\ ~Stop
    /\ IsCurrent(id)
    /\ BrokerAck(batch[id].message_id)
    /\ retrier' = "acked"
    /\ UNCHANGED <<outboxVars, outbox_full, taskVars, batch, refusals, phase>>

\* Mutant: a not-ready error is handled like any other.
RetryNotReadyCounted ==
    /\ retrier = "row"
    /\ ~Stop
    /\ BrokerNotReady
    /\ retrier' = "failed"
    /\ UNCHANGED <<outboxVars, outbox_full, taskVars, batch, refusals, phase>>

\* A not-ready error breaks the batch and leaves retry_count alone.
RetryNotReady ==
    /\ retrier = "row"
    /\ ~Stop
    /\ BrokerNotReady
    /\ batch' = EmptyTable
    /\ retrier' = "fetch"
    /\ UNCHANGED <<outboxVars, outbox_full, taskVars, refusals, phase>>

\* Mutant: every error passes for a not-ready one.
RetryFailedUncounted(id) ==
    /\ retrier = "row"
    /\ ~Stop
    /\ IsCurrent(id)
    /\ BrokerError(batch[id].message_id)
    /\ batch' = EmptyTable
    /\ retrier' = "fetch"
    /\ UNCHANGED <<outboxVars, outbox_full, taskVars, refusals, phase>>

\* Any other error of the broker call.
RetryFailed(id) ==
    LET m == batch[id].message_id IN
    /\ retrier = "row"
    /\ ~Stop
    /\ IsCurrent(id)
    /\ BrokerError(m)
    /\ refusals' = [refusals EXCEPT ![m] = IF @ < MaxRetries THEN @ + 1 ELSE @]
    /\ retrier' = "failed"
    /\ UNCHANGED <<outboxVars, outbox_full, taskVars, batch, phase>>

\* publish_outbox_row after the ack: the breaker is cleared.
RetryClearBreaker ==
    /\ retrier = "acked"
    /\ outbox_full' = FALSE
    /\ retrier' = "delete"
    /\ UNCHANGED <<outboxVars, brokerVars, taskVars, batch, refusals, phase>>

\* The for loop leaves row id behind; after the last row the loop starts over.
NextRow(id) ==
    /\ batch' = Restrict(batch, DOMAIN batch \ {id})
    /\ retrier' = IF DOMAIN batch = {id} THEN "fetch" ELSE "row"

DeleteRow(id) ==
    /\ retrier = "delete"
    /\ IsCurrent(id)
    /\ Delete(id)
    /\ NextRow(id)
    /\ UNCHANGED <<brokerVars, outbox_full, taskVars, refusals, phase>>

\* next_retry >= self._max_retries, from the retry_count as fetched.
IsExhausted(id) == batch[id].retry_count + 1 >= MaxRetries

\* The row is given up: it goes to the dead-letter table, the batch continues.
GiveUpRow(id) ==
    /\ retrier = "failed"
    /\ IsCurrent(id)
    /\ IsExhausted(id)
    /\ MoveToDeadLetter(id)
    /\ NextRow(id)
    /\ UNCHANGED <<brokerVars, outbox_full, taskVars, refusals, phase>>

\* Mutant: the batch goes on with the next row.
CountFailureAndContinue(id) ==
    /\ retrier = "failed"
    /\ IsCurrent(id)
    /\ ~IsExhausted(id)
    /\ MarkRetry(id)
    /\ NextRow(id)
    /\ UNCHANGED <<brokerVars, outbox_full, taskVars, refusals, phase>>

\* The failure is counted and the batch is broken off.
CountFailure(id) ==
    /\ retrier = "failed"
    /\ IsCurrent(id)
    /\ ~IsExhausted(id)
    /\ MarkRetry(id)
    /\ batch' = EmptyTable
    /\ retrier' = "fetch"
    /\ UNCHANGED <<brokerVars, outbox_full, taskVars, refusals, phase>>

\* delete, mark_retry or move_to_dead_letter raises: nothing catches it and the
\* thread ends.
RetrierDies ==
    /\ DbMayFail
    /\ retrier \in {"delete", "failed"}
    /\ retrier' = "died"
    /\ batch' = EmptyTable
    /\ UNCHANGED <<outboxVars, brokerVars, outbox_full, taskVars, refusals, phase>>

\* The stop test of the for and of the while loop.
RetrierStops ==
    /\ Stop
    /\ retrier \in {"fetch", "row"}
    /\ retrier' = "stopped"
    /\ batch' = EmptyTable
    /\ UNCHANGED <<outboxVars, brokerVars, outbox_full, taskVars, refusals, phase>>

Retrier ==
    \/ Fetch \/ RetryNotReady \/ RetryClearBreaker \/ RetrierDies \/ RetrierStops
    \/ \E id \in DOMAIN batch :
        RetryAcked(id) \/ RetryFailed(id) \/ DeleteRow(id)
        \/ GiveUpRow(id) \/ CountFailure(id)

-----------------------------------------------------------------------------
(* main.run: shutdown, and the process ending at any point.                *)

\* stop_event is set: no further poll cycle.
StopRequested ==
    /\ phase = "running"
    /\ phase' = "stopping"
    /\ UNCHANGED <<outboxVars, brokerVars, outbox_full, taskVars, retrierVars>>

\* retrier.stop(): the flag is set; the join has a timeout.
StopRetrier ==
    /\ phase = "stopping"
    /\ phase' = "joining"
    /\ UNCHANGED <<outboxVars, brokerVars, outbox_full, taskVars, retrierVars>>

\* publisher.close(): the connection is closed for good.
CloseBroker ==
    /\ phase = "joining"
    /\ phase' = "closed"
    /\ ready' = FALSE
    /\ UNCHANGED <<outboxVars, stored, outbox_full, taskVars, retrierVars>>

\* The process ends, by a crash or after the shutdown, and run() starts again
\* on the same database.
Restart ==
    /\ \/ Reopen(FALSE)
       \/ DbMayFail /\ Reopen(TRUE)
    /\ ready' \in BOOLEAN
    /\ outbox_full' = FALSE
    /\ pc' = [d \in Devices |-> "idle"]
    /\ todo' = [d \in Devices |-> {}]
    /\ cur' = [d \in Devices |-> None]
    /\ outcome' = [m \in Messages |->
                    IF outcome[m] = "polled" THEN "crashed" ELSE outcome[m]]
    /\ retrier' = "fetch"
    /\ batch' = EmptyTable
    /\ phase' = "running"
    /\ UNCHANGED <<stored, refusals>>

\* The connection, the shutdown sequence, and a restart.
Environment == Disconnect \/ Reconnect \/ StopRequested \/ StopRetrier
               \/ CloseBroker \/ Restart

Next ==
    \/ \E d \in Devices : PollDevice(d) \/ Task(d)
    \/ Retrier
    \/ Environment

Spec == Init /\ [][Next]_vars

\* The threads keep running: the retrier loops until it is stopped or dies, and
\* every call of a device task returns (the broker call has a timeout).
Fairness == WF_vars(Retrier) /\ \A d \in Devices : WF_vars(Task(d))

\* What liveness asks of the surroundings: at some point the connection is up
\* for good and the process is neither stopped nor restarted any more.  Single
\* messages may still be refused, or acked too late.
Settles == <>[](ready /\ phase = "running") /\ <>[][~Restart]_vars

LiveSpec == Spec /\ Fairness /\ Settles

-----------------------------------------------------------------------------
(* Properties.                                                             *)

\* Once ResilientPublisher.publish has returned, the message is in the stream,
\* in the outbox or in the dead-letter table, whatever the broker, SQLite and
\* restarts do afterwards.
NoSilentLoss ==
    \A m \in Messages :
        outcome[m] = "returned" => m \in stored \cup Queued \cup dead_letter

\* No message is pending and dead-lettered at once, and none has two rows: each
\* message_id has at most one place in the database.
OnePlace ==
    /\ Queued \cap dead_letter = {}
    /\ \A i, j \in Pending : rows[i].message_id = rows[j].message_id => i = j

\* The rows the retrier works on, fetched several broker calls ago, are still in
\* the table with the retry_count that was fetched: next_retry is never computed
\* from a stale row.
SnapshotFresh == \A id \in DOMAIN batch : id \in Pending /\ rows[id] = batch[id]

\* A dead-lettered message was refused MaxRetries times; attempts made while the
\* connection was down do not count.
QuarantineEarned == \A m \in dead_letter : refusals[m] = MaxRetries

\* The in-memory counter never exceeds the number of rows, so enqueue does not
\* raise OutboxFullError while there is room.
EstimateNeverOver == pending_estimate <= Cardinality(Pending)

\* While SQLite does not fail, the counter is exact, and the number of rows stays
\* within max_pending however many tasks enqueue at once.
EstimateExact ==
    ~DbMayFail => /\ pending_estimate = Cardinality(Pending)
                  /\ Cardinality(Pending) <= MaxPending

\* Rows leave the outbox in the order they entered it: no row is removed while an
\* older one is pending.
OldestFirst ==
    [][\A i \in Pending \ Pending' : \A j \in Pending : i <= j]_vars

\* The delivery path implements the promise.
Promise == INSTANCE AtLeastOnce WITH
               returned <- {m \in Messages : outcome[m] = "returned"},
               queued <- Queued,
               quarantined <- dead_letter

ImplementsPromise == Promise!Spec

-----------------------------------------------------------------------------
(* The inductive invariant behind the safety properties.                   *)

\* Readings in the hands of a task are unpublished and belong to it alone; one
\* that was acked is in the stream.
TaskInv ==
    /\ \A d \in Devices : \A m \in todo[d] : outcome[m] = "polled"
    /\ \A d, e \in Devices : d # e => todo[d] \cap todo[e] = {}
    /\ \A d \in Devices : pc[d] \in {"acked", "failed", "full", "ioerror"}
                            => cur[d] \in todo[d]
    /\ \A d \in Devices : pc[d] = "acked" => cur[d] \in stored

\* The database holds messages whose publish returned, each in one place, and
\* counts no failure that did not happen.
TableInv ==
    /\ \A m \in Queued \cup dead_letter : outcome[m] = "returned"
    /\ OnePlace
    /\ \A i \in Pending : rows[i].retry_count <= refusals[rows[i].message_id]

\* The batch is the oldest part of the table, row by row as it is there; an acked
\* row is in the stream, and a failed one was refused once more than it counts.
RetrierInv ==
    /\ SnapshotFresh
    /\ \A i \in DOMAIN batch, j \in Pending \ DOMAIN batch : i < j
    /\ \A i \in DOMAIN batch : IsCurrent(i) =>
        /\ retrier \in {"acked", "delete"} => batch[i].message_id \in stored
        /\ retrier = "failed" =>
                batch[i].retry_count < refusals[batch[i].message_id]

DeliveryInv ==
    /\ TypeOK
    /\ TaskInv
    /\ TableInv
    /\ RetrierInv
    /\ NoSilentLoss
    /\ QuarantineEarned

-----------------------------------------------------------------------------
(* Liveness, and what the comments of the code say.                        *)

\* With the broker back, the outbox is empty in the end, its rows delivered or
\* dead-lettered: a refused message does not block the ones behind it.  Only an
\* SQLite error that ends the retrier's thread prevents it, until the next restart.
Drains == (Queued # {}) ~> (Queued = {} \/ retrier = "died")

\* With the broker back, the circuit breaker is released and polling resumes
\* (poller.py: "broker dogrulandiginda otomatik resume eder").
BreakerReleases == outbox_full ~> ~outbox_full
=============================================================================
