--------------------------- MODULE Delivery_proofs ---------------------------
(***************************************************************************)
(* Proofs about Delivery, for every set of messages and of device tasks    *)
(* and every value of the limits.                                          *)
(***************************************************************************)
EXTENDS Delivery, FiniteSetTheorems, TLAPS

-----------------------------------------------------------------------------
(* Type correctness.                                                       *)

\* The gateway starts with an empty, well-typed outbox.
LEMMA InitType == Init => TypeOK
  <1> SUFFICES ASSUME Init PROVE TypeOK
    OBVIOUS
  <1> USE DEF Init, OutboxInit
  <1>1. Pending = {} /\ DOMAIN batch = {}
    BY DEF Pending, EmptyTable
  <1>2. OutboxTypeOK
    BY <1>1 DEF OutboxTypeOK, EmptyTable, Pending
  <1>3. batch \in [DOMAIN batch -> Row]
    BY <1>1 DEF EmptyTable
  <1>4. outcome \in [Messages -> Outcome] /\ refusals \in [Messages -> 0 .. MaxRetries]
    BY DeliveryAssumption DEF Outcome
  <1>5. ready \in BOOLEAN /\ outbox_full \in BOOLEAN
    BY Zenon
  <1> QED
    BY <1>1, <1>2, <1>3, <1>4, <1>5 DEF TypeOK, TaskPc, RetrierPc, Phase

\* The table is finite: its ids are among those AUTOINCREMENT has given out.
LEMMA PendingFinite ==
  ASSUME OutboxTypeOK
  PROVE  IsFiniteSet(Pending)
  <1>1. 1 \in Int /\ next_id - 1 \in Int
    BY DEF OutboxTypeOK
  <1>2. IsFiniteSet(1 .. next_id - 1)
    BY <1>1, FS_Interval, Zenon
  <1> QED
    BY <1>2, FS_Subset DEF OutboxTypeOK

\* What the Outbox methods do to the types of the tables.
LEMMA EnqueueType ==
  ASSUME OutboxTypeOK, \A i \in Pending : rows[i].retry_count < MaxRetries,
         NEW m \in Messages, Enqueue(m)
  PROVE  OutboxTypeOK' /\ \A i \in Pending' : rows'[i].retry_count < MaxRetries
  BY DeliveryAssumption DEF OutboxTypeOK, Enqueue, Pending, Row

\* delete keeps the types of the tables.
LEMMA DeleteType ==
  ASSUME OutboxTypeOK, \A i \in Pending : rows[i].retry_count < MaxRetries,
         NEW id \in Pending, Delete(id)
  PROVE  OutboxTypeOK' /\ \A i \in Pending' : rows'[i].retry_count < MaxRetries
  BY DEF OutboxTypeOK, Delete, Restrict, Decrement, Pending, Row

\* move_to_dead_letter keeps the types of the tables.
LEMMA MoveType ==
  ASSUME OutboxTypeOK, \A i \in Pending : rows[i].retry_count < MaxRetries,
         NEW id \in Pending, MoveToDeadLetter(id)
  PROVE  OutboxTypeOK' /\ \A i \in Pending' : rows'[i].retry_count < MaxRetries
  BY DEF OutboxTypeOK, MoveToDeadLetter, Restrict, Decrement, Pending, Row

\* mark_retry keeps the types; the retrier calls it below the retry limit only.
LEMMA MarkRetryType ==
  ASSUME OutboxTypeOK, \A i \in Pending : rows[i].retry_count < MaxRetries,
         NEW id \in Pending, rows[id].retry_count + 1 < MaxRetries, MarkRetry(id)
  PROVE  OutboxTypeOK' /\ \A i \in Pending' : rows'[i].retry_count < MaxRetries
  BY DeliveryAssumption DEF OutboxTypeOK, MarkRetry, Pending, Row

\* The steps of publish keep the types.
LEMMA TaskType ==
  ASSUME TypeOK, TaskInv, NEW d \in Devices, Task(d)
  PROVE  TypeOK'
  <1> USE DeliveryAssumption DEF TypeOK, TaskPc, Outcome, taskVars, brokerVars,
          retrierVars
  <1>1. CASE PublishAcked(d)
    BY <1>1 DEF PublishAcked, TryBroker, BrokerAck, outboxVars, OutboxTypeOK, Pending
  <1>2. CASE PublishNotReady(d)
    BY <1>2 DEF PublishNotReady, TryBroker, BrokerNotReady, outboxVars, OutboxTypeOK, Pending
  <1>3. CASE PublishFailed(d)
    BY <1>3 DEF PublishFailed, TryBroker, BrokerError, outboxVars, OutboxTypeOK, Pending
  <1>4. CASE ClearBreaker(d)
    BY <1>4 DEF ClearBreaker, EndPublish, outboxVars, OutboxTypeOK, Pending
  <1>5. CASE EnqueueFailed(d)
    <2>1. cur[d] \in Messages
      BY <1>5 DEF EnqueueFailed, TaskInv
    <2>2. OutboxTypeOK' /\ \A i \in Pending' : rows'[i].retry_count < MaxRetries
      BY <1>5, <2>1, EnqueueType DEF EnqueueFailed
    <2> QED
      BY <1>5, <2>2 DEF EnqueueFailed, EndPublish
  <1>6. CASE EnqueueRaises(d)
    BY <1>6 DEF EnqueueRaises, outboxVars, OutboxTypeOK, Pending
  <1>7. CASE TripOnFull(d)
    BY <1>7 DEF TripOnFull, outboxVars, OutboxTypeOK, Pending
  <1>8. CASE TripOnIoError(d)
    BY <1>8 DEF TripOnIoError, EndPublish, outboxVars, OutboxTypeOK, Pending
  <1> QED
    BY <1>1, <1>2, <1>3, <1>4, <1>5, <1>6, <1>7, <1>8 DEF Task

\* The steps of the retrier keep the types.
LEMMA RetrierType ==
  ASSUME TypeOK, RetrierInv, Retrier
  PROVE  TypeOK'
  <1> USE DeliveryAssumption DEF TypeOK, RetrierPc, taskVars, brokerVars
  <1>1. DOMAIN batch \subseteq Pending /\ \A i \in DOMAIN batch : rows[i] = batch[i]
    BY DEF RetrierInv, SnapshotFresh
  <1>2. EmptyTable \in [DOMAIN EmptyTable -> Row]
    BY DEF EmptyTable
  <1>3. ASSUME NEW id \in DOMAIN batch, NextRow(id)
        PROVE  batch' \in [DOMAIN batch' -> Row] /\ retrier' \in RetrierPc
    BY <1>3 DEF NextRow, Restrict
  <1>4. CASE Fetch
    <2>1. batch' \in [DOMAIN batch' -> Row]
      BY <1>4 DEF Fetch, FetchBatch, Restrict, Oldest, OutboxTypeOK
    <2> QED
      BY <1>4, <2>1 DEF Fetch, outboxVars, OutboxTypeOK, Pending
  <1>5. CASE RetryNotReady
    BY <1>5, <1>2 DEF RetryNotReady, BrokerNotReady, outboxVars, OutboxTypeOK, Pending
  <1>6. CASE RetryClearBreaker
    BY <1>6 DEF RetryClearBreaker, outboxVars, OutboxTypeOK, Pending
  <1>7. CASE RetrierDies \/ RetrierStops
    BY <1>7, <1>2 DEF RetrierDies, RetrierStops, outboxVars, OutboxTypeOK, Pending
  <1>8. ASSUME NEW id \in DOMAIN batch, RetryAcked(id)
        PROVE  TypeOK'
    BY <1>8 DEF RetryAcked, BrokerAck, outboxVars, OutboxTypeOK, Pending, Row
  <1>9. ASSUME NEW id \in DOMAIN batch, RetryFailed(id)
        PROVE  TypeOK'
    <2>1. batch[id].message_id \in Messages
      BY DEF Row
    <2>2. stored' \subseteq Messages
      BY <1>9, <2>1 DEF RetryFailed, BrokerError
    <2>3. refusals' \in [Messages -> 0 .. MaxRetries]
      BY <1>9, <2>1 DEF RetryFailed
    <2> QED
      BY <1>9, <2>2, <2>3 DEF RetryFailed, BrokerError, outboxVars, OutboxTypeOK, Pending
  <1>10. ASSUME NEW id \in DOMAIN batch, DeleteRow(id)
         PROVE  TypeOK'
    <2>1. OutboxTypeOK' /\ \A i \in Pending' : rows'[i].retry_count < MaxRetries
      BY <1>1, <1>10, DeleteType DEF DeleteRow
    <2> QED
      BY <1>3, <1>10, <2>1 DEF DeleteRow
  <1>11. ASSUME NEW id \in DOMAIN batch, GiveUpRow(id)
         PROVE  TypeOK'
    <2>1. OutboxTypeOK' /\ \A i \in Pending' : rows'[i].retry_count < MaxRetries
      BY <1>1, <1>11, MoveType DEF GiveUpRow
    <2> QED
      BY <1>3, <1>11, <2>1 DEF GiveUpRow
  <1>12. ASSUME NEW id \in DOMAIN batch, CountFailure(id)
         PROVE  TypeOK'
    <2>1. rows[id].retry_count + 1 < MaxRetries
      BY <1>1, <1>12 DEF CountFailure, IsExhausted, OutboxTypeOK, Row
    <2>2. OutboxTypeOK' /\ \A i \in Pending' : rows'[i].retry_count < MaxRetries
      BY <1>1, <1>12, <2>1, MarkRetryType DEF CountFailure
    <2> QED
      BY <1>2, <1>12, <2>2 DEF CountFailure
  <1> QED
    BY <1>4, <1>5, <1>6, <1>7, <1>8, <1>9, <1>10, <1>11, <1>12 DEF Retrier

\* Connection events, shutdown and restart keep the types.
LEMMA EnvironmentType ==
  ASSUME TypeOK, Environment
  PROVE  TypeOK'
  <1> USE DeliveryAssumption DEF TypeOK, taskVars, brokerVars, retrierVars, Phase
  <1>1. CASE Disconnect \/ Reconnect
    BY <1>1 DEF Disconnect, Reconnect, outboxVars, OutboxTypeOK, Pending
  <1>2. CASE StopRequested \/ StopRetrier \/ CloseBroker
    BY <1>2 DEF StopRequested, StopRetrier, CloseBroker, outboxVars, OutboxTypeOK, Pending
  <1>3. CASE Restart
    <2>1. IsFiniteSet(Pending)
      BY PendingFinite
    <2>2. OutboxTypeOK' /\ \A i \in Pending' : rows'[i].retry_count < MaxRetries
      BY <1>3, <2>1, FS_CardinalityType DEF Restart, Reopen, OutboxTypeOK, Pending
    <2>3. batch' \in [DOMAIN batch' -> Row]
      BY <1>3 DEF Restart, EmptyTable
    <2>4. ready' \in BOOLEAN /\ outbox_full' \in BOOLEAN
      BY <1>3, Zenon DEF Restart
    <2> QED
      BY <1>3, <2>2, <2>3, <2>4 DEF Restart, TaskPc, RetrierPc, Outcome
  <1> QED
    BY <1>1, <1>2, <1>3 DEF Environment

\* Taking up readings keeps the types.
LEMMA PollType ==
  ASSUME TypeOK, NEW d \in Devices, PollDevice(d)
  PROVE  TypeOK'
  BY DEF TypeOK, PollDevice, TaskPc, Outcome, brokerVars, retrierVars, outboxVars,
         OutboxTypeOK, Pending

\* Every step keeps the types.
LEMMA TypeStep == TypeOK /\ TaskInv /\ RetrierInv /\ [Next]_vars => TypeOK'
  <1>1. TypeOK /\ UNCHANGED vars => TypeOK'
    BY DEF TypeOK, vars, taskVars, brokerVars, retrierVars, outboxVars, OutboxTypeOK, Pending
  <1> QED
    BY <1>1, PollType, TaskType, RetrierType, EnvironmentType DEF Next, Environment

-----------------------------------------------------------------------------
(* The readings in the hands of the tasks.                                 *)

\* No step gives a reading to two tasks or forgets an ack.
LEMMA TaskStep == TypeOK /\ TaskInv /\ [Next]_vars => TaskInv'
  <1> SUFFICES ASSUME TypeOK, TaskInv, [Next]_vars
               PROVE  TaskInv'
    OBVIOUS
  <1> USE DEF TypeOK, TaskInv, taskVars, brokerVars
  <1>1. ASSUME NEW d \in Devices, PollDevice(d)
        PROVE  TaskInv'
    BY <1>1 DEF PollDevice
  <1>2. ASSUME NEW d \in Devices, Task(d)
        PROVE  TaskInv'
    <2>1. CASE PublishAcked(d) \/ PublishNotReady(d) \/ PublishFailed(d)
      BY <1>2, <2>1 DEF PublishAcked, PublishNotReady, PublishFailed, TryBroker,
         BrokerAck, BrokerNotReady, BrokerError
    <2>2. CASE ClearBreaker(d)
      BY <1>2, <2>2 DEF ClearBreaker, EndPublish
    <2>3. CASE EnqueueFailed(d)
      BY <1>2, <2>3 DEF EnqueueFailed, EndPublish
    <2>4. CASE EnqueueRaises(d)
      BY <1>2, <2>4 DEF EnqueueRaises
    <2>5. CASE TripOnFull(d)
      BY <1>2, <2>5 DEF TripOnFull
    <2>6. CASE TripOnIoError(d)
      BY <1>2, <2>6 DEF TripOnIoError, EndPublish
    <2> QED
      BY <1>2, <2>1, <2>2, <2>3, <2>4, <2>5, <2>6 DEF Task
  <1>3. CASE Retrier
    <2>1. UNCHANGED taskVars /\ stored \subseteq stored'
      BY <1>3 DEF Retrier, Fetch, RetryNotReady, BrokerNotReady, RetryClearBreaker,
         RetrierDies, RetrierStops, RetryAcked, BrokerAck, RetryFailed, BrokerError,
         DeleteRow, GiveUpRow, CountFailure
    <2> QED
      BY <2>1
  <1>4. CASE Environment
    <2>1. CASE Restart
      BY <2>1 DEF Restart
    <2>2. CASE ~Restart
      BY <1>4, <2>2 DEF Environment, Disconnect, Reconnect, StopRequested,
         StopRetrier, CloseBroker
    <2> QED
      BY <2>1, <2>2
  <1>5. CASE UNCHANGED vars
    BY <1>5 DEF vars
  <1> QED
    BY <1>1, <1>2, <1>3, <1>4, <1>5 DEF Next, Environment

-----------------------------------------------------------------------------
(* The database.                                                           *)

\* Only enqueue, delete, mark_retry and move_to_dead_letter change the tables, and
\* the message that is enqueued was in the hands of a task until then.
LEMMA TableStep == DeliveryInv /\ [Next]_vars => TableInv'
  <1> SUFFICES ASSUME DeliveryInv, [Next]_vars
               PROVE  TableInv'
    OBVIOUS
  <1> USE DEF DeliveryInv, TypeOK, TableInv, OnePlace, Queued, taskVars
  <1>1. ASSUME NEW d \in Devices, PollDevice(d)
        PROVE  TableInv'
    <2>1. \A m \in Messages : outcome[m] = "returned" => outcome'[m] = "returned"
      BY <1>1 DEF PollDevice
    <2> QED
      BY <1>1, <2>1 DEF PollDevice, outboxVars, retrierVars, Pending, OutboxTypeOK, Row
  <1>2. ASSUME NEW d \in Devices, Task(d)
        PROVE  TableInv'
    <2>1. CASE EnqueueFailed(d)
      <3>1. cur[d] \in Messages /\ outcome[cur[d]] = "polled"
        BY <2>1 DEF EnqueueFailed, TaskInv
      <3>2. \A m \in Messages : outcome'[m] = IF m = cur[d] THEN "returned" ELSE outcome[m]
        BY <2>1, <3>1 DEF EnqueueFailed, EndPublish
      <3>3. /\ Pending' = Pending \cup {next_id} /\ next_id \notin Pending
            /\ \A i \in Pending : rows'[i] = rows[i]
            /\ rows'[next_id] = [message_id |-> cur[d], retry_count |-> 0]
        BY <2>1 DEF EnqueueFailed, Enqueue, Pending, OutboxTypeOK
      <3>4. dead_letter' = dead_letter /\ refusals' = refusals
        BY <2>1 DEF EnqueueFailed, Enqueue, retrierVars
      <3>5. \A i \in Pending : rows[i] \in Row /\ rows[i].message_id # cur[d]
        BY <3>1 DEF OutboxTypeOK
      <3>6. \A m \in Queued' \cup dead_letter' : outcome'[m] = "returned"
        BY <3>1, <3>2, <3>3, <3>4, <3>5 DEF OutboxTypeOK, Row
      <3>7. OnePlace'
        BY <3>1, <3>3, <3>4, <3>5
      <3>8. \A i \in Pending' : rows'[i].retry_count <= refusals'[rows'[i].message_id]
        BY <3>1, <3>3, <3>4, <3>5
      <3> QED
        BY <3>6, <3>7, <3>8
    <2>2. CASE ~EnqueueFailed(d)
      <3>1. UNCHANGED <<outboxVars, refusals>>
        BY <1>2, <2>2 DEF Task, PublishAcked, PublishNotReady, PublishFailed, TryBroker,
           ClearBreaker, EnqueueRaises, TripOnFull, TripOnIoError, retrierVars
      <3>2. \A m \in Messages : outcome[m] = "returned" => outcome'[m] = "returned"
        BY <1>2, <2>2 DEF Task, PublishAcked, PublishNotReady, PublishFailed, TryBroker,
           ClearBreaker, EndPublish, EnqueueRaises, TripOnFull, TripOnIoError, TaskInv
      <3> QED
        BY <3>1, <3>2 DEF outboxVars, Pending, OutboxTypeOK, Row
    <2> QED
      BY <2>1, <2>2
  <1>3. CASE Retrier
    <2> USE <1>3 DEF RetrierInv, SnapshotFresh
    <2>1. ASSUME NEW id \in DOMAIN batch, DeleteRow(id)
          PROVE  TableInv'
      BY <2>1 DEF DeleteRow, Delete, Restrict, Pending
    <2>2. ASSUME NEW id \in DOMAIN batch, GiveUpRow(id)
          PROVE  TableInv'
      BY <2>2 DEF GiveUpRow, MoveToDeadLetter, Restrict, Pending
    <2>3. ASSUME NEW id \in DOMAIN batch, CountFailure(id)
          PROVE  TableInv'
      BY <2>3 DEF CountFailure, MarkRetry, IsCurrent, Pending, OutboxTypeOK, Row
    <2>4. ASSUME NEW id \in DOMAIN batch, RetryFailed(id)
          PROVE  TableInv'
      BY <2>4 DEF RetryFailed, outboxVars, Pending, OutboxTypeOK, Row
    <2>5. CASE \/ Fetch \/ RetryNotReady \/ RetryClearBreaker \/ RetrierDies
               \/ RetrierStops \/ \E id \in DOMAIN batch : RetryAcked(id)
      BY <2>5 DEF Fetch, RetryNotReady, RetryClearBreaker, RetrierDies, RetrierStops,
         RetryAcked, outboxVars, Pending
    <2> QED
      BY <2>1, <2>2, <2>3, <2>4, <2>5 DEF Retrier
  <1>4. CASE Environment
    BY <1>4 DEF Environment, Disconnect, Reconnect, StopRequested, StopRetrier,
       CloseBroker, Restart, Reopen, outboxVars, retrierVars, Pending, OutboxTypeOK, Row
  <1>5. CASE UNCHANGED vars
    BY <1>5 DEF vars, outboxVars, retrierVars, Pending
  <1> QED
    BY <1>1, <1>2, <1>3, <1>4, <1>5 DEF Next, Environment

-----------------------------------------------------------------------------
(* The retrier's batch.                                                    *)

\* A batch of the oldest rows: every row left out is younger.
LEMMA OldestLow ==
  ASSUME OutboxTypeOK, NEW n \in Nat
  PROVE  \A i \in Oldest(n), j \in Pending \ Oldest(n) : i < j
  <1> SUFFICES ASSUME NEW i \in Oldest(n), NEW j \in Pending \ Oldest(n), ~(i < j)
               PROVE  FALSE
    OBVIOUS
  <1> DEFINE Older(k) == {l \in Pending : l < k}
  <1>1. i \in Pending /\ i \in Int /\ j \in Int /\ j < i
    BY DEF Oldest, OutboxTypeOK
  <1>2. Older(j) \subseteq Older(i)
    <2>1. \A l \in Pending : l \in Int
      BY DEF OutboxTypeOK
    <2>2. \A l \in Pending : l < j => l < i
      BY <1>1, <2>1
    <2> QED
      BY <2>2, Zenon
  <1>3. IsFiniteSet(Older(i))
    BY PendingFinite, FS_Subset
  <1>4. /\ Cardinality(Older(j)) <= Cardinality(Older(i))
        /\ Cardinality(Older(i)) \in Nat /\ Cardinality(Older(j)) \in Nat
    BY <1>2, <1>3, FS_Subset, FS_CardinalityType
  <1>5. Cardinality(Older(i)) < n /\ ~(Cardinality(Older(j)) < n)
    BY DEF Oldest
  <1> QED
    BY <1>4, <1>5

\* Tasks only add rows, with ids above the batch, and the stream only grows.
LEMMA TaskKeepsBatch ==
  ASSUME DeliveryInv, NEW d \in Devices, PollDevice(d) \/ Task(d)
  PROVE  RetrierInv'
  <1> USE DEF DeliveryInv, TypeOK, RetrierInv, SnapshotFresh, IsCurrent
  <1>1. UNCHANGED retrierVars /\ stored \subseteq stored'
    BY DEF PollDevice, Task, PublishAcked, PublishNotReady, PublishFailed, TryBroker,
       BrokerAck, BrokerNotReady, BrokerError, ClearBreaker, EnqueueFailed,
       EnqueueRaises, TripOnFull, TripOnIoError, brokerVars
  <1>2. CASE EnqueueFailed(d)
    <2>1. /\ Pending' = Pending \cup {next_id}
          /\ \A i \in Pending : rows'[i] = rows[i] /\ i < next_id
      BY <1>2 DEF EnqueueFailed, Enqueue, Pending, OutboxTypeOK
    <2> QED
      BY <1>1, <2>1 DEF retrierVars
  <1>3. CASE ~EnqueueFailed(d)
    <2>1. UNCHANGED rows
      BY <1>3 DEF PollDevice, Task, PublishAcked, PublishNotReady, PublishFailed,
         TryBroker, ClearBreaker, EnqueueRaises, TripOnFull, TripOnIoError, outboxVars
    <2> QED
      BY <1>1, <2>1 DEF retrierVars, Pending
  <1> QED
    BY <1>2, <1>3

\* Leaving the current row behind keeps the rest of the batch the oldest part.
LEMMA NextRowKeeps ==
  ASSUME DeliveryInv, NEW id \in DOMAIN batch, IsCurrent(id), NextRow(id),
         Pending' = Pending \ {id}, \A i \in Pending' : rows'[i] = rows[i]
  PROVE  RetrierInv'
  BY DEF DeliveryInv, RetrierInv, SnapshotFresh, NextRow, Restrict

\* Neither do the steps of the retrier: a row that leaves the table leaves the batch.
LEMMA RetrierKeepsBatch ==
  ASSUME DeliveryInv, Retrier
  PROVE  RetrierInv'
  <1> USE DEF DeliveryInv
  <1>1. ASSUME batch' = EmptyTable
        PROVE  RetrierInv'
    BY <1>1 DEF RetrierInv, SnapshotFresh, EmptyTable
  <1>2. CASE Fetch
    <2>1. /\ rows' = rows /\ Pending' = Pending
          /\ DOMAIN batch' = Oldest(BatchSize)
          /\ \A i \in Oldest(BatchSize) : i \in Pending /\ batch'[i] = rows[i]
          /\ retrier' = "row"
      BY <1>2 DEF Fetch, FetchBatch, Restrict, Oldest, outboxVars, Pending
    <2>2. \A i \in Oldest(BatchSize), j \in Pending \ Oldest(BatchSize) : i < j
      BY OldestLow, DeliveryAssumption DEF TypeOK
    <2> QED
      BY <2>1, <2>2 DEF RetrierInv, SnapshotFresh
  <1>3. CASE RetryNotReady \/ RetrierDies \/ RetrierStops
    BY <1>1, <1>3 DEF RetryNotReady, RetrierDies, RetrierStops
  <1>4. CASE RetryClearBreaker
    BY <1>4 DEF RetryClearBreaker, RetrierInv, SnapshotFresh, IsCurrent, outboxVars,
       brokerVars, Pending
  <1>5. ASSUME NEW id \in DOMAIN batch, RetryAcked(id)
        PROVE  RetrierInv'
    BY <1>5 DEF RetryAcked, BrokerAck, RetrierInv, SnapshotFresh, IsCurrent,
       outboxVars, Pending, TypeOK, OutboxTypeOK
  <1>6. ASSUME NEW id \in DOMAIN batch, RetryFailed(id)
        PROVE  RetrierInv'
    <2>1. /\ id \in Pending /\ rows[id] = batch[id] /\ rows[id] \in Row
          /\ \A j \in DOMAIN batch : IsCurrent(j) => j = id
      BY <1>6 DEF RetryFailed, IsCurrent, RetrierInv, SnapshotFresh, TypeOK, OutboxTypeOK
    <2>2. /\ batch[id].retry_count < refusals'[batch[id].message_id]
      BY <1>6, <2>1, DeliveryAssumption DEF RetryFailed, TypeOK, TableInv, Row
    <2> QED
      BY <1>6, <2>1, <2>2 DEF RetryFailed, RetrierInv, SnapshotFresh, IsCurrent,
         outboxVars, Pending
  <1>7. ASSUME NEW id \in DOMAIN batch, DeleteRow(id)
        PROVE  RetrierInv'
    BY <1>7, NextRowKeeps DEF DeleteRow, Delete, Restrict, Pending
  <1>8. ASSUME NEW id \in DOMAIN batch, GiveUpRow(id)
        PROVE  RetrierInv'
    BY <1>8, NextRowKeeps DEF GiveUpRow, MoveToDeadLetter, Restrict, Pending,
       RetrierInv, SnapshotFresh
  <1>9. ASSUME NEW id \in DOMAIN batch, CountFailure(id)
        PROVE  RetrierInv'
    BY <1>1, <1>9 DEF CountFailure
  <1> QED
    BY <1>2, <1>3, <1>4, <1>5, <1>6, <1>7, <1>8, <1>9 DEF Retrier

\* No step of any thread makes the fetched batch stale.
LEMMA RetrierStep == DeliveryInv /\ [Next]_vars => RetrierInv'
  <1> SUFFICES ASSUME DeliveryInv, [Next]_vars
               PROVE  RetrierInv'
    OBVIOUS
  <1>1. CASE Environment
    BY <1>1 DEF Environment, Disconnect, Reconnect, StopRequested, StopRetrier,
       CloseBroker, Restart, Reopen, DeliveryInv, RetrierInv, SnapshotFresh, IsCurrent,
       EmptyTable, outboxVars, brokerVars, retrierVars, Pending
  <1>2. CASE UNCHANGED vars
    BY <1>2 DEF vars, outboxVars, brokerVars, retrierVars, DeliveryInv, RetrierInv,
       SnapshotFresh, IsCurrent, Pending
  <1> QED
    BY <1>1, <1>2, TaskKeepsBatch, RetrierKeepsBatch DEF Next, Environment

-----------------------------------------------------------------------------
(* No loss, and no premature dead-lettering.                               *)

\* What a step does to the places a message can be in: it takes a message out of
\* the outbox only if the stream or the dead-letter table has it then.
LEMMA PlacesStep ==
  ASSUME DeliveryInv, [Next]_vars
  PROVE  /\ stored \subseteq stored'
         /\ dead_letter \subseteq dead_letter'
         /\ Queued \subseteq Queued' \cup stored \cup dead_letter'
  <1> USE DEF Queued, outboxVars, brokerVars
  <1>1. ASSUME NEW d \in Devices, PollDevice(d) \/ Task(d)
        PROVE  stored \subseteq stored' /\ dead_letter' = dead_letter
               /\ Queued \subseteq Queued'
    <2>1. CASE EnqueueFailed(d)
      BY <2>1 DEF EnqueueFailed, Enqueue, Pending, DeliveryInv, TypeOK, OutboxTypeOK
    <2>2. CASE ~EnqueueFailed(d)
      BY <1>1, <2>2 DEF PollDevice, Task, PublishAcked, PublishNotReady, PublishFailed,
         TryBroker, BrokerAck, BrokerNotReady, BrokerError, ClearBreaker,
         EnqueueRaises, TripOnFull, TripOnIoError, Pending
    <2> QED
      BY <2>1, <2>2
  <1>2. CASE Retrier
    <2> USE DEF DeliveryInv, RetrierInv, SnapshotFresh, Pending
    <2>1. ASSUME NEW id \in DOMAIN batch, DeleteRow(id)
          PROVE  /\ stored' = stored /\ dead_letter' = dead_letter
                 /\ Queued \subseteq Queued' \cup stored
      BY <2>1 DEF DeleteRow, Delete, Restrict
    <2>2. ASSUME NEW id \in DOMAIN batch, GiveUpRow(id)
          PROVE  /\ stored' = stored /\ dead_letter \subseteq dead_letter'
                 /\ Queued \subseteq Queued' \cup dead_letter'
      BY <2>2 DEF GiveUpRow, MoveToDeadLetter, Restrict
    <2>3. ASSUME NEW id \in DOMAIN batch, CountFailure(id)
          PROVE  /\ stored' = stored /\ dead_letter' = dead_letter
                 /\ Queued \subseteq Queued'
      <3>1. \A i \in Pending : i \in Pending' /\ rows'[i].message_id = rows[i].message_id
        BY <2>3 DEF CountFailure, MarkRetry, TypeOK, OutboxTypeOK, Row
      <3> QED
        BY <2>3, <3>1 DEF CountFailure, MarkRetry
    <2>4. CASE \/ Fetch \/ RetryNotReady \/ RetryClearBreaker \/ RetrierDies
               \/ RetrierStops
               \/ \E id \in DOMAIN batch : RetryAcked(id) \/ RetryFailed(id)
      BY <2>4 DEF Fetch, RetryNotReady, BrokerNotReady, RetryClearBreaker, RetrierDies,
         RetrierStops, RetryAcked, BrokerAck, RetryFailed, BrokerError
    <2> QED
      BY <1>2, <2>1, <2>2, <2>3, <2>4 DEF Retrier
  <1>3. CASE Environment
    BY <1>3 DEF Environment, Disconnect, Reconnect, StopRequested, StopRetrier,
       CloseBroker, Restart, Reopen, Pending
  <1>4. CASE UNCHANGED vars
    BY <1>4 DEF vars, Pending
  <1> QED
    BY <1>1, <1>2, <1>3, <1>4 DEF Next, Environment

\* A publish that returns in this step has put the message in the stream or in
\* the outbox.
LEMMA ReturnStep ==
  ASSUME DeliveryInv, [Next]_vars, NEW m \in Messages,
         outcome[m] # "returned", outcome'[m] = "returned"
  PROVE  m \in stored' \cup Queued'
  <1> USE DEF DeliveryInv, TypeOK, TaskInv, taskVars, brokerVars
  <1>1. ASSUME NEW d \in Devices, Task(d)
        PROVE  m \in stored' \cup Queued'
    <2>1. CASE ClearBreaker(d)
      BY <2>1 DEF ClearBreaker, EndPublish
    <2>2. CASE EnqueueFailed(d)
      <3>1. m = cur[d]
        BY <2>2 DEF EnqueueFailed, EndPublish
      <3> QED
        BY <2>2, <3>1 DEF EnqueueFailed, Enqueue, Queued, Pending
    <2>3. CASE ~ClearBreaker(d) /\ ~EnqueueFailed(d)
      BY <1>1, <2>3 DEF Task, PublishAcked, PublishNotReady, PublishFailed, TryBroker,
         EnqueueRaises, TripOnFull, TripOnIoError, EndPublish
    <2> QED
      BY <2>1, <2>2, <2>3
  <1>2. ASSUME NEW d \in Devices, PollDevice(d)
        PROVE  FALSE
    BY <1>2 DEF PollDevice
  <1>3. CASE Retrier
    BY <1>3 DEF Retrier, Fetch, RetryNotReady, RetryClearBreaker, RetrierDies,
       RetrierStops, RetryAcked, RetryFailed, DeleteRow, GiveUpRow, CountFailure
  <1>4. CASE Environment
    <2>1. CASE Restart
      BY <2>1 DEF Restart
    <2>2. CASE ~Restart
      BY <1>4, <2>2 DEF Environment, Disconnect, Reconnect, StopRequested,
         StopRetrier, CloseBroker
    <2> QED
      BY <2>1, <2>2
  <1>5. CASE UNCHANGED vars
    BY <1>5 DEF vars
  <1> QED
    BY <1>1, <1>2, <1>3, <1>4, <1>5 DEF Next, Environment

\* No step loses a message whose publish has returned.
LEMMA LossStep == DeliveryInv /\ [Next]_vars => NoSilentLoss'
  <1> SUFFICES ASSUME DeliveryInv, [Next]_vars, NEW m \in Messages,
                      outcome'[m] = "returned"
               PROVE  m \in stored' \cup Queued' \cup dead_letter'
    BY DEF NoSilentLoss
  <1>1. CASE outcome[m] = "returned"
    BY <1>1, PlacesStep DEF DeliveryInv, NoSilentLoss
  <1>2. CASE outcome[m] # "returned"
    BY <1>2, ReturnStep
  <1> QED
    BY <1>1, <1>2

\* No step quarantines a message that was not refused MaxRetries times.
LEMMA QuarantineStep == DeliveryInv /\ [Next]_vars => QuarantineEarned'
  <1> SUFFICES ASSUME DeliveryInv, [Next]_vars
               PROVE  QuarantineEarned'
    OBVIOUS
  <1> USE DEF DeliveryInv, QuarantineEarned, TypeOK, OutboxTypeOK, outboxVars, retrierVars
  <1>1. ASSUME NEW id \in DOMAIN batch, GiveUpRow(id)
        PROVE  QuarantineEarned'
    <2>1. /\ id \in Pending /\ rows[id] = batch[id] /\ rows[id] \in Row
          /\ batch[id].retry_count < refusals[batch[id].message_id]
          /\ batch[id].retry_count + 1 >= MaxRetries
      BY <1>1 DEF GiveUpRow, IsExhausted, RetrierInv, SnapshotFresh
    <2>2. refusals[rows[id].message_id] \in 0 .. MaxRetries /\ batch[id].retry_count \in Nat
      BY <2>1 DEF Row
    <2>3. refusals[rows[id].message_id] = MaxRetries
      BY <2>1, <2>2, DeliveryAssumption
    <2> QED
      BY <1>1, <2>1, <2>3 DEF GiveUpRow, MoveToDeadLetter
  <1>2. ASSUME NEW id \in DOMAIN batch, RetryFailed(id)
        PROVE  QuarantineEarned'
    BY <1>2, DeliveryAssumption DEF RetryFailed, Row
  <1>3. CASE Retrier /\ ~\E id \in DOMAIN batch : GiveUpRow(id) \/ RetryFailed(id)
    BY <1>3 DEF Retrier, Fetch, RetryNotReady, RetryClearBreaker, RetrierDies,
       RetrierStops, RetryAcked, DeleteRow, Delete, CountFailure, MarkRetry
  <1>4. ASSUME NEW d \in Devices, PollDevice(d) \/ Task(d)
        PROVE  QuarantineEarned'
    BY <1>4 DEF PollDevice, Task, PublishAcked, PublishNotReady, PublishFailed,
       TryBroker, ClearBreaker, EnqueueFailed, Enqueue, EnqueueRaises, TripOnFull,
       TripOnIoError
  <1>5. CASE Environment
    BY <1>5 DEF Environment, Disconnect, Reconnect, StopRequested, StopRetrier,
       CloseBroker, Restart, Reopen
  <1>6. CASE UNCHANGED vars
    BY <1>6 DEF vars
  <1> QED
    BY <1>1, <1>2, <1>3, <1>4, <1>5, <1>6 DEF Next, Environment, Retrier

-----------------------------------------------------------------------------
(* The theorems.                                                           *)

\* The initial states satisfy the invariant.
LEMMA InitInv == Init => DeliveryInv
  <1> SUFFICES ASSUME Init PROVE DeliveryInv
    OBVIOUS
  <1>1. TypeOK
    BY InitType
  <1>2. /\ Pending = {} /\ Queued = {} /\ DOMAIN batch = {} /\ dead_letter = {}
        /\ \A d \in Devices : todo[d] = {} /\ pc[d] = "idle"
        /\ \A m \in Messages : outcome[m] = "new"
    BY DEF Init, OutboxInit, Pending, Queued, EmptyTable
  <1> QED
    BY <1>1, <1>2 DEF DeliveryInv, TaskInv, TableInv, OnePlace, RetrierInv,
       SnapshotFresh, NoSilentLoss, QuarantineEarned

\* Every step preserves the invariant.
LEMMA NextInv == DeliveryInv /\ [Next]_vars => DeliveryInv'
  BY TypeStep, TaskStep, TableStep, RetrierStep, LossStep, QuarantineStep DEF DeliveryInv

\* The inductive invariant holds in every reachable state.
THEOREM Invariance == Spec => []DeliveryInv
  BY InitInv, NextInv, PTL DEF Spec

\* Every variable keeps its type; pending rows stay below the retry limit.
THEOREM TypeCorrect == Spec => []TypeOK
  BY Invariance, PTL DEF DeliveryInv

\* A message whose publish returned is never lost.
THEOREM Durable == Spec => []NoSilentLoss
  BY Invariance, PTL DEF DeliveryInv

\* A message has at most one place in the database.
THEOREM SinglePlace == Spec => []OnePlace
  <1>1. DeliveryInv => OnePlace
    BY DEF DeliveryInv, TableInv
  <1> QED
    BY <1>1, Invariance, PTL

\* The retrier never works from a stale row.
THEOREM FreshSnapshot == Spec => []SnapshotFresh
  <1>1. DeliveryInv => SnapshotFresh
    BY DEF DeliveryInv, RetrierInv
  <1> QED
    BY <1>1, Invariance, PTL

\* Only a message that was refused MaxRetries times is dead-lettered.
THEOREM PoisonOnly == Spec => []QuarantineEarned
  BY Invariance, PTL DEF DeliveryInv

\* Rows leave the outbox oldest first.
THEOREM Fifo == Spec => OldestFirst
  <1> DEFINE Low == \A i \in Pending \ Pending' : \A j \in Pending : i <= j
  <1>1. DeliveryInv /\ [Next]_vars => [Low]_vars
    <2> SUFFICES ASSUME DeliveryInv, Next PROVE Low
      OBVIOUS
    <2> USE DEF DeliveryInv, TypeOK, OutboxTypeOK, Pending, outboxVars
    <2>1. ASSUME NEW id \in DOMAIN batch, DeleteRow(id) \/ GiveUpRow(id)
          PROVE  Low
      <3>1. \A j \in Pending : id \in Int /\ j \in Int /\ id <= j
        BY <2>1 DEF DeleteRow, GiveUpRow, IsCurrent, RetrierInv, SnapshotFresh
      <3>2. Pending \ Pending' \subseteq {id}
        BY <2>1 DEF DeleteRow, GiveUpRow, Delete, MoveToDeadLetter, Restrict
      <3> QED
        BY <3>1, <3>2
    <2>2. CASE Retrier /\ ~\E id \in DOMAIN batch : DeleteRow(id) \/ GiveUpRow(id)
      BY <2>2 DEF Retrier, Fetch, RetryNotReady, RetryClearBreaker, RetrierDies,
         RetrierStops, RetryAcked, RetryFailed, CountFailure, MarkRetry
    <2>3. ASSUME NEW d \in Devices, PollDevice(d) \/ Task(d)
          PROVE  Low
      BY <2>3 DEF PollDevice, Task, PublishAcked, PublishNotReady, PublishFailed,
         TryBroker, ClearBreaker, EnqueueFailed, Enqueue, EnqueueRaises, TripOnFull,
         TripOnIoError
    <2>4. CASE Environment
      BY <2>4 DEF Environment, Disconnect, Reconnect, StopRequested, StopRetrier,
         CloseBroker, Restart, Reopen
    <2> QED
      BY <2>1, <2>2, <2>3, <2>4 DEF Next, Environment, Retrier
  <1> QED
    BY <1>1, Invariance, PTL DEF Spec, OldestFirst

-----------------------------------------------------------------------------
(* The in-memory row counter.                                              *)

CounterInv == EstimateNeverOver /\ EstimateExact

\* Cardinalities of the table after each Outbox method.
LEMMA CounterMethods ==
  ASSUME OutboxTypeOK, CounterInv
  PROVE  /\ \A m \in Messages : Enqueue(m) => CounterInv'
         /\ \A id \in Pending : Delete(id) \/ MoveToDeadLetter(id) => CounterInv'
         /\ \A id \in Pending : MarkRetry(id) => CounterInv'
  <1> USE DEF CounterInv, EstimateNeverOver, EstimateExact
  <1>1. IsFiniteSet(Pending) /\ Cardinality(Pending) \in Nat
    BY PendingFinite, FS_CardinalityType
  <1>2. pending_estimate \in Nat /\ MaxPending \in Nat
    BY MaxPendingAssumption DEF OutboxTypeOK
  <1>3. ASSUME NEW m \in Messages, Enqueue(m)
        PROVE  CounterInv'
    <2>1. Pending' = Pending \cup {next_id} /\ next_id \notin Pending
      BY <1>3 DEF Enqueue, Pending, OutboxTypeOK
    <2>2. Cardinality(Pending') = Cardinality(Pending) + 1
      BY <1>1, <2>1, FS_AddElement
    <2> QED
      BY <1>1, <1>2, <1>3, <2>2 DEF Enqueue, IsFull
  <1>4. ASSUME NEW id \in Pending, Delete(id) \/ MoveToDeadLetter(id)
        PROVE  CounterInv'
    <2>1. Pending' = Pending \ {id}
      BY <1>4 DEF Delete, MoveToDeadLetter, Restrict, Pending
    <2>2. Cardinality(Pending') = Cardinality(Pending) - 1
      BY <1>1, <2>1, FS_RemoveElement
    <2>3. pending_estimate' = Decrement(pending_estimate)
      BY <1>4 DEF Delete, MoveToDeadLetter
    <2>4. Cardinality(Pending) # 0
      BY <1>1, FS_EmptySet
    <2> QED
      BY <1>1, <1>2, <2>2, <2>3, <2>4 DEF Decrement
  <1>5. ASSUME NEW id \in Pending, MarkRetry(id)
        PROVE  CounterInv'
    BY <1>5 DEF MarkRetry, Pending
  <1> QED
    BY <1>3, <1>4, <1>5

\* The counter never exceeds the rows; without SQLite errors it equals them, and
\* the outbox never holds more than MaxPending rows.
THEOREM Counted == Spec => [](EstimateNeverOver /\ EstimateExact)
  <1>1. Init => CounterInv
    BY FS_EmptySet, MaxPendingAssumption
       DEF Init, OutboxInit, Pending, EmptyTable, CounterInv, EstimateNeverOver,
           EstimateExact
  <1>2. DeliveryInv /\ CounterInv /\ [Next]_vars => CounterInv'
    <2> SUFFICES ASSUME DeliveryInv, CounterInv, [Next]_vars PROVE CounterInv'
      OBVIOUS
    <2>1. OutboxTypeOK /\ DOMAIN batch \subseteq Pending
      BY DEF DeliveryInv, TypeOK, RetrierInv, SnapshotFresh
    <2>2. UNCHANGED <<rows, pending_estimate>> => CounterInv'
      BY DEF CounterInv, EstimateNeverOver, EstimateExact, Pending
    <2>3. ASSUME NEW d \in Devices, EnqueueFailed(d)
          PROVE  CounterInv'
      <3>1. cur[d] \in Messages
        BY <2>3 DEF DeliveryInv, TypeOK, TaskInv, EnqueueFailed
      <3> QED
        BY <2>1, <2>3, <3>1, CounterMethods DEF EnqueueFailed
    <2>4. ASSUME NEW d \in Devices, PollDevice(d) \/ Task(d), ~EnqueueFailed(d)
          PROVE  CounterInv'
      BY <2>2, <2>4 DEF PollDevice, Task, PublishAcked, PublishNotReady, PublishFailed,
         TryBroker, ClearBreaker, EnqueueRaises, TripOnFull, TripOnIoError, outboxVars
    <2>5. ASSUME NEW id \in DOMAIN batch, DeleteRow(id) \/ GiveUpRow(id) \/ CountFailure(id)
          PROVE  CounterInv'
      BY <2>1, <2>5, CounterMethods DEF DeleteRow, GiveUpRow, CountFailure
    <2>6. CASE Retrier /\ ~\E id \in DOMAIN batch :
                            DeleteRow(id) \/ GiveUpRow(id) \/ CountFailure(id)
      BY <2>2, <2>6 DEF Retrier, Fetch, RetryNotReady, RetryClearBreaker, RetrierDies,
         RetrierStops, RetryAcked, RetryFailed, outboxVars
    <2>7. CASE Restart
      <3>1. Cardinality(Pending) \in Nat
        BY <2>1, PendingFinite, FS_CardinalityType
      <3>2. /\ rows' = rows
            /\ \/ pending_estimate' = Cardinality(Pending)
               \/ DbMayFail /\ pending_estimate' = 0
        BY <2>7 DEF Restart, Reopen
      <3> QED
        BY <3>1, <3>2 DEF CounterInv, EstimateNeverOver, EstimateExact, Pending
    <2>8. CASE Environment /\ ~Restart
      BY <2>2, <2>8 DEF Environment, Disconnect, Reconnect, StopRequested, StopRetrier,
         CloseBroker, outboxVars
    <2>9. CASE UNCHANGED vars
      BY <2>2, <2>9 DEF vars, outboxVars
    <2> QED
      BY <2>3, <2>4, <2>5, <2>6, <2>7, <2>8, <2>9 DEF Next, Environment, Retrier
  <1> QED
    BY <1>1, <1>2, Invariance, PTL DEF Spec, CounterInv

\* Without SQLite errors the admission test of enqueue sees the number of rows there is,
\* so the limit holds for any number of tasks.
THEOREM CountedExactly == Spec => []EstimateExact
  BY Counted, PTL

-----------------------------------------------------------------------------
(* Delivery implements AtLeastOnce.                                        *)

Returned == {m \in Messages : outcome[m] = "returned"}

\* The safety part of ImplementsPromise is all of it: AtLeastOnce asks for no
\* progress.  Every step is a step of AtLeastOnce or leaves its variables alone.
THEOREM Refinement == Spec => ImplementsPromise
  <1> USE DEF Promise!Next, Promise!Store, Promise!Confirm, Promise!Accept,
              Promise!Forget, Promise!Quarantine, Promise!vars
  <1>1. Init => Promise!Init
    BY DEF Init, OutboxInit, Promise!Init, Queued, Pending, EmptyTable
  <1>2. DeliveryInv /\ [Next]_vars => [Promise!Next]_(Promise!vars)
    <2> SUFFICES ASSUME DeliveryInv, [Next]_vars
                 PROVE  Promise!Next \/ UNCHANGED Promise!vars
      OBVIOUS
    <2> USE DEF DeliveryInv, TypeOK, outboxVars, brokerVars, taskVars
    <2>1. ASSUME UNCHANGED <<outcome, rows, dead_letter>>,
                 stored' = stored \/ \E m \in Messages : stored' = stored \cup {m}
          PROVE  Promise!Next \/ UNCHANGED Promise!vars
      BY <2>1 DEF Queued, Pending
    <2>2. ASSUME NEW d \in Devices, PollDevice(d)
          PROVE  UNCHANGED Promise!vars
      <3>1. Returned' = Returned
        BY <2>2 DEF PollDevice, Returned
      <3> QED
        BY <2>2, <3>1 DEF PollDevice, Queued, Pending, Returned
    <2>3. ASSUME NEW d \in Devices, Task(d)
          PROVE  Promise!Next \/ UNCHANGED Promise!vars
      <3>1. CASE PublishAcked(d) \/ PublishNotReady(d) \/ PublishFailed(d) \/ EnqueueRaises(d)
        BY <2>1, <3>1 DEF PublishAcked, PublishNotReady, PublishFailed, TryBroker,
           BrokerAck, BrokerNotReady, BrokerError, EnqueueRaises
      <3>2. CASE ClearBreaker(d)
        <4>1. cur[d] \in Messages /\ cur[d] \in stored /\ cur[d] \notin Queued
          BY <3>2 DEF ClearBreaker, TaskInv, TableInv
        <4>2. Returned' = Returned \cup {cur[d]}
          BY <3>2, <4>1 DEF ClearBreaker, EndPublish, Returned
        <4>3. Promise!Confirm(cur[d])
          BY <3>2, <4>1, <4>2 DEF ClearBreaker, Queued, Pending, Returned
        <4> QED
          BY <4>1, <4>3
      <3>3. CASE EnqueueFailed(d)
        <4>1. cur[d] \in Messages /\ outcome[cur[d]] = "polled"
          BY <3>3 DEF EnqueueFailed, TaskInv
        <4>2. Returned' = Returned \cup {cur[d]}
          BY <3>3, <4>1 DEF EnqueueFailed, EndPublish, Returned
        <4>3. Queued' = Queued \cup {cur[d]}
          <5>1. /\ Pending' = Pending \cup {next_id} /\ next_id \notin Pending
                /\ \A i \in Pending : rows'[i] = rows[i]
                /\ rows'[next_id].message_id = cur[d]
            BY <3>3 DEF EnqueueFailed, Enqueue, Pending, OutboxTypeOK
          <5> QED
            BY <5>1 DEF Queued
        <4>4. cur[d] \notin Returned \cup Queued \cup dead_letter
          BY <4>1 DEF TableInv, Returned
        <4>5. Promise!Accept(cur[d])
          BY <3>3, <4>2, <4>3, <4>4 DEF EnqueueFailed, Enqueue, Returned
        <4> QED
          BY <4>1, <4>5
      <3>4. CASE TripOnFull(d)
        <4>1. Returned' = Returned
          BY <3>4 DEF TripOnFull, TaskInv, Returned
        <4> QED
          BY <3>4, <4>1 DEF TripOnFull, Queued, Pending, Returned
      <3>5. CASE TripOnIoError(d)
        <4>1. Returned' = Returned
          BY <3>5 DEF TripOnIoError, EndPublish, TaskInv, Returned
        <4> QED
          BY <3>5, <4>1 DEF TripOnIoError, Queued, Pending, Returned
      <3> QED
        BY <2>3, <3>1, <3>2, <3>3, <3>4, <3>5 DEF Task
    <2>4. CASE Retrier
      <3> USE DEF RetrierInv, SnapshotFresh
      <3>1. ASSUME NEW id \in DOMAIN batch, DeleteRow(id)
            PROVE  Promise!Next
        <4> DEFINE m == rows[id].message_id
        <4>1. id \in Pending /\ m \in Messages /\ m \in Queued /\ m \in stored
          BY <3>1 DEF DeleteRow, OutboxTypeOK, Row, Queued
        <4>2. Queued' = Queued \ {m}
          BY <3>1, <4>1 DEF DeleteRow, Delete, Restrict, Queued, Pending, TableInv, OnePlace
        <4>3. Promise!Forget(m)
          BY <3>1, <4>1, <4>2 DEF DeleteRow, Delete
        <4> QED
          BY <4>1, <4>3
      <3>2. ASSUME NEW id \in DOMAIN batch, GiveUpRow(id)
            PROVE  Promise!Next
        <4> DEFINE m == rows[id].message_id
        <4>1. id \in Pending /\ m \in Messages /\ m \in Queued
          BY <3>2 DEF GiveUpRow, OutboxTypeOK, Row, Queued
        <4>2. Queued' = Queued \ {m}
          BY <3>2, <4>1 DEF GiveUpRow, MoveToDeadLetter, Restrict, Queued, Pending,
             TableInv, OnePlace
        <4>3. Promise!Quarantine(m)
          BY <3>2, <4>1, <4>2 DEF GiveUpRow, MoveToDeadLetter
        <4> QED
          BY <4>1, <4>3
      <3>3. ASSUME NEW id \in DOMAIN batch, CountFailure(id)
            PROVE  UNCHANGED Promise!vars
        <4>1. Pending' = Pending /\ \A i \in Pending : rows'[i].message_id = rows[i].message_id
          BY <3>3 DEF CountFailure, MarkRetry, Pending, OutboxTypeOK, Row
        <4>2. Queued' = Queued
          BY <4>1 DEF Queued
        <4> QED
          BY <3>3, <4>2 DEF CountFailure, MarkRetry
      <3>4. ASSUME NEW id \in DOMAIN batch, RetryAcked(id) \/ RetryFailed(id)
            PROVE  Promise!Next \/ UNCHANGED Promise!vars
        <4>1. batch[id].message_id \in Messages
          BY DEF Row
        <4> QED
          BY <2>1, <3>4, <4>1 DEF RetryAcked, BrokerAck, RetryFailed, BrokerError
      <3>5. CASE Fetch \/ RetryNotReady \/ RetryClearBreaker \/ RetrierDies \/ RetrierStops
        BY <2>1, <3>5 DEF Fetch, RetryNotReady, BrokerNotReady, RetryClearBreaker,
           RetrierDies, RetrierStops
      <3> QED
        BY <2>4, <3>1, <3>2, <3>3, <3>4, <3>5 DEF Retrier
    <2>5. CASE Restart
      <3>1. Returned' = Returned
        BY <2>5 DEF Restart, Returned
      <3> QED
        BY <2>5, <3>1 DEF Restart, Reopen, Queued, Pending, Returned
    <2>6. CASE Environment /\ ~Restart
      BY <2>1, <2>6 DEF Environment, Disconnect, Reconnect, StopRequested, StopRetrier,
         CloseBroker
    <2>7. CASE UNCHANGED vars
      BY <2>1, <2>7 DEF vars
    <2> QED
      BY <2>2, <2>3, <2>4, <2>5, <2>6, <2>7 DEF Next, Environment
  <1> QED
    BY <1>1, <1>2, Invariance, PTL DEF Spec, ImplementsPromise, Promise!Spec
=============================================================================
