--------------------------- MODULE Polling_proofs ---------------------------
(***************************************************************************)
(* Proofs about Polling for any devices, any pool and any number of        *)
(* threads: the inductive invariant PollingInv and the safety properties   *)
(* it implies.                                                             *)
(***************************************************************************)
EXTENDS Polling, FiniteSetTheorems, WellFoundedInduction, TLAPS

\* Polls begin with some device of the queue, the first in the configuration's order.
LEMMA FirstIn ==
    ASSUME NEW codes \in SUBSET Devices, codes # {}
    PROVE  First(codes) \in codes
<1> DEFINE Places == {Order[d] : d \in codes}
           Less == {ss \in Nat \X Nat : ss[1] < ss[2]}
<1>1. Places \subseteq Nat /\ Places # {}
  BY PollingAssumption
<1>2. IsWellFoundedOn(Less, Nat)
  BY NatLessThanWellFounded, Zenon DEF OpToRel
<1>3. \E x \in Places : \A y \in Places : ~(<<y, x>> \in Less)
  <2> HIDE DEF Less, Places
  <2> QED
    BY <1>1, <1>2, WFMin
<1>4. \E x \in Places : \A y \in Places : x <= y
  <2>1. \A x, y \in Nat : ~(<<y, x>> \in Less) => x <= y
    OBVIOUS
  <2> HIDE DEF Less, Places
  <2> QED
    BY <1>1, <1>3, <2>1
<1>5. \E d \in codes : \A e \in codes : Order[d] <= Order[e]
  BY <1>4
<1> QED
  BY <1>5 DEF First

\* What the steps need of the constants.
LEMMA Constants ==
    /\ Main \in Threads
    /\ MaxParallel \in Nat
    /\ MayHang \subseteq Devices
    /\ None \notin Devices
  BY PollingAssumption DEF Main, Threads

\* The state at the start satisfies the invariant.
LEMMA InitInv == Init => PollingInv
<1> SUFFICES ASSUME Init PROVE PollingInv
  OBVIOUS
<1> USE Constants DEF Init
<1>1. TaskTypes
  BY DEF TaskTypes, Task, Busy, Idle
<1>2. pool_size \in 0 .. MaxParallel /\ channels \in [Devices -> Nat] /\ hung \subseteq Devices
  OBVIOUS
<1>3. TypeOK
  BY <1>1, <1>2 DEF TypeOK
<1>4. CycleInv
  BY DEF CycleInv, Busy, Idle
<1>5. ChannelsOwned
  BY DEF ChannelsOwned
<1> QED
  BY <1>3, <1>4, <1>5 DEF PollingInv

\* What happens around a cycle keeps the invariant.
LEMMA AroundKeepsInv ==
    ASSUME PollingInv,
           \/ \E c \in SUBSET Devices, a \in BOOLEAN : Update(c, a)
           \/ \E d \in Devices : IntervalPasses(d)
           \/ StopRequested
           \/ UNCHANGED vars
    PROVE  PollingInv'
<1> USE Constants
        DEF PollingInv, TypeOK, CycleInv, ChannelsOwned, Busy,
            stateVars, cycleVars, poolVars, readerVars
<1>1. ASSUME NEW c \in SUBSET Devices, NEW a \in BOOLEAN, Update(c, a) PROVE PollingInv'
  BY <1>1 DEF Update, KeepKnown, TaskTypes
<1>2. ASSUME NEW d \in Devices, IntervalPasses(d) PROVE PollingInv'
  BY <1>2 DEF IntervalPasses, TaskTypes
<1>3. CASE StopRequested
  BY <1>3 DEF StopRequested, TaskTypes
<1>4. CASE UNCHANGED vars
  BY <1>4 DEF vars, TaskTypes
<1> QED
  BY <1>1, <1>2, <1>3, <1>4

\* So do the steps of a cycle before and after its polls, and those of close().
LEMMA CycleKeepsInv ==
    ASSUME PollingInv,
           \/ Enter \/ ReadDevices \/ ForgetDevices \/ NothingDue \/ BreakerSkips
           \/ BeginSerial \/ EndSerial \/ MarkPolled
           \/ \E d \in Devices : MarkOne(d)
           \/ EndParallel \/ CloseMasters \/ ShutdownManager
    PROVE  PollingInv'
<1> USE Constants
        DEF PollingInv, TypeOK, CycleInv, ChannelsOwned, Busy,
            stateVars, cycleVars, poolVars, readerVars
<1>1. CASE Enter
  BY <1>1 DEF Enter, TaskTypes
<1>2. CASE ReadDevices
  BY <1>2 DEF ReadDevices, TaskTypes
<1>3. CASE ForgetDevices
  BY <1>3 DEF ForgetDevices, Stale, TaskTypes
<1>4. CASE NothingDue
  BY <1>4 DEF NothingDue, TaskTypes
<1>5. CASE BreakerSkips
  BY <1>5 DEF BreakerSkips, TaskTypes
<1>6. CASE BeginSerial
  BY <1>6 DEF BeginSerial, DueDevices, TaskTypes
<1>7. CASE EndSerial
  <2> USE <1>7 DEF EndSerial
  <2>1. TaskTypes'
    BY DEF TaskTypes, Task, Idle
  <2>2. TypeOK'
    BY <2>1
  <2>3. CycleInv'
    BY DEF TaskTypes, Task, Idle
  <2>4. ChannelsOwned'
    BY DEF TaskTypes, Task
  <2> QED
    BY <2>2, <2>3, <2>4
<1>8. CASE MarkPolled
  <2> USE <1>8 DEF MarkPolled, MarkRead
  <2>1. TaskTypes'
    BY DEF TaskTypes, Task, Idle
  <2>2. task[Main].device \in Devices
    BY DEF TaskTypes, Task
  <2>3. TypeOK'
    BY <2>1, <2>2
  <2>4. CycleInv'
    BY DEF TaskTypes, Task, Idle
  <2> QED
    BY <2>3, <2>4
<1>9. ASSUME NEW d \in Devices, MarkOne(d) PROVE PollingInv'
  BY <1>9 DEF MarkOne, MarkRead, TaskTypes
<1>10. CASE EndParallel
  BY <1>10 DEF EndParallel, TaskTypes
<1>11. CASE CloseMasters
  BY <1>11 DEF CloseMasters, TaskTypes
<1>12. CASE ShutdownManager
  BY <1>12 DEF ShutdownManager, TaskTypes
<1> QED
  BY <1>1, <1>2, <1>3, <1>4, <1>5, <1>6, <1>7, <1>8, <1>9, <1>10, <1>11, <1>12

\* Giving up a cycle's polls keeps the invariant: from then on they count as lost.
LEMMA GiveUpKeepsInv ==
    ASSUME PollingInv, pc = "wait", GiveUp
    PROVE  PollingInv'
<1> USE Constants
        DEF PollingInv, TypeOK, CycleInv, ChannelsOwned, Busy,
            stateVars, cycleVars, poolVars, readerVars
<1>1. /\ task' \in [Threads -> Task]
      /\ \A t \in Threads : /\ task'[t].device = task[t].device
                            /\ task'[t].step = task[t].step
                            /\ Busy(t) => task'[t].lost
  <2>1. \A t \in Threads : task[t] \in Task
    BY DEF TaskTypes
  <2>2. task' = [t \in Threads |->
                   IF Busy(t) THEN [task[t] EXCEPT !.lost = TRUE] ELSE task[t]]
    BY DEF GiveUp
  <2>3. \A x \in Task : LET y == [x EXCEPT !.lost = TRUE]
                        IN  y \in Task /\ y.device = x.device /\ y.step = x.step /\ y.lost
    BY DEF Task
  <2> QED
    BY <2>1, <2>2, <2>3
<1>2. TaskTypes'
  BY <1>1 DEF TaskTypes
<1>3. TypeOK'
  BY <1>2 DEF GiveUp
<1>4. CycleInv'
  BY <1>1 DEF GiveUp
<1>5. ChannelsOwned'
  BY DEF GiveUp
<1> QED
  BY <1>3, <1>4, <1>5

\* The smaller of two numbers is one of them.
LEMMA MinOfTwo ==
    ASSUME NEW m \in Nat, NEW n \in Nat
    PROVE  Min({m, n}) \in 0 .. m
<1>1. \E x \in {m, n} : \A y \in {m, n} : x <= y
  OBVIOUS
<1>2. Min({m, n}) \in {m, n} /\ \A y \in {m, n} : Min({m, n}) <= y
  BY <1>1 DEF Min
<1> QED
  BY <1>2

\* Submitting polls and giving them up keep the invariant.
LEMMA WaitKeepsInv ==
    ASSUME PollingInv, Submit \/ AllDone \/ TimeOut \/ StopWaiting
    PROVE  PollingInv'
<1> USE Constants
        DEF PollingInv, TypeOK, CycleInv, ChannelsOwned, Busy,
            stateVars, cycleVars, poolVars, readerVars
<1>1. CASE Submit
  <2>1. DueDevices \in SUBSET Devices
    BY DEF DueDevices
  <2>2. Min({MaxParallel, Cardinality(DueDevices)}) \in 0 .. MaxParallel
    <3>1. Cardinality(DueDevices) \in Nat
      BY <2>1, PollingAssumption, FS_Subset, FS_CardinalityType
    <3> QED
      BY <3>1, MinOfTwo
  <2>3. /\ pc = "due" /\ pc' = "wait" /\ pool_size' \in 0 .. MaxParallel
        /\ queue' = DueDevices /\ pending' = DueDevices /\ tomark' = DueDevices
        /\ UNCHANGED <<stateVars, known, stop, readerVars, hung>>
    BY <1>1, <2>2 DEF Submit
  <2>4. /\ task' \in [Threads -> Task]
        /\ \A t \in Threads : /\ task'[t].device = task[t].device
                              /\ task'[t].step = task[t].step
                              /\ task'[t].lost = task[t].lost
    <3>1. \A t \in Threads : task[t] \in Task
      BY DEF TaskTypes
    <3>2. PICK grows \in BOOLEAN :
            task' = [t \in Threads |->
                       IF grows /\ Busy(t) THEN [task[t] EXCEPT !.old = TRUE] ELSE task[t]]
      BY <1>1 DEF Submit
    <3>3. \A x \in Task : LET y == [x EXCEPT !.old = TRUE]
                          IN  /\ y \in Task /\ y.device = x.device
                              /\ y.step = x.step /\ y.lost = x.lost
      BY DEF Task
    <3> QED
      BY <3>1, <3>2, <3>3
  <2>5. TaskTypes'
    BY <2>4 DEF TaskTypes
  <2>6. TypeOK'
    BY <2>1, <2>3, <2>5
  <2>7. CycleInv'
    BY <2>3, <2>4
  <2>8. ChannelsOwned'
    BY <2>3
  <2> QED
    BY <2>6, <2>7, <2>8
<1>2. CASE AllDone
  BY <1>2 DEF AllDone, TaskTypes
<1>3. CASE TimeOut
  BY <1>3, GiveUpKeepsInv DEF TimeOut
<1>4. CASE StopWaiting
  BY <1>4, GiveUpKeepsInv DEF StopWaiting
<1> QED
  BY <1>1, <1>2, <1>3, <1>4

\* A poll begins with a device that no other poll of the cycle has.
LEMMA BeginKeepsInv ==
    ASSUME PollingInv, PollNext \/ StartPoll
    PROVE  PollingInv'
<1> USE Constants, FirstIn
        DEF PollingInv, TypeOK, CycleInv, ChannelsOwned, Busy,
            stateVars, cycleVars, poolVars, readerVars
<1>1. CASE PollNext
  <2> USE <1>1 DEF PollNext, Begin
  <2>1. TaskTypes'
    BY DEF TaskTypes, Task, Idle
  <2>2. TypeOK'
    BY <2>1
  <2>3. CycleInv'
    BY DEF TaskTypes, Task, Idle
  <2>4. ChannelsOwned'
    BY DEF TaskTypes, Task
  <2> QED
    BY <2>2, <2>3, <2>4
<1>2. CASE StartPoll
  <2>1. PICK t \in FreeThreads : Begin(t)
    BY <1>2 DEF StartPoll, CanStart
  <2>2. First(queue) \in queue
    BY <1>2, FirstIn DEF StartPoll, CanStart
  <2>3. /\ pc = "wait" /\ queue' = queue \ {First(queue)}
        /\ task' = [task EXCEPT ![t] = [device |-> First(queue), step |-> "lookup",
                                         lost |-> FALSE, old |-> FALSE]]
        /\ UNCHANGED <<stateVars, pc, known, pending, tomark, stop, pool_size, readerVars, hung>>
    BY <1>2, <2>1 DEF StartPoll, Begin
  <2>4. t \in Threads \ {Main} /\ ~Busy(t)
    BY DEF FreeThreads
  <2>5. TaskTypes'
    BY <2>2, <2>3, <2>4 DEF TaskTypes, Task
  <2>6. TypeOK'
    BY <2>3, <2>5
  <2>7. /\ \A u \in Threads \ {t} : task'[u] = task[u]
        /\ task'[t].device = First(queue)
    BY <2>3, <2>4 DEF TaskTypes
  <2>8. CycleInv'
    BY <2>2, <2>3, <2>4, <2>7
  <2>9. ChannelsOwned'
    BY <2>3
  <2> QED
    BY <2>6, <2>8, <2>9
<1> QED
  BY <1>1, <1>2

\* The steps of a poll keep the invariant: a master is made under the registry's lock.
LEMMA PollKeepsInv ==
    ASSUME PollingInv, NEW t \in Threads,
           Poll(t)
    PROVE  PollingInv'
<1> USE Constants
        DEF PollingInv, TypeOK, CycleInv, ChannelsOwned, Busy,
            stateVars, cycleVars, poolVars, readerVars
<1>1. CASE Lookup(t)
  <2> USE <1>1 DEF Lookup, Goto
  <2>1. TaskTypes'
    BY DEF TaskTypes, Task, Idle
  <2>2. TypeOK'
    BY <2>1
  <2>3. CycleInv'
    BY DEF TaskTypes, Task, Idle
  <2>4. ChannelsOwned'
    BY DEF TaskTypes, Task
  <2> QED
    BY <2>2, <2>3, <2>4
<1>2. CASE EnsureMaster(t)
  <2> USE <1>2 DEF EnsureMaster, Goto
  <2>1. TaskTypes'
    BY DEF TaskTypes, Task
  <2>2. task[t].device \in Devices
    BY DEF TaskTypes, Task
  <2>3. TypeOK'
    BY <2>1, <2>2
  <2>4. CycleInv'
    BY DEF TaskTypes, Task
  <2>5. ChannelsOwned'
    BY <2>2
  <2> QED
    BY <2>3, <2>4, <2>5
<1>3. CASE CreateFails(t)
  <2> USE <1>3 DEF CreateFails, Return
  <2>1. TaskTypes'
    BY DEF TaskTypes, Task, Idle
  <2>2. TypeOK'
    BY <2>1
  <2>3. CycleInv'
    BY DEF TaskTypes, Task, Idle
  <2>4. ChannelsOwned'
    BY DEF TaskTypes, Task
  <2> QED
    BY <2>2, <2>3, <2>4
<1>4. CASE EndPoll(t)
  <2> USE <1>4 DEF EndPoll, Return
  <2>1. TaskTypes'
    BY DEF TaskTypes, Task, Idle
  <2>2. TypeOK'
    BY <2>1
  <2>3. CycleInv'
    BY DEF TaskTypes, Task, Idle
  <2>4. ChannelsOwned'
    BY DEF TaskTypes, Task
  <2> QED
    BY <2>2, <2>3, <2>4
<1>5. CASE t = Main /\ PollFindsOutboxFull
  <2> USE <1>5 DEF PollFindsOutboxFull, Return
  <2>1. TaskTypes'
    BY DEF TaskTypes, Task, Idle
  <2>2. TypeOK'
    BY <2>1
  <2>3. CycleInv'
    BY DEF TaskTypes, Task, Idle
  <2>4. ChannelsOwned'
    BY DEF TaskTypes, Task
  <2> QED
    BY <2>2, <2>3, <2>4
<1> QED
  BY <1>1, <1>2, <1>3, <1>4, <1>5 DEF Poll

\* The invariant of the poll cycles holds in every reachable state.
THEOREM PollingInvariance == Spec => []PollingInv
<1>1. PollingInv /\ [Next]_vars => PollingInv'
  <2> SUFFICES ASSUME PollingInv, [Next]_vars PROVE PollingInv'
    OBVIOUS
  <2>1. CASE MainStep
    BY <2>1, CycleKeepsInv, WaitKeepsInv, BeginKeepsInv DEF MainStep
  <2>2. CASE StartPoll
    BY <2>2, BeginKeepsInv
  <2>3. CASE \E t \in Threads : Poll(t)
    BY <2>3, PollKeepsInv
  <2>4. CASE \/ \E c \in SUBSET Devices, a \in BOOLEAN : Update(c, a)
             \/ \E d \in Devices : IntervalPasses(d)
             \/ StopRequested
             \/ UNCHANGED vars
    BY <2>4, AroundKeepsInv
  <2> QED
    BY <2>1, <2>2, <2>3, <2>4 DEF Next
<1> QED
  BY InitInv, <1>1, PTL DEF Spec

\* The poll cycle, its pool and the registry keep their types.
THEOREM PollingTypeCorrect == Spec => []TypeOK
<1>1. PollingInv => TypeOK
  BY DEF PollingInv
<1> QED
  BY <1>1, PollingInvariance, PTL

\* A device has the channel of its registered master and no other, and none after
\* close(), however many polls race or outlive their cycle.
THEOREM Owned == Spec => []ChannelsOwned
<1>1. PollingInv => ChannelsOwned
  BY DEF PollingInv
<1> QED
  BY <1>1, PollingInvariance, PTL

\* Two polls of one device overlap only when a cycle has given one of them up.
THEOREM SinglePoll == Spec => []OnePollPerDevice
<1>1. PollingInv => OnePollPerDevice
  BY DEF PollingInv, CycleInv, OnePollPerDevice, Busy
<1> QED
  BY <1>1, PollingInvariance, PTL

\* What keeps a device's link once the device stays configured: the codes that
\* forget_devices is about to keep have it.
KnownAhead(d) == pc = "forget" => d \in known

\* While the device is configured and the service runs, that lasts.
LEMMA KnownAheadStays ==
    ASSUME NEW d \in Devices, PollingInv, [Next]_vars, Settled(d), KnownAhead(d)
    PROVE  KnownAhead(d)'
<1> USE DEF Settled, KnownAhead, stateVars, cycleVars, poolVars, readerVars
<1>1. CASE MainStep
  BY <1>1 DEF MainStep, Enter, ReadDevices, ForgetDevices, NothingDue, BreakerSkips,
     BeginSerial, PollNext, EndSerial, MarkPolled, Submit, AllDone, TimeOut, StopWaiting,
     GiveUp, MarkOne, EndParallel, CloseMasters, ShutdownManager
<1>2. CASE StartPoll
  BY <1>2 DEF StartPoll
<1>3. ASSUME NEW t \in Threads, Poll(t) PROVE KnownAhead(d)'
  BY <1>3 DEF Poll, Lookup, EnsureMaster, CreateFails, EndPoll, PollFindsOutboxFull, Return
<1>4. CASE \/ \E c \in SUBSET Devices, a \in BOOLEAN : Update(c, a)
           \/ \E e \in Devices : IntervalPasses(e)
           \/ StopRequested
           \/ UNCHANGED vars
  BY <1>4 DEF Update, IntervalPasses, StopRequested, vars
<1> QED
  BY <1>1, <1>2, <1>3, <1>4 DEF Next

\* A step takes the device's master away only when forget_devices does not know the
\* device, and that step is the last of its kind.
LEMMA MasterStays ==
    ASSUME NEW d \in Devices, PollingInv, [Next]_vars, Settled(d),
           KnownAhead(d) \/ ~KnownAhead(d)', d \in masters
    PROVE  d \in masters'
<1> USE DEF Settled, KnownAhead, stateVars, cycleVars, poolVars, readerVars
<1>1. CASE MainStep
  <2>1. CASE ForgetDevices
    BY <2>1 DEF ForgetDevices, Stale
  <2>2. CASE CloseMasters
    BY <2>2 DEF CloseMasters
  <2> QED
    BY <1>1, <2>1, <2>2 DEF MainStep, Enter, ReadDevices, NothingDue, BreakerSkips,
       BeginSerial, PollNext, EndSerial, MarkPolled, Submit, AllDone, TimeOut, StopWaiting,
       GiveUp, MarkOne, EndParallel, ShutdownManager
<1>2. CASE StartPoll
  BY <1>2 DEF StartPoll
<1>3. ASSUME NEW t \in Threads, Poll(t) PROVE d \in masters'
  BY <1>3 DEF Poll, Lookup, EnsureMaster, CreateFails, EndPoll, PollFindsOutboxFull
<1>4. CASE \/ \E c \in SUBSET Devices, a \in BOOLEAN : Update(c, a)
           \/ \E e \in Devices : IntervalPasses(e)
           \/ StopRequested
           \/ UNCHANGED vars
  BY <1>4 DEF Update, IntervalPasses, StopRequested, vars
<1> QED
  BY <1>1, <1>2, <1>3, <1>4 DEF Next

\* A device that stays configured loses its link at most once more, to a cycle that had
\* read the configuration before: after that it keeps its master, under any schedule.
THEOREM LinkIsKept == Spec => LinkKept
<1> SUFFICES ASSUME NEW d \in Devices
             PROVE  Spec => (<>[]Settled(d) => <>[][(d \in masters) => (d \in masters')]_vars)
  BY DEF LinkKept
<1>1. PollingInv /\ [Next]_vars /\ Settled(d) /\ KnownAhead(d) => KnownAhead(d)'
  BY KnownAheadStays
<1>2. PollingInv /\ [Next]_vars /\ Settled(d) /\ (KnownAhead(d) \/ ~KnownAhead(d)')
        => [(d \in masters) => (d \in masters')]_vars
  BY MasterStays
<1> QED
  BY <1>1, <1>2, PollingInvariance, PTL DEF Spec
=============================================================================
