------------------------------ MODULE Polling -------------------------------
(***************************************************************************)
(* The main loop's poll cycle (run_poll_cycle and its thread pool), the    *)
(* part of GatewayState it reads and marks, and the registry of DNP3       *)
(* masters its workers fill and its forget_devices empties.                *)
(*                                                                         *)
(* Three kinds of thread meet here: the main thread runs cycles, the       *)
(* refresh thread replaces the configuration, and pool threads poll        *)
(* devices, also after the cycle that submitted them has given them up.    *)
(* Time is abstract: a poll interval, a timeout or a deadline passes when  *)
(* its action is taken.                                                    *)
(***************************************************************************)
EXTENDS Integers, FiniteSets, FiniteSetsExt

CONSTANTS
    Devices,        \* the device codes
    Order,          \* the place of each in the list the backend sends
    MaxParallel,    \* max_parallel_devices
    NWorkers,       \* bound: pool threads alive at once, those of replaced pools included
    MayHang,        \* devices whose read may never return, in some behaviours
    None            \* no device

Threads == 0 .. NWorkers
Main == 0           \* the main thread, which polls by itself on the serial path

ASSUME PollingAssumption ==
    /\ IsFiniteSet(Devices)
    /\ Order \in [Devices -> Nat]
    /\ \A d, e \in Devices : Order[d] = Order[e] => d = e
    /\ MaxParallel \in Nat \ {0}
    /\ NWorkers \in Nat \ {0}
    /\ MayHang \subseteq Devices
    /\ None \notin Devices

VARIABLES
    \* GatewayState
    config,         \* the configured devices
    active,         \* is_active, and some signal is readable
    fresh,          \* devices whose _last_read_at is less than an interval old
    \* run_poll_cycle and the main loop around it
    pc,             \* where the main thread is
    known,          \* all_active_codes
    queue,          \* submitted polls no thread has taken; on the serial path, the rest of due
    pending,        \* devices whose future is not done
    tomark,         \* devices still to be marked at the end of the cycle
    stop,           \* stop_event
    \* the thread pool
    pool_size,      \* _pool_max_workers
    task,           \* what each thread is doing
    \* Yadnp3TelemetryReader
    masters,        \* _masters: the devices that have one; the address it was created with
                    \* is never looked at again
    channels,       \* number of open channels per device
    manager,        \* the DNP3Manager has not been shut down
    \* history
    hung            \* the devices whose read never returns in this behaviour

stateVars == <<config, active, fresh>>
cycleVars == <<pc, known, queue, pending, tomark>>
poolVars == <<pool_size, task>>
readerVars == <<masters, channels, manager>>
vars == <<stateVars, cycleVars, stop, poolVars, readerVars, hung>>

Idle == [device |-> None, step |-> "idle", lost |-> FALSE, old |-> FALSE]
Busy(t) == task[t].step # "idle"

Init ==
    /\ config = {}
    /\ active = FALSE
    /\ fresh = {}
    /\ pc = "loop"
    /\ known = {}
    /\ queue = {}
    /\ pending = {}
    /\ tomark = {}
    /\ stop = FALSE
    /\ pool_size = 0
    /\ task = [t \in Threads |-> Idle]
    /\ masters = {}
    /\ channels = [d \in Devices |-> 0]
    /\ manager = TRUE
    /\ hung \in SUBSET MayHang

-----------------------------------------------------------------------------
(* GatewayState, and what happens around the cycle.                        *)

\* The reading times that survive update(): those of known devices.
KeepKnown(c) == fresh \cap c

\* The refresh thread replaces the configuration under the state's lock.  A fetch that
\* is under way at the stop request may still end while the last cycle runs; after it
\* nobody reads the configuration any more.
Update(c, a) ==
    /\ stop => pc \notin {"loop", "manager", "ended"}
    /\ <<c, a>> # <<config, active>>
    /\ config' = c
    /\ active' = a
    /\ fresh' = KeepKnown(c)
    /\ UNCHANGED <<cycleVars, stop, poolVars, readerVars, hung>>

\* poll_interval_sec has passed since the device was marked.
IntervalPasses(d) ==
    /\ d \in fresh
    /\ fresh' = fresh \ {d}
    /\ UNCHANGED <<config, active, cycleVars, stop, poolVars, readerVars, hung>>

StopRequested ==
    /\ ~stop
    /\ stop' = TRUE
    /\ UNCHANGED <<stateVars, cycleVars, poolVars, readerVars, hung>>

-----------------------------------------------------------------------------
(* run_poll_cycle up to the choice of its path.                            *)

\* The main loop starts a cycle; without an active configuration it returns at once.
Enter ==
    /\ pc = "loop"
    /\ ~stop
    /\ active
    /\ pc' = "devices"
    /\ UNCHANGED <<stateVars, known, queue, pending, tomark, stop, poolVars, readerVars, hung>>

\* Mutant of ReadDevices: every device the reader may know counts as active.
ReadEverything ==
    /\ pc = "devices"
    /\ known' = Devices
    /\ pc' = "forget"
    /\ UNCHANGED <<stateVars, queue, pending, tomark, stop, poolVars, readerVars, hung>>

\* state.devices()
ReadDevices ==
    /\ pc = "devices"
    /\ known' = config
    /\ pc' = "forget"
    /\ UNCHANGED <<stateVars, queue, pending, tomark, stop, poolVars, readerVars, hung>>

\* Mutant of Stale: the devices that are not due lose their masters.
StaleUnlessDue == {d \in masters : d \notin known \/ d \in fresh}

Stale == masters \ known

\* reader.forget_devices, under the registry's lock: pop and shut down.
ForgetDevices ==
    /\ pc = "forget"
    /\ masters' = masters \ Stale
    /\ channels' = [d \in Devices |-> IF d \in Stale THEN channels[d] - 1 ELSE channels[d]]
    /\ known' = {}
    /\ pc' = "due"
    /\ UNCHANGED <<stateVars, queue, pending, tomark, stop, poolVars, manager, hung>>

\* Mutant of DueDevices: the comparison with the interval is inverted.
NotDueDevices == config \cap fresh

\* state.due_devices(); who is polled first is told by First.
DueDevices == config \ fresh

NothingDue ==
    /\ pc = "due"
    /\ DueDevices = {}
    /\ pc' = "loop"
    /\ UNCHANGED <<stateVars, known, queue, pending, tomark, stop, poolVars, readerVars, hung>>

\* The publisher's breaker is set (Delivery says when): nobody is marked.
BreakerSkips ==
    /\ pc = "due"
    /\ DueDevices # {}
    /\ pc' = "loop"
    /\ UNCHANGED <<stateVars, known, queue, pending, tomark, stop, poolVars, readerVars, hung>>

-----------------------------------------------------------------------------
(* The serial path: the main thread polls.                                 *)

IsSerial == MaxParallel <= 1 \/ Cardinality(DueDevices) = 1

BeginSerial ==
    /\ pc = "due"
    /\ DueDevices # {}
    /\ IsSerial
    /\ queue' = DueDevices
    /\ pc' = "serial"
    /\ UNCHANGED <<stateVars, known, pending, tomark, stop, poolVars, readerVars, hung>>

\* Polls begin in the order of the configuration.
First(codes) == CHOOSE d \in codes : \A e \in codes : Order[d] <= Order[e]

Begin(t) ==
    /\ task' = [task EXCEPT ![t] = [device |-> First(queue), step |-> "lookup",
                                    lost |-> FALSE, old |-> FALSE]]
    /\ queue' = queue \ {First(queue)}

PollNext ==
    /\ pc = "serial"
    /\ ~Busy(Main)
    /\ queue # {}
    /\ ~stop
    /\ Begin(Main)
    /\ UNCHANGED <<stateVars, pc, known, pending, tomark, stop, pool_size, readerVars, hung>>

\* Mutant of EndSerial: the stop request ends the polls but not the path.
EndSerialWhenEmpty ==
    /\ pc = "serial"
    /\ ~Busy(Main)
    /\ queue = {}
    /\ queue' = {}
    /\ pc' = "loop"
    /\ UNCHANGED <<stateVars, known, pending, tomark, stop, poolVars, readerVars, hung>>

\* The rest is not marked when the service stops.
EndSerial ==
    /\ pc = "serial"
    /\ ~Busy(Main)
    /\ queue = {} \/ stop
    /\ queue' = {}
    /\ pc' = "loop"
    /\ UNCHANGED <<stateVars, known, pending, tomark, stop, poolVars, readerVars, hung>>

\* state.mark_read
MarkRead(d) == fresh' = fresh \cup {d}

MarkPolled ==
    /\ task[Main].step = "mark"
    /\ MarkRead(task[Main].device)
    /\ task' = [task EXCEPT ![Main] = Idle]
    /\ UNCHANGED <<config, active, cycleVars, stop, pool_size, readerVars, hung>>

-----------------------------------------------------------------------------
(* The parallel path: pool threads poll, the main thread waits.            *)

\* _get_or_create_pool: a larger pool replaces the one there is, whose threads end
\* with the poll they are at; then one future per due device.
Submit ==
    /\ pc = "due"
    /\ DueDevices # {}
    /\ ~IsSerial
    /\ LET workers == Min({MaxParallel, Cardinality(DueDevices)})
           grows == workers > pool_size
       IN  /\ pool_size' = IF grows THEN workers ELSE pool_size
           /\ task' = [t \in Threads |->
                        IF grows /\ Busy(t) THEN [task[t] EXCEPT !.old = TRUE] ELSE task[t]]
    /\ queue' = DueDevices
    /\ pending' = DueDevices
    /\ tomark' = DueDevices
    /\ pc' = "wait"
    /\ UNCHANGED <<stateVars, known, stop, readerVars, hung>>

FreeThreads == {t \in Threads \ {Main} : ~Busy(t)}
Occupied == Cardinality({t \in Threads \ {Main} : Busy(t) /\ ~task[t].old})
CanStart == queue # {} /\ FreeThreads # {} /\ Occupied < pool_size

\* A pool thread takes the oldest submitted poll.  The threads are alike.
StartPoll ==
    /\ pc = "wait"
    /\ CanStart
    /\ Begin(CHOOSE t \in FreeThreads : TRUE)
    /\ UNCHANGED <<stateVars, pc, known, pending, tomark, stop, pool_size, readerVars, hung>>

AllDone ==
    /\ pc = "wait"
    /\ pending = {}
    /\ pc' = "mark"
    /\ UNCHANGED <<stateVars, known, queue, pending, tomark, stop, poolVars, readerVars, hung>>

\* fut.cancel(): a poll that has not begun is dropped, a running one goes on.
GiveUp ==
    /\ queue' = {}
    /\ task' = [t \in Threads |->
                  IF Busy(t) THEN [task[t] EXCEPT !.lost = TRUE] ELSE task[t]]
    /\ pending' = {}
    /\ pc' = "mark"
    /\ UNCHANGED <<stateVars, known, tomark, stop, pool_size, readerVars, hung>>

\* Mutant of TimeOut: the cycle waits for the polls that cancel() did not stop.
TimeOutQueued ==
    /\ pc = "wait"
    /\ pending # {}
    /\ \A t \in Threads : ~Busy(t)
    /\ GiveUp

\* device_timeout_sec counts from the submission, which all polls of a cycle share;
\* cycle_timeout_sec has the same effect.  A free thread takes a poll sooner than that.
TimeOut ==
    /\ pc = "wait"
    /\ pending # {}
    /\ ~CanStart
    /\ GiveUp

StopWaiting ==
    /\ pc = "wait"
    /\ pending # {}
    /\ stop
    /\ GiveUp

MarkOne(d) ==
    /\ pc = "mark"
    /\ d \in tomark
    /\ MarkRead(d)
    /\ tomark' = tomark \ {d}
    /\ UNCHANGED <<config, active, pc, known, queue, pending, stop, poolVars, readerVars, hung>>

EndParallel ==
    /\ pc = "mark"
    /\ tomark = {}
    /\ pc' = "loop"
    /\ UNCHANGED <<stateVars, known, queue, pending, tomark, stop, poolVars, readerVars, hung>>

-----------------------------------------------------------------------------
(* poll_device, as far as the registry of masters sees it.                 *)

Goto(t, step) == task' = [task EXCEPT ![t].step = step]

\* poll_device returns: on the serial path the main thread marks the device, in the
\* pool the future is done and the thread is free.
Return(t) ==
    /\ task' = [task EXCEPT ![t] = IF t = Main THEN [@ EXCEPT !.step = "mark"] ELSE Idle]
    /\ pending' = IF t # Main /\ ~task[t].lost THEN pending \ {task[t].device} ELSE pending
    /\ UNCHANGED <<stateVars, pc, known, tomark, stop, pool_size, hung>>

\* The look into _masters without the lock.
Lookup(t) ==
    /\ task[t].step = "lookup"
    /\ Goto(t, IF task[t].device \in masters THEN "read" ELSE "create")
    /\ UNCHANGED <<stateVars, cycleVars, stop, pool_size, readerVars, hung>>

\* Mutant of EnsureMaster: no second look under the lock.
EnsureMasterUnchecked(t) ==
    /\ task[t].step = "create"
    /\ manager
    /\ masters' = masters \cup {task[t].device}
    /\ channels' = [channels EXCEPT ![task[t].device] = @ + 1]
    /\ Goto(t, "read")
    /\ UNCHANGED <<stateVars, cycleVars, stop, pool_size, manager, hung>>

\* Under the lock: another poll's master, or a new one.
EnsureMaster(t) ==
    /\ task[t].step = "create"
    /\ LET d == task[t].device
       IN  \/ /\ d \in masters
              /\ UNCHANGED <<masters, channels>>
           \/ /\ d \notin masters
              /\ manager
              /\ masters' = masters \cup {d}
              /\ channels' = [channels EXCEPT ![d] = @ + 1]
    /\ Goto(t, "read")
    /\ UNCHANGED <<stateVars, cycleVars, stop, pool_size, manager, hung>>

\* The manager refuses the channel: the port is taken, or it has been shut down.
\* poll_device logs the exception and returns.
CreateFails(t) ==
    /\ task[t].step = "create"
    /\ task[t].device \notin masters
    /\ Return(t)
    /\ UNCHANGED <<queue, readerVars>>

\* The device has been read and its readings are published.
EndPoll(t) ==
    /\ task[t].step = "read"
    /\ task[t].device \notin hung
    /\ Return(t)
    /\ UNCHANGED <<queue, readerVars>>

\* OutboxFullError ends the serial path after this device.  In the pool it is one more
\* way for a future to be done.
PollFindsOutboxFull ==
    /\ task[Main].step = "read"
    /\ task[Main].device \notin hung
    /\ Return(Main)
    /\ queue' = {}
    /\ UNCHANGED readerVars

Poll(t) ==
    \/ Lookup(t)
    \/ EnsureMaster(t)
    \/ CreateFails(t)
    \/ EndPoll(t)
    \/ t = Main /\ PollFindsOutboxFull

-----------------------------------------------------------------------------
(* Shutdown: Yadnp3TelemetryReader.close, its two halves.                  *)

CloseMasters ==
    /\ pc = "loop"
    /\ stop
    /\ masters' = {}
    /\ channels' = [d \in Devices |-> IF d \in masters THEN channels[d] - 1 ELSE channels[d]]
    /\ pc' = "manager"
    /\ UNCHANGED <<stateVars, known, queue, pending, tomark, stop, poolVars, manager, hung>>

\* DNP3Manager.Shutdown closes every channel there is and refuses new ones.
ShutdownManager ==
    /\ pc = "manager"
    /\ manager' = FALSE
    /\ channels' = [d \in Devices |-> 0]
    /\ pc' = "ended"
    /\ UNCHANGED <<stateVars, known, queue, pending, tomark, stop, poolVars, masters, hung>>

MainStep ==
    \/ Enter
    \/ ReadDevices
    \/ ForgetDevices
    \/ NothingDue
    \/ BreakerSkips
    \/ BeginSerial
    \/ PollNext
    \/ EndSerial
    \/ MarkPolled
    \/ Submit
    \/ AllDone
    \/ TimeOut
    \/ StopWaiting
    \/ \E d \in Devices : MarkOne(d)
    \/ EndParallel
    \/ CloseMasters
    \/ ShutdownManager

Next ==
    \/ MainStep
    \/ StartPoll
    \/ \E t \in Threads : Poll(t)
    \/ \E c \in SUBSET Devices, a \in BOOLEAN : Update(c, a)
    \/ \E d \in Devices : IntervalPasses(d)
    \/ StopRequested

Spec == Init /\ [][Next]_vars

\* Every thread runs and time passes.  A read that does not hang returns.
Fairness ==
    /\ WF_vars(MainStep)
    /\ WF_vars(StartPoll)
    /\ \A t \in Threads : WF_vars(Poll(t))
    /\ \A d \in Devices : WF_vars(IntervalPasses(d))

LiveSpec == Spec /\ Fairness

-----------------------------------------------------------------------------
(* Properties.                                                             *)

Task == [device : Devices \cup {None}, step : {"idle", "lookup", "create", "read", "mark"},
         lost : BOOLEAN, old : BOOLEAN]

\* A running poll knows its device, and only the main thread marks one after its poll.
TaskTypes ==
    /\ task \in [Threads -> Task]
    /\ \A t \in Threads : Busy(t) => task[t].device # None
    /\ \A t \in Threads \ {Main} : task[t].step # "mark"

\* The types of the state.
TypeOK ==
    /\ config \subseteq Devices /\ fresh \subseteq Devices /\ active \in BOOLEAN
    /\ known \subseteq Devices /\ queue \subseteq Devices
    /\ pending \subseteq Devices /\ tomark \subseteq Devices
    /\ masters \subseteq Devices /\ hung \subseteq Devices
    /\ stop \in BOOLEAN /\ manager \in BOOLEAN
    /\ pc \in {"loop", "devices", "forget", "due", "serial", "wait", "mark",
               "manager", "ended"}
    /\ pool_size \in 0 .. MaxParallel
    /\ channels \in [Devices -> Nat]
    /\ TaskTypes

\* Two polls of one device overlap only when a cycle has given the earlier one up:
\* otherwise a slow publish of an older reading could follow that of a newer one.
OnePollPerDevice ==
    \A t, u \in Threads :
        t # u /\ Busy(t) /\ Busy(u) /\ task[t].device = task[u].device
            => task[t].lost \/ task[u].lost

\* A device has exactly the channel of its registered master: racing polls never open a
\* second one that nobody would shut down.  After close() there is none, and no poll
\* that was given up opens one.
ChannelsOwned ==
    \A d \in Devices : channels[d] = IF d \in masters /\ pc # "ended" THEN 1 ELSE 0

\* What the two rest on: the manager runs until close() is over; the main thread polls on
\* the serial path only; and every poll in the pool that was not given up belongs to the
\* cycle that waits, each for a device of its own.
CycleInv ==
    /\ manager <=> pc # "ended"
    /\ Busy(Main) => pc = "serial"
    /\ pc = "wait" => queue \subseteq pending
    /\ \A t \in Threads \ {Main} :
          Busy(t) /\ ~task[t].lost => pc = "wait" /\ task[t].device \in pending \ queue
    /\ \A t, u \in Threads \ {Main} :
          t # u /\ Busy(t) /\ Busy(u) /\ ~task[t].lost /\ ~task[u].lost
              => task[t].device # task[u].device

PollingInv == TypeOK /\ CycleInv /\ ChannelsOwned

\* The steady state the progress properties are about.
Settled(d) == active /\ ~stop /\ d \in config

\* A removed device loses its master for good, also when a poll that was given up
\* registers one after the device was forgotten.
ZombieGone ==
    hung = {} =>
        \A d \in Devices :
            <>[](active /\ ~stop /\ d \notin config) => <>[](d \notin masters)

\* A device that stays configured keeps its master: cycles in which it is not due, and
\* changes of other devices, do not break its link.
LinkKept ==
    \A d \in Devices :
        <>[]Settled(d) => <>[][(d \in masters) => (d \in masters')]_vars

\* A parallel cycle ends although a device never answers.
CycleEnds == (pc = "wait") ~> (pc = "loop")

\* While polls end in time, every device is polled again and again.
EveryDeviceRead ==
    hung = {} =>
        \A d \in Devices :
            <>[]Settled(d) /\ <>[][~TimeOut /\ ~BreakerSkips]_vars
                => []<>(\E t \in Threads : task[t].device = d)

\* A stop request ends the main thread and every poll, so the process can exit.
StopEnds ==
    hung = {} => (stop ~> (pc = "ended" /\ \A t \in Threads : ~Busy(t)))

-----------------------------------------------------------------------------
(* What the documentation claims and the code does not keep.               *)

\* poller.py: a device that hangs does not hold a pool thread for ever, and the other
\* devices are not affected.
OthersUnaffected ==
    \A d \in Devices :
        d \notin hung /\ <>[]Settled(d) /\ <>[][~BreakerSkips]_vars
            => []<>(\E t \in Threads : task[t].device = d)
=============================================================================
