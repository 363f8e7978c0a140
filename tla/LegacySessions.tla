--------------------------- MODULE LegacySessions ---------------------------
(***************************************************************************)
(* The session table of Dnp3TelemetryReader, the dnp3py adapter, for one   *)
(* device: the sessions of different devices share only _sessions_lock.    *)
(*                                                                         *)
(* Polls of the device run side by side when a cycle has given one up.     *)
(* They get a session under _sessions_lock, read under the session's own   *)
(* lock, and evict it afterwards when its connection is gone.  The main    *)
(* thread forgets a removed device and closes the reader.  LegacyRead      *)
(* models what a read returns; here a read keeps its session's lock and    *)
(* ends in one of the ways read_batch can end.                             *)
(***************************************************************************)
EXTENDS Naturals, FiniteSets

CONSTANTS
    Workers,        \* polls of the device that may run at once
    Addresses,      \* what _fingerprint may be: ip, port and link addresses
    Main,           \* the main thread
    None, Inactive, Stopped

ASSUME LegacyAssumption ==
    /\ Main \notin Workers
    /\ None \notin Addresses \cup Workers \cup {Main, Stopped}
    /\ Stopped \notin Addresses
    /\ Inactive \notin Addresses \cup {None, Stopped}
    /\ IsFiniteSet(Workers)

Threads == Workers \cup {Main}

\* Bound: a thread has one session in its hands, and whoever connects has none yet.
Ids == 1 .. Cardinality(Threads)

ASSUME IdsAssumption == None \notin Ids

VARIABLES
    config,         \* the configured address of the device, None when it is removed,
                    \* Inactive while the gateway is not active or has no signals, so
                    \* that a cycle returns at once, Stopped after stop_event
    sessions,       \* the entry of _sessions, or None
    sessions_lock,  \* who holds _sessions_lock, or None
    session,        \* connection_fingerprint, _master and _lock of every session
    pc,             \* where each thread is
    want,           \* the address a poll was given, or None
    mine            \* the session in a thread's hands, or None

lockVars == <<sessions, sessions_lock>>
threadVars == <<pc, want, mine>>
vars == <<config, lockVars, session, threadVars>>

Configs == Addresses \cup {None, Inactive}

\* _master of a session: "none", or an open one whose TCP link is up or down.
Masters == {"none", "up", "down"}

NoSession == [fingerprint |-> None, master |-> "none", lock |-> None]

Init ==
    /\ config \in Configs
    /\ sessions = None
    /\ sessions_lock = None
    /\ session = [i \in Ids |-> NoSession]
    /\ pc = [t \in Threads |-> "idle"]
    /\ want = [t \in Threads |-> None]
    /\ mine = [t \in Threads |-> None]

Free(t) == {i \in Ids : /\ sessions # i
                        /\ session[i].master = "none"
                        /\ \A u \in Threads \ {t} : mine[u] # i}

Goto(t, step) == pc' = [pc EXCEPT ![t] = step]

-----------------------------------------------------------------------------
(* The surroundings.                                                       *)

\* The refresh thread, which ends with the stop request.
Reconfigure(c) ==
    /\ config # Stopped
    /\ config' = c
    /\ UNCHANGED <<lockVars, session, threadVars>>

StopRequested ==
    /\ config # Stopped
    /\ config' = Stopped
    /\ UNCHANGED <<lockVars, session, threadVars>>

-----------------------------------------------------------------------------
(* read_device.                                                            *)

\* poll_device calls read_device with the device as the cycle found it.  The cycle does
\* that after forget_devices, and may be over before the poll is.
StartPoll(w) ==
    /\ pc[w] = "idle"
    /\ pc[Main] = "idle"
    /\ config \in Addresses
    /\ want' = [want EXCEPT ![w] = config]
    /\ Goto(w, "get")
    /\ UNCHANGED <<config, lockVars, session, mine>>

\* A poll lets go of its session and ends, or goes on to evict what the table has.
LetGo(t, step) ==
    /\ Goto(t, step)
    /\ want' = [want EXCEPT ![t] = None]
    /\ mine' = [mine EXCEPT ![t] = None]

EndPoll(t) == LetGo(t, "idle")

\* Mutant of GetSession: the address is not compared.
GetSessionByCode(w) ==
    /\ pc[w] = "get"
    /\ sessions_lock = None
    /\ IF sessions # None
       THEN /\ mine' = [mine EXCEPT ![w] = sessions]
            /\ Goto(w, "read")
            /\ UNCHANGED sessions_lock
       ELSE /\ sessions_lock' = w
            /\ Goto(w, "connect")
            /\ UNCHANGED mine
    /\ UNCHANGED <<config, sessions, session, want>>

HasSession(address) == sessions # None /\ session[sessions].fingerprint = address

\* _get_session takes _sessions_lock and returns the session there is for this
\* address, or keeps the lock to replace one for another address or to connect.
GetSession(w) ==
    /\ pc[w] = "get"
    /\ sessions_lock = None
    /\ \/ /\ HasSession(want[w])
          /\ mine' = [mine EXCEPT ![w] = sessions]
          /\ Goto(w, "read")
          /\ UNCHANGED sessions_lock
       \/ /\ ~HasSession(want[w])
          /\ sessions_lock' = w
          /\ Goto(w, IF sessions = None THEN "connect" ELSE "replace")
          /\ UNCHANGED mine
    /\ UNCHANGED <<config, sessions, session, want>>

\* Mutant of CloseSession: close() does not take the session's lock.
CloseSessionAtOnce(i) == session' = [session EXCEPT ![i].master = "none"]

\* Dnp3DeviceSession.close: waits for a read that is under way.  It leaves the table
\* before or with that, so its address is of no more use.
CloseSession(i) ==
    /\ session[i].lock = None
    /\ session' = [session EXCEPT ![i] = NoSession]

\* The device has a new address: its session is closed first.
Replace(w) ==
    /\ pc[w] = "replace"
    /\ CloseSession(sessions)
    /\ sessions' = None
    /\ Goto(w, "connect")
    /\ UNCHANGED <<config, sessions_lock, want, mine>>

\* A new session connects, under _sessions_lock, and is entered into the table.
Connect(w) ==
    /\ pc[w] = "connect"
    /\ LET i == CHOOSE i \in Free(w) : TRUE
       IN  /\ session' = [session EXCEPT
                ![i] = [fingerprint |-> want[w], master |-> "up", lock |-> None]]
           /\ sessions' = i
           /\ mine' = [mine EXCEPT ![w] = i]
    /\ sessions_lock' = None
    /\ Goto(w, "read")
    /\ UNCHANGED <<config, want>>

\* The error goes up to poll_device.
ConnectFails(w) ==
    /\ pc[w] = "connect"
    /\ sessions_lock' = None
    /\ EndPoll(w)
    /\ UNCHANGED <<config, sessions, session>>

\* read_batch takes the session's lock.  A session closed meanwhile raises
\* Dnp3AdapterError.
BeginRead(w) ==
    /\ pc[w] = "read"
    /\ session[mine[w]].lock = None
    /\ IF session[mine[w]].master = "none"
       THEN LetGo(w, "evict") /\ UNCHANGED session
       ELSE /\ Goto(w, "reading")
            /\ session' = [session EXCEPT ![mine[w]].lock = w]
            /\ UNCHANGED <<want, mine>>
    /\ UNCHANGED <<config, lockVars>>

\* Mutant of Unlock: the table is looked at before the session's lock is released.
UnlockUnderTableLock(w, masters) ==
    /\ sessions_lock = None
    /\ \E m \in masters :
          session' = [session EXCEPT ![mine[w]].lock = None, ![mine[w]].master = m]

\* read_batch ends and with it the session's lock.  The outstation may have closed the
\* link, now or since the last read, which many do after one response.
Unlock(w, masters) ==
    \E m \in masters :
        session' = [session EXCEPT ![mine[w]].lock = None, ![mine[w]].master = m]

\* class0 and integrity always give up the connection, event_driven when a first
\* baseline brings nothing (_mark_disconnected).
EndRead(w) ==
    /\ pc[w] = "reading"
    /\ Unlock(w, {"none", "down", session[mine[w]].master})
    /\ Goto(w, "check")
    /\ want' = [want EXCEPT ![w] = None]
    /\ UNCHANGED <<config, lockVars, mine>>

\* An error that is neither DNP3Error nor Dnp3AdapterError, as the sequential reads let
\* through, passes read_device: the session stays in the table as it is.
ReadRaises(w) ==
    /\ pc[w] = "reading"
    /\ Unlock(w, {"down", session[mine[w]].master})
    /\ EndPoll(w)
    /\ UNCHANGED <<config, lockVars>>

\* Mutant of Check: only a session without a master is evicted.
CheckMasterOnly(w) ==
    /\ pc[w] = "check"
    /\ IF session[mine[w]].master # "none"
       THEN EndPoll(w)
       ELSE LetGo(w, "evict")
    /\ UNCHANGED <<config, lockVars, session>>

\* _master_connected, without a lock.
Check(w) ==
    /\ pc[w] = "check"
    /\ IF session[mine[w]].master = "up"
       THEN EndPoll(w)
       ELSE LetGo(w, "evict")
    /\ UNCHANGED <<config, lockVars, session>>

\* The session of the table is popped, whichever it is by now: a late poll may evict
\* the one a newer poll has opened.
Pop(t, then) ==
    /\ sessions_lock = None
    /\ mine' = [mine EXCEPT ![t] = sessions]
    /\ sessions' = None
    /\ Goto(t, then)
    /\ UNCHANGED <<config, sessions_lock, session, want>>

\* Mutant of Evict: the session is dropped from the table and not closed.
EvictOnly(w) ==
    /\ pc[w] = "evict"
    /\ sessions_lock = None
    /\ sessions' = None
    /\ EndPoll(w)
    /\ UNCHANGED <<config, sessions_lock, session>>

Evict(w) ==
    /\ pc[w] = "evict"
    /\ Pop(w, "close")

\* What was popped is closed after _sessions_lock is released.
CloseEvicted(w) ==
    /\ pc[w] = "close"
    /\ IF mine[w] = None THEN UNCHANGED session ELSE CloseSession(mine[w])
    /\ EndPoll(w)
    /\ UNCHANGED <<config, lockVars>>

Poll(w) ==
    \/ GetSession(w)
    \/ Replace(w)
    \/ Connect(w)
    \/ ConnectFails(w)
    \/ BeginRead(w)
    \/ EndRead(w)
    \/ ReadRaises(w)
    \/ Check(w)
    \/ Evict(w)
    \/ CloseEvicted(w)

-----------------------------------------------------------------------------
(* The main thread: forget_devices in each cycle, close at the end.        *)

\* Mutant of BeginCycle: the known devices are forgotten.
ForgetKnown ==
    /\ pc[Main] = "idle"
    /\ config \in Addresses
    /\ Goto(Main, "stale")
    /\ UNCHANGED <<config, lockVars, session, want, mine>>

\* A cycle of an active gateway reads the configuration and does not find the device in
\* it; one that does forgets nothing.
BeginCycle ==
    /\ pc[Main] = "idle"
    /\ config = None
    /\ Goto(Main, "stale")
    /\ UNCHANGED <<config, lockVars, session, want, mine>>

\* forget_devices: a first critical section looks for a session to forget.
FindStale ==
    /\ pc[Main] = "stale"
    /\ sessions_lock = None
    /\ Goto(Main, IF sessions # None THEN "evict" ELSE "idle")
    /\ UNCHANGED <<config, lockVars, session, want, mine>>

\* A second one pops, and the session is closed after that.
ForgetDevice ==
    /\ pc[Main] = "evict"
    /\ Pop(Main, "close")

CloseForgotten ==
    /\ pc[Main] = "close"
    /\ IF mine[Main] = None THEN UNCHANGED session ELSE CloseSession(mine[Main])
    /\ LetGo(Main, "idle")
    /\ UNCHANGED <<config, lockVars>>

\* close() holds _sessions_lock while it closes.
BeginClose ==
    /\ pc[Main] = "idle"
    /\ config = Stopped
    /\ sessions_lock = None
    /\ sessions_lock' = Main
    /\ Goto(Main, "closing")
    /\ UNCHANGED <<config, sessions, session, want, mine>>

EndClose ==
    /\ pc[Main] = "closing"
    /\ IF sessions = None THEN UNCHANGED session ELSE CloseSession(sessions)
    /\ sessions' = None
    /\ sessions_lock' = None
    /\ Goto(Main, "ended")
    /\ UNCHANGED <<config, want, mine>>

MainStep ==
    \/ BeginCycle
    \/ FindStale
    \/ ForgetDevice
    \/ CloseForgotten
    \/ BeginClose
    \/ EndClose

Next ==
    \/ \E c \in Configs : Reconfigure(c)
    \/ StopRequested
    \/ \E w \in Workers : StartPoll(w) \/ Poll(w)
    \/ MainStep

Spec == Init /\ [][Next]_vars

\* Every call to the library returns, a lock that is free again and again is taken in
\* the end, and the device is due again and again.
Fairness ==
    /\ \A w \in Workers : SF_vars(Poll(w))
    /\ SF_vars(\E w \in Workers : StartPoll(w))
    /\ SF_vars(MainStep)

LiveSpec == Spec /\ Fairness

-----------------------------------------------------------------------------
(* Properties.                                                             *)

\* The types of the state; _sessions_lock is held exactly by the thread whose step
\* needs it.
TypeOK ==
    /\ config \in Configs \cup {Stopped}
    /\ sessions \in Ids \cup {None}
    /\ sessions_lock \in Threads \cup {None}
    /\ session \in [Ids -> [fingerprint : Addresses \cup {None}, master : Masters,
                            lock : Workers \cup {None}]]
    /\ pc \in [Threads -> {"idle", "get", "replace", "connect", "read", "reading", "check",
                           "evict", "close", "stale", "closing", "ended"}]
    /\ want \in [Threads -> Addresses \cup {None}]
    /\ mine \in [Threads -> Ids \cup {None}]
    /\ \A t \in Threads :
          (sessions_lock = t) <=> (pc[t] \in {"replace", "connect", "closing"})

\* No TCP connection is left behind: an open one is that of the session in the table,
\* or a thread is about to close it.  Whatever order evictions, replacements and late
\* polls come in.
ConnectionsOwned ==
    \A i \in Ids :
        session[i].master # "none" =>
            sessions = i \/ \E t \in Threads : pc[t] = "close" /\ mine[t] = i

\* A connection is not closed under a read, though evictions, forget_devices, close()
\* and a new address all close sessions that other polls may be using.
NotClosedUnderRead ==
    \A w \in Workers :
        pc[w] = "reading" => /\ session[mine[w]].master # "none"
                             /\ session[mine[w]].lock = w

\* A poll reads the outstation whose address it was given, also when a late poll of the
\* former address and a poll of the new one take turns in replacing the session.
ReadsItsAddress ==
    \A w \in Workers :
        pc[w] = "reading" => session[mine[w]].fingerprint = want[w]

\* What the three rest on.  Where each kind of thread may be, and what it has in hand:
StepInv ==
    /\ pc[Main] \in {"idle", "stale", "evict", "close", "closing", "ended"}
    /\ \A w \in Workers :
          /\ pc[w] \notin {"stale", "closing", "ended"}
          /\ pc[w] \in {"get", "replace", "connect", "read", "reading"} => want[w] \in Addresses
          /\ pc[w] \in {"read", "reading", "check"} => mine[w] \in Ids
          /\ pc[w] = "replace" => sessions # None
          /\ pc[w] = "connect" => sessions = None

\* a session's lock is held by the poll that reads;
LockInv ==
    \A i \in Ids, w \in Workers :
        session[i].lock = w <=> pc[w] = "reading" /\ mine[w] = i

\* and a session that a poll is going to read is for its address while it is open.
AddressInv ==
    \A w \in Workers :
        /\ pc[w] = "read" /\ session[mine[w]].master # "none"
                => session[mine[w]].fingerprint = want[w]
        /\ pc[w] = "reading" => session[mine[w]].fingerprint = want[w]

SessionsInv ==
    /\ TypeOK
    /\ StepInv
    /\ LockInv
    /\ AddressInv
    /\ ConnectionsOwned
    /\ NotClosedUnderRead

\* The thread that holds the lock a thread needs for its next step, or None.  Main needs
\* _sessions_lock for close() as soon as the service is to stop.
LockOf(i) == IF i = None THEN None ELSE session[i].lock

WaitsFor(t) ==
    CASE pc[t] \in {"get", "evict", "stale"} -> sessions_lock
      [] pc[t] = "idle" /\ t = Main /\ config = Stopped -> sessions_lock
      [] pc[t] \in {"replace", "closing"} -> LockOf(sessions)
      [] pc[t] \in {"read", "close"} -> LockOf(mine[t])
      [] OTHER -> None

\* Nobody waits in a circle: who is waited for runs, or waits for one who runs.
NoCircularWait ==
    \A t \in Threads :
        LET holder == WaitsFor(t)
        IN  holder # None =>
                WaitsFor(holder) = None \/ WaitsFor(WaitsFor(holder)) = None

\* No step is taken by a thread that waits: WaitsFor is what the code's locks say.
OnlyOthersStep ==
    /\ \A w \in Workers : Poll(w) => WaitsFor(w) = None
    /\ MainStep => WaitsFor(Main) = None

\* Two locks are taken in one another's scope, and the main thread takes both to close.
\* Once the service is to stop, close() and all polls end, whatever they were waiting
\* for: a deadlock at any time would show here.
NobodyWaitsForever ==
    (config = Stopped) ~> (pc[Main] = "ended" /\ \A w \in Workers : pc[w] = "idle")

\* The table follows the configuration: in the end it has no session for another
\* address, and none for a removed device, also if late polls open them again.
TableFollows ==
    \A a \in Addresses \cup {None} :
        <>[](config = a) =>
            <>[](sessions # None => session[sessions].fingerprint = a)

\* A session whose link is down does not stay in the table; unless every read of it
\* raises an error that read_device lets pass, which leaves it there.
DeadLinkReplaced ==
    <>[](config \in Addresses) /\ <>[][\A w \in Workers : ~ReadRaises(w)]_vars =>
        []<>(sessions # None => session[sessions].master = "up")
=============================================================================
