------------------------ MODULE LegacySessions_proofs -----------------------
(***************************************************************************)
(* Proofs about LegacySessions for any number of polls of the device and   *)
(* any addresses: the inductive invariant SessionsInv and the safety       *)
(* properties it implies.                                                  *)
(***************************************************************************)
EXTENDS LegacySessions, FiniteSetTheorems, TLAPS

\* A reader that has just been made satisfies the invariant.
LEMMA InitInv == Init => SessionsInv
  BY LegacyAssumption
     DEF Init, SessionsInv, TypeOK, StepInv, LockInv, AddressInv, ConnectionsOwned,
         NotClosedUnderRead, Threads, NoSession, Masters

\* Whoever connects finds a slot: every slot in use is in the hands of another thread,
\* and there are fewer of those than slots.
LEMMA SlotFree ==
    ASSUME SessionsInv, NEW w \in Workers, pc[w] = "connect"
    PROVE  Free(w) # {}
<1> DEFINE Others == Threads \ {w}
           Holder == [i \in Ids |-> CHOOSE u \in Others : mine[u] = i]
<1> SUFFICES ASSUME Free(w) = {} PROVE FALSE
  OBVIOUS
<1>1. \A i \in Ids : \E u \in Others : mine[u] = i
  <2> SUFFICES ASSUME NEW i \in Ids PROVE \E u \in Others : mine[u] = i
    OBVIOUS
  <2>1. sessions = None
    BY DEF SessionsInv, StepInv
  <2>2. \/ session[i].master # "none"
        \/ \E u \in Threads \ {w} : mine[u] = i
    BY <2>1, IdsAssumption DEF Free
  <2> QED
    BY <2>1, <2>2, IdsAssumption DEF SessionsInv, ConnectionsOwned
<1>2. Holder \in [Ids -> Others] /\ \A i \in Ids : mine[Holder[i]] = i
  BY <1>1
<1>3. /\ IsFiniteSet(Others) /\ IsFiniteSet(Ids)
      /\ Cardinality(Others) < Cardinality(Ids)
  <2>1. IsFiniteSet(Threads)
    BY LegacyAssumption, FS_AddElement DEF Threads
  <2>2. Cardinality(Threads) \in Nat
    BY <2>1, FS_CardinalityType
  <2>3. w \in Threads
    BY DEF Threads
  <2>4. IsFiniteSet(Others) /\ Cardinality(Others) = Cardinality(Threads) - 1
    BY <2>1, <2>3, FS_RemoveElement
  <2>5. Cardinality(Threads) # 0
    BY <2>1, <2>3, FS_EmptySet
  <2>6. IsFiniteSet(Ids) /\ Cardinality(Ids) = Cardinality(Threads)
    BY <2>2, <2>5, FS_Interval DEF Ids
  <2> QED
    BY <2>2, <2>4, <2>6
<1> HIDE DEF Holder, Others
<1>4. \E x, y \in Ids : x # y /\ Holder[x] = Holder[y]
  BY <1>2, <1>3, FS_PigeonHole
<1> QED
  BY <1>2, <1>4

\* The steps of a poll up to its read keep the invariant.
LEMMA GetKeepsInv ==
    ASSUME SessionsInv, NEW w \in Workers,
           StartPoll(w) \/ GetSession(w) \/ Replace(w) \/ ConnectFails(w) \/ BeginRead(w)
    PROVE  SessionsInv'
<1> USE LegacyAssumption, IdsAssumption
        DEF SessionsInv, TypeOK, StepInv, LockInv, AddressInv, ConnectionsOwned,
            NotClosedUnderRead, Threads, lockVars, threadVars, Goto, LetGo
<1>1. CASE StartPoll(w)
  BY <1>1 DEF StartPoll
<1>2. CASE GetSession(w)
  BY <1>2 DEF GetSession, HasSession
<1>3. CASE Replace(w)
  BY <1>3 DEF Replace, CloseSession, NoSession, Masters
<1>4. CASE ConnectFails(w)
  BY <1>4 DEF ConnectFails, EndPoll
<1>5. CASE BeginRead(w)
  BY <1>5 DEF BeginRead
<1> QED
  BY <1>1, <1>2, <1>3, <1>4, <1>5

\* So does connecting: the slot of the new session is in nobody else's hands.
LEMMA ConnectKeepsInv ==
    ASSUME SessionsInv, NEW w \in Workers, Connect(w)
    PROVE  SessionsInv'
<1>1. PICK i \in Free(w) :
        /\ session' = [session EXCEPT
                ![i] = [fingerprint |-> want[w], master |-> "up", lock |-> None]]
        /\ sessions' = i
        /\ mine' = [mine EXCEPT ![w] = i]
  BY SlotFree DEF Connect
<1>2. /\ pc[w] = "connect" /\ sessions_lock' = None /\ pc' = [pc EXCEPT ![w] = "read"]
      /\ UNCHANGED <<config, want>>
  BY DEF Connect, Goto
<1> USE LegacyAssumption, IdsAssumption
        DEF SessionsInv, TypeOK, StepInv, LockInv, AddressInv, ConnectionsOwned,
            NotClosedUnderRead, Threads, Masters
<1>3. i \in Ids /\ \A u \in Threads \ {w} : mine[u] # i
  BY DEF Free
<1>4. TypeOK'
  BY <1>1, <1>2, <1>3
<1>5. StepInv'
  BY <1>1, <1>2, <1>3
<1>6. LockInv'
  BY <1>1, <1>2, <1>3
<1>7. AddressInv'
  BY <1>1, <1>2, <1>3
<1>8. ConnectionsOwned'
  BY <1>1, <1>2, <1>3
<1>9. NotClosedUnderRead'
  BY <1>1, <1>2, <1>3
<1> QED
  BY <1>4, <1>5, <1>6, <1>7, <1>8, <1>9

\* The steps after the read keep the invariant, also when the session in the table is
\* no longer the one the poll has read from.
LEMMA EndKeepsInv ==
    ASSUME SessionsInv, NEW w \in Workers,
           EndRead(w) \/ ReadRaises(w) \/ Check(w) \/ Evict(w) \/ CloseEvicted(w)
    PROVE  SessionsInv'
<1> USE LegacyAssumption, IdsAssumption
        DEF SessionsInv, TypeOK, StepInv, LockInv, AddressInv, ConnectionsOwned,
            NotClosedUnderRead, Threads, lockVars, Goto, LetGo, EndPoll
<1>1. CASE EndRead(w)
  BY <1>1 DEF EndRead, Unlock, Masters
<1>2. CASE ReadRaises(w)
  BY <1>2 DEF ReadRaises, Unlock, Masters
<1>3. CASE Check(w)
  <2> USE <1>3 DEF Check
  <2>1. TypeOK'
    OBVIOUS
  <2>2. StepInv'
    OBVIOUS
  <2>3. LockInv'
    OBVIOUS
  <2>4. AddressInv'
    OBVIOUS
  <2>5. ConnectionsOwned'
    OBVIOUS
  <2>6. NotClosedUnderRead'
    OBVIOUS
  <2> QED
    BY <2>1, <2>2, <2>3, <2>4, <2>5, <2>6
<1>4. CASE Evict(w)
  BY <1>4 DEF Evict, Pop
<1>5. CASE CloseEvicted(w)
  BY <1>5 DEF CloseEvicted, CloseSession, NoSession, Masters
<1> QED
  BY <1>1, <1>2, <1>3, <1>4, <1>5

\* The main thread keeps the invariant: what it closes nobody reads.
LEMMA MainKeepsInv ==
    ASSUME SessionsInv, MainStep
    PROVE  SessionsInv'
<1> USE LegacyAssumption, IdsAssumption
        DEF SessionsInv, TypeOK, StepInv, LockInv, AddressInv, ConnectionsOwned,
            NotClosedUnderRead, Threads, lockVars, Goto
<1>1. CASE BeginCycle
  BY <1>1 DEF BeginCycle
<1>2. CASE FindStale
  BY <1>2 DEF FindStale
<1>3. CASE ForgetDevice
  BY <1>3 DEF ForgetDevice, Pop
<1>4. CASE CloseForgotten
  BY <1>4 DEF CloseForgotten, CloseSession, NoSession, Masters, LetGo
<1>5. CASE BeginClose
  BY <1>5 DEF BeginClose
<1>6. CASE EndClose
  BY <1>6 DEF EndClose, CloseSession, NoSession, Masters
<1> QED
  BY <1>1, <1>2, <1>3, <1>4, <1>5, <1>6 DEF MainStep

\* The invariant of the session table holds in every reachable state, for any number of
\* polls at once.
THEOREM SessionsInvariance == Spec => []SessionsInv
<1>1. ASSUME SessionsInv, NEW c \in Configs, Reconfigure(c)
      PROVE  SessionsInv'
  BY <1>1 DEF Reconfigure, Configs, lockVars, threadVars, SessionsInv, TypeOK, StepInv, LockInv,
     AddressInv, ConnectionsOwned, NotClosedUnderRead
<1>2. ASSUME SessionsInv, StopRequested \/ UNCHANGED vars
      PROVE  SessionsInv'
  BY <1>2 DEF StopRequested, vars, lockVars, threadVars, SessionsInv, TypeOK, StepInv,
     LockInv, AddressInv, ConnectionsOwned, NotClosedUnderRead
<1>3. SessionsInv /\ [Next]_vars => SessionsInv'
  BY <1>1, <1>2, GetKeepsInv, ConnectKeepsInv, EndKeepsInv, MainKeepsInv DEF Next, Poll
<1> QED
  BY InitInv, <1>3, PTL DEF Spec

\* The adapter keeps its types, and only the step that needs _sessions_lock holds it.
THEOREM SessionsTypeCorrect == Spec => []TypeOK
<1>1. SessionsInv => TypeOK
  BY DEF SessionsInv
<1> QED
  BY <1>1, SessionsInvariance, PTL

\* Every open connection is that of the session in the table, or is about to be closed.
THEOREM NoneLeftBehind == Spec => []ConnectionsOwned
<1>1. SessionsInv => ConnectionsOwned
  BY DEF SessionsInv
<1> QED
  BY <1>1, SessionsInvariance, PTL

\* No connection is closed under a read, however many polls, evictions and closes meet.
THEOREM ReadUndisturbed == Spec => []NotClosedUnderRead
<1>1. SessionsInv => NotClosedUnderRead
  BY DEF SessionsInv
<1> QED
  BY <1>1, SessionsInvariance, PTL

\* A poll reads from the address it was given.
THEOREM RightAddress == Spec => []ReadsItsAddress
<1>1. SessionsInv => ReadsItsAddress
  BY DEF SessionsInv, AddressInv, ReadsItsAddress
<1> QED
  BY <1>1, SessionsInvariance, PTL

\* Who a thread waits for, step by step.
LEMMA WaitsForIs ==
    ASSUME NEW t
    PROVE  /\ pc[t] \in {"get", "evict", "stale"} => WaitsFor(t) = sessions_lock
           /\ pc[t] \in {"replace", "closing"} => WaitsFor(t) = LockOf(sessions)
           /\ pc[t] \in {"read", "close"} => WaitsFor(t) = LockOf(mine[t])
           /\ pc[t] \in {"connect", "reading", "check", "ended"} => WaitsFor(t) = None
           /\ pc[t] = "idle" => WaitsFor(t) \in {None, sessions_lock}
           /\ pc[t] = "idle" /\ t = Main /\ config = Stopped => WaitsFor(t) = sessions_lock
           /\ pc[t] = "idle" /\ config # Stopped => WaitsFor(t) = None
<1>1. CASE pc[t] \in {"get", "evict", "stale"}
  BY <1>1 DEF WaitsFor
<1>2. CASE pc[t] \in {"replace", "closing"}
  BY <1>2 DEF WaitsFor
<1>3. CASE pc[t] \in {"read", "close"}
  BY <1>3 DEF WaitsFor
<1>4. CASE pc[t] \in {"connect", "reading", "check", "ended"}
  BY <1>4 DEF WaitsFor
<1>5. CASE pc[t] = "idle" /\ t = Main /\ config = Stopped
  BY <1>5 DEF WaitsFor
<1>6. CASE pc[t] = "idle" /\ ~(t = Main /\ config = Stopped)
  BY <1>6 DEF WaitsFor
<1> QED
  BY <1>1, <1>2, <1>3, <1>4, <1>5, <1>6

\* Who holds a session's lock reads, and waits for nobody.
LEMMA ReaderWaitsForNobody ==
    ASSUME SessionsInv, NEW i \in Ids \cup {None}, LockOf(i) # None
    PROVE  LockOf(i) \in Workers /\ WaitsFor(LockOf(i)) = None
<1>1. i \in Ids /\ LockOf(i) = session[i].lock
  BY DEF LockOf
<1>2. session[i].lock \in Workers
  BY <1>1 DEF SessionsInv, TypeOK
<1>3. pc[session[i].lock] = "reading"
  BY <1>1, <1>2 DEF SessionsInv, LockInv
<1> QED
  BY <1>1, <1>2, <1>3, WaitsForIs

\* Who holds _sessions_lock waits for nobody, or for one who reads.
LEMMA TableHolderWaitsForReader ==
    ASSUME SessionsInv, sessions_lock # None
    PROVE  WaitsFor(sessions_lock) = None \/ WaitsFor(WaitsFor(sessions_lock)) = None
<1>1. /\ sessions_lock \in Threads /\ sessions \in Ids \cup {None}
      /\ pc[sessions_lock] \in {"replace", "connect", "closing"}
  BY DEF SessionsInv, TypeOK
<1>2. CASE pc[sessions_lock] = "connect"
  BY <1>2, WaitsForIs
<1>3. CASE pc[sessions_lock] \in {"replace", "closing"}
  <2>1. WaitsFor(sessions_lock) = LockOf(sessions)
    BY <1>3, WaitsForIs
  <2> QED
    BY <1>1, <2>1, ReaderWaitsForNobody
<1> QED
  BY <1>1, <1>2, <1>3

\* No circle of threads that wait for one another, for any number of polls: the holder of
\* _sessions_lock waits at most for a read, and a read waits for no lock.
THEOREM NoDeadlock == Spec => []NoCircularWait
<1>1. SessionsInv => NoCircularWait
  <2> SUFFICES ASSUME SessionsInv, NEW t \in Threads, WaitsFor(t) # None
               PROVE  WaitsFor(WaitsFor(t)) = None \/ WaitsFor(WaitsFor(WaitsFor(t))) = None
    BY DEF NoCircularWait
  <2>1. pc[t] \in {"idle", "get", "replace", "connect", "read", "reading", "check",
                   "evict", "close", "stale", "closing", "ended"}
    BY DEF SessionsInv, TypeOK
  <2>2. sessions \in Ids \cup {None} /\ mine[t] \in Ids \cup {None}
    BY DEF SessionsInv, TypeOK
  <2>3. CASE WaitsFor(t) = sessions_lock
    BY <2>3, TableHolderWaitsForReader
  <2>4. CASE WaitsFor(t) = LockOf(sessions)
    BY <2>2, <2>4, ReaderWaitsForNobody
  <2>5. CASE WaitsFor(t) = LockOf(mine[t])
    BY <2>2, <2>5, ReaderWaitsForNobody
  <2> QED
    BY <2>1, <2>3, <2>4, <2>5, WaitsForIs
<1> QED
  BY <1>1, SessionsInvariance, PTL

\* No thread takes a step while it waits for another.
THEOREM WaitersStandStill == Spec => [][OnlyOthersStep]_vars
<1> USE LegacyAssumption, IdsAssumption DEF LockOf
<1>1. ASSUME SessionsInv, NEW w \in Workers, Poll(w) PROVE WaitsFor(w) = None
  <2>1. CASE GetSession(w) \/ Evict(w)
    BY <2>1, WaitsForIs DEF GetSession, Evict, Pop
  <2>2. CASE Replace(w)
    BY <1>1, <2>2, WaitsForIs DEF Replace, CloseSession, SessionsInv, StepInv
  <2>3. CASE Connect(w) \/ ConnectFails(w) \/ EndRead(w) \/ ReadRaises(w) \/ Check(w)
    BY <2>3, WaitsForIs DEF Connect, ConnectFails, EndRead, ReadRaises, Check
  <2>4. CASE BeginRead(w)
    BY <1>1, <2>4, WaitsForIs DEF BeginRead
  <2>5. CASE CloseEvicted(w)
    BY <1>1, <2>5, WaitsForIs DEF CloseEvicted, CloseSession
  <2> QED
    BY <1>1, <2>1, <2>2, <2>3, <2>4, <2>5 DEF Poll
<1>2. ASSUME SessionsInv, MainStep PROVE WaitsFor(Main) = None
  <2>1. CASE BeginCycle \/ FindStale \/ ForgetDevice \/ BeginClose
    BY <2>1, WaitsForIs DEF BeginCycle, FindStale, ForgetDevice, BeginClose, Pop
  <2>2. CASE CloseForgotten
    BY <2>2, WaitsForIs DEF CloseForgotten, CloseSession
  <2>3. CASE EndClose
    BY <2>3, WaitsForIs DEF EndClose, CloseSession
  <2> QED
    BY <1>2, <2>1, <2>2, <2>3 DEF MainStep
<1>3. SessionsInv => OnlyOthersStep
  BY <1>1, <1>2 DEF OnlyOthersStep
<1> QED
  BY <1>3, SessionsInvariance, PTL DEF Spec
=============================================================================
