------------------------ MODULE ConfigState_proofs --------------------------
(***************************************************************************)
(* Proofs about ConfigState for every set of versions and all bounds: the  *)
(* inductive invariant ConfigInv and the safety properties it implies.     *)
(***************************************************************************)
EXTENDS ConfigState, TLAPS

\* Configurations and times keep their types; what is written to disk has a time.
LEMMA ConfigTypesStep ==
    ASSUME TypeOK, DiskInv, [Next]_vars
    PROVE  ConfigTypes'
<1> USE ConfigStateAssumption
        DEF stateVars, threadVars, historyVars, TypeOK, ConfigTypes, DiskInv, Reply, Time
<1>1. ASSUME NEW v \in Versions, BackendChanges(v)
      PROVE  ConfigTypes'
  BY <1>1 DEF BackendChanges
<1>2. CASE OperatorAsks
  BY <1>2 DEF OperatorAsks
<1>3. CASE BackendResets
  BY <1>3 DEF BackendResets
<1>4. CASE Tick
  BY <1>4 DEF Tick
<1>5. CASE FetchConfig
  BY <1>5 DEF FetchConfig
<1>6. CASE FetchFails
  BY <1>6 DEF FetchFails
<1>7. CASE Update
  BY <1>7 DEF Update, PendingAfter, IsChanged
<1>8. CASE Persist
  BY <1>8 DEF Persist
<1>9. CASE PersistFails
  BY <1>9 DEF PersistFails
<1>10. CASE PersistRaises
  BY <1>10 DEF PersistRaises
<1>11. CASE RefreshEnds
  BY <1>11 DEF RefreshEnds
<1>12. CASE RefreshFails
  BY <1>12 DEF RefreshFails, CountedTo
<1>13. CASE TakeRefreshRequest
  BY <1>13 DEF TakeRefreshRequest, CountedTo
<1>14. CASE Restart
  BY <1>14 DEF Restart, CachedAt
<1>15. CASE UNCHANGED vars
  BY <1>15 DEF vars
<1> QED
  BY <1>1, <1>2, <1>3, <1>4, <1>5, <1>6, <1>7, <1>8, <1>9, <1>10,
     <1>11, <1>12, <1>13, <1>14, <1>15
     DEF Next, Refresh

\* The flags keep their types, and the refresh thread stays in its loop.
LEMMA FlagTypesStep ==
    ASSUME TypeOK, [Next]_vars
    PROVE  FlagTypes'
<1> USE ConfigStateAssumption
        DEF stateVars, threadVars, historyVars, TypeOK, FlagTypes, Pc
<1>1. ASSUME NEW v \in Versions, BackendChanges(v)
      PROVE  FlagTypes'
  BY <1>1 DEF BackendChanges
<1>2. CASE OperatorAsks
  BY <1>2 DEF OperatorAsks
<1>3. CASE BackendResets
  BY <1>3 DEF BackendResets
<1>4. CASE Tick
  BY <1>4 DEF Tick
<1>5. CASE FetchConfig
  BY <1>5 DEF FetchConfig
<1>6. CASE FetchFails
  BY <1>6 DEF FetchFails
<1>7. CASE Update
  BY <1>7 DEF Update, PendingAfter, IsChanged
<1>8. CASE Persist
  BY <1>8 DEF Persist
<1>9. CASE PersistFails
  BY <1>9 DEF PersistFails
<1>10. CASE PersistRaises
  BY <1>10 DEF PersistRaises
<1>11. CASE RefreshEnds
  BY <1>11 DEF RefreshEnds
<1>12. CASE RefreshFails
  BY <1>12 DEF RefreshFails, CountedTo
<1>13. CASE TakeRefreshRequest
  BY <1>13 DEF TakeRefreshRequest, CountedTo
<1>14. CASE Restart
  BY <1>14 DEF Restart, CachedAt
<1>15. CASE UNCHANGED vars
  BY <1>15 DEF vars
<1> QED
  BY <1>1, <1>2, <1>3, <1>4, <1>5, <1>6, <1>7, <1>8, <1>9, <1>10,
     <1>11, <1>12, <1>13, <1>14, <1>15
     DEF Next, Refresh

\* The counters stay within their bounds.
LEMMA CounterTypesStep ==
    ASSUME TypeOK, [Next]_vars
    PROVE  CounterTypes'
<1> USE ConfigStateAssumption
        DEF stateVars, threadVars, historyVars, TypeOK, CounterTypes, ConfigTypes, Reply
<1>1. ASSUME NEW v \in Versions, BackendChanges(v)
      PROVE  CounterTypes'
  BY <1>1 DEF BackendChanges
<1>2. CASE OperatorAsks
  BY <1>2 DEF OperatorAsks
<1>3. CASE BackendResets
  BY <1>3 DEF BackendResets
<1>4. CASE Tick
  BY <1>4 DEF Tick
<1>5. CASE FetchConfig
  BY <1>5 DEF FetchConfig
<1>6. CASE FetchFails
  BY <1>6 DEF FetchFails
<1>7. CASE Update
  BY <1>7 DEF Update, PendingAfter, IsChanged
<1>8. CASE Persist
  BY <1>8 DEF Persist
<1>9. CASE PersistFails
  BY <1>9 DEF PersistFails
<1>10. CASE PersistRaises
  BY <1>10 DEF PersistRaises
<1>11. CASE RefreshEnds
  BY <1>11 DEF RefreshEnds
<1>12. CASE RefreshFails
  BY <1>12 DEF RefreshFails, CountedTo
<1>13. CASE TakeRefreshRequest
  BY <1>13 DEF TakeRefreshRequest, CountedTo
<1>14. CASE Restart
  BY <1>14 DEF Restart, CachedAt
<1>15. CASE UNCHANGED vars
  BY <1>15 DEF vars
<1> QED
  BY <1>1, <1>2, <1>3, <1>4, <1>5, <1>6, <1>7, <1>8, <1>9, <1>10,
     <1>11, <1>12, <1>13, <1>14, <1>15
     DEF Next, Refresh

\* While the counter only grows, no step forgets a request.
LEMMA NonceStep ==
    ASSUME TypeOK, NonceInv, [Next]_vars
    PROVE  NonceInv'
<1> USE ConfigStateAssumption
        DEF stateVars, threadVars, historyVars, TypeOK,
        ConfigTypes, FlagTypes, CounterTypes, NonceInv, RequestKept, Reply
<1>1. ASSUME NEW v \in Versions, BackendChanges(v)
      PROVE  NonceInv'
  BY <1>1 DEF BackendChanges
<1>2. CASE OperatorAsks
  BY <1>2 DEF OperatorAsks
<1>3. CASE BackendResets
  BY <1>3 DEF BackendResets
<1>4. CASE Tick
  BY <1>4 DEF Tick
<1>5. CASE FetchConfig
  BY <1>5 DEF FetchConfig
<1>6. CASE FetchFails
  BY <1>6 DEF FetchFails
<1>7. CASE Update
  <2>1. /\ refresh_nonce' = reply.nonce
        /\ pc' # "update"
        /\ UNCHANGED <<backend, served, sent, was_reset>>
    BY <1>7 DEF Update
  <2>2. CASE reply.nonce > refresh_nonce
    <3>1. refresh_pending'
      BY <1>7, <2>2 DEF Update, PendingAfter
    <3> QED
      BY <1>7, <2>1, <2>2, <3>1 DEF Update
  <2>3. CASE ~(reply.nonce > refresh_nonce)
    <3>1. refresh_pending' <=> refresh_pending
      BY <1>7, <2>3, Zenon DEF Update, PendingAfter
    <3> QED
      BY <1>7, <2>1, <2>3, <3>1 DEF Update
  <2> QED
    BY <2>2, <2>3
<1>8. CASE Persist
  BY <1>8 DEF Persist
<1>9. CASE PersistFails
  BY <1>9 DEF PersistFails
<1>10. CASE PersistRaises
  BY <1>10 DEF PersistRaises
<1>11. CASE RefreshEnds
  BY <1>11 DEF RefreshEnds
<1>12. CASE RefreshFails
  BY <1>12 DEF RefreshFails, CountedTo
<1>13. CASE TakeRefreshRequest
  BY <1>13 DEF TakeRefreshRequest, CountedTo
<1>14. CASE Restart
  BY <1>14 DEF Restart, CachedAt
<1>15. CASE UNCHANGED vars
  BY <1>15 DEF vars
<1> QED
  BY <1>1, <1>2, <1>3, <1>4, <1>5, <1>6, <1>7, <1>8, <1>9, <1>10,
     <1>11, <1>12, <1>13, <1>14, <1>15
     DEF Next, Refresh

\* The disk follows the configuration in force through every step and restart.
LEMMA DiskStep ==
    ASSUME TypeOK, DiskInv, [Next]_vars
    PROVE  DiskInv'
<1> USE ConfigStateAssumption
        DEF stateVars, threadVars, historyVars, TypeOK,
        ConfigTypes, FlagTypes, CounterTypes, DiskInv, Reply, Time
<1>1. ASSUME NEW v \in Versions, BackendChanges(v)
      PROVE  DiskInv'
  BY <1>1 DEF BackendChanges
<1>2. CASE OperatorAsks
  BY <1>2 DEF OperatorAsks
<1>3. CASE BackendResets
  BY <1>3 DEF BackendResets
<1>4. CASE Tick
  BY <1>4 DEF Tick
<1>5. CASE FetchConfig
  BY <1>5 DEF FetchConfig
<1>6. CASE FetchFails
  BY <1>6 DEF FetchFails
<1>7. CASE Update
  BY <1>7 DEF Update, PendingAfter, IsChanged
<1>8. CASE Persist
  BY <1>8 DEF Persist
<1>9. CASE PersistFails
  BY <1>9 DEF PersistFails
<1>10. CASE PersistRaises
  BY <1>10 DEF PersistRaises
<1>11. CASE RefreshEnds
  BY <1>11 DEF RefreshEnds
<1>12. CASE RefreshFails
  BY <1>12 DEF RefreshFails, CountedTo
<1>13. CASE TakeRefreshRequest
  BY <1>13 DEF TakeRefreshRequest, CountedTo
<1>14. CASE Restart
  BY <1>14 DEF Restart, CachedAt
<1>15. CASE UNCHANGED vars
  BY <1>15 DEF vars
<1> QED
  BY <1>1, <1>2, <1>3, <1>4, <1>5, <1>6, <1>7, <1>8, <1>9, <1>10,
     <1>11, <1>12, <1>13, <1>14, <1>15
     DEF Next, Refresh

\* No step makes the configuration look fresher than its last refresh.
LEMMA AgeStep ==
    ASSUME TypeOK, DiskInv, AgeInv, [Next]_vars
    PROVE  AgeInv'
<1> USE ConfigStateAssumption
        DEF stateVars, threadVars, historyVars, TypeOK,
        ConfigTypes, FlagTypes, CounterTypes, DiskInv, AgeInv, AgeNeverUnderstated, Time
<1>1. ASSUME NEW v \in Versions, BackendChanges(v)
      PROVE  AgeInv'
  BY <1>1 DEF BackendChanges
<1>2. CASE OperatorAsks
  BY <1>2 DEF OperatorAsks
<1>3. CASE BackendResets
  BY <1>3 DEF BackendResets
<1>4. CASE Tick
  BY <1>4 DEF Tick
<1>5. CASE FetchConfig
  BY <1>5 DEF FetchConfig
<1>6. CASE FetchFails
  BY <1>6 DEF FetchFails
<1>7. CASE Update
  BY <1>7 DEF Update, PendingAfter, IsChanged
<1>8. CASE Persist
  BY <1>8 DEF Persist
<1>9. CASE PersistFails
  BY <1>9 DEF PersistFails
<1>10. CASE PersistRaises
  BY <1>10 DEF PersistRaises
<1>11. CASE RefreshEnds
  BY <1>11 DEF RefreshEnds
<1>12. CASE RefreshFails
  BY <1>12 DEF RefreshFails, CountedTo
<1>13. CASE TakeRefreshRequest
  BY <1>13 DEF TakeRefreshRequest, CountedTo
<1>14. CASE Restart
  BY <1>14 DEF Restart, CachedAt
<1>15. CASE UNCHANGED vars
  BY <1>15 DEF vars
<1> QED
  BY <1>1, <1>2, <1>3, <1>4, <1>5, <1>6, <1>7, <1>8, <1>9, <1>10,
     <1>11, <1>12, <1>13, <1>14, <1>15
     DEF Next, Refresh

\* The refresh error and the backoff stay in step.
LEMMA ErrorStep ==
    ASSUME TypeOK, ErrorInv, [Next]_vars
    PROVE  ErrorInv'
<1> USE ConfigStateAssumption
        DEF stateVars, threadVars, historyVars, TypeOK,
        ConfigTypes, FlagTypes, CounterTypes, ErrorInv, Pc
<1>1. ASSUME NEW v \in Versions, BackendChanges(v)
      PROVE  ErrorInv'
  BY <1>1 DEF BackendChanges
<1>2. CASE OperatorAsks
  BY <1>2 DEF OperatorAsks
<1>3. CASE BackendResets
  BY <1>3 DEF BackendResets
<1>4. CASE Tick
  BY <1>4 DEF Tick
<1>5. CASE FetchConfig
  BY <1>5 DEF FetchConfig
<1>6. CASE FetchFails
  BY <1>6 DEF FetchFails
<1>7. CASE Update
  BY <1>7 DEF Update, PendingAfter, IsChanged
<1>8. CASE Persist
  BY <1>8 DEF Persist
<1>9. CASE PersistFails
  BY <1>9 DEF PersistFails
<1>10. CASE PersistRaises
  BY <1>10 DEF PersistRaises
<1>11. CASE RefreshEnds
  BY <1>11 DEF RefreshEnds
<1>12. CASE RefreshFails
  BY <1>12 DEF RefreshFails, CountedTo
<1>13. CASE TakeRefreshRequest
  BY <1>13 DEF TakeRefreshRequest, CountedTo
<1>14. CASE Restart
  BY <1>14 DEF Restart, CachedAt
<1>15. CASE UNCHANGED vars
  BY <1>15 DEF vars
<1> QED
  BY <1>1, <1>2, <1>3, <1>4, <1>5, <1>6, <1>7, <1>8, <1>9, <1>10,
     <1>11, <1>12, <1>13, <1>14, <1>15
     DEF Next, Refresh

\* A gateway that starts for the first time satisfies the invariant.
LEMMA InitInv == Init => ConfigInv
<1> USE ConfigStateAssumption DEF Init
<1>1. Init => backend \in Reply /\ reply \in Reply
  BY DEF Reply
<1>2. Init => TypeOK
  <2>1. Init => ConfigTypes
    BY <1>1 DEF ConfigTypes, Time
  <2>2. Init => FlagTypes
    BY Zenon DEF FlagTypes, Pc
  <2>3. Init => CounterTypes
    BY DEF CounterTypes
  <2> QED
    BY <2>1, <2>2, <2>3 DEF TypeOK
<1>3. Init => NonceInv /\ DiskInv /\ AgeInv /\ ErrorInv
  BY DEF NonceInv, RequestKept, DiskInv, AgeInv, AgeNeverUnderstated, ErrorInv
<1> QED
  BY <1>2, <1>3 DEF ConfigInv

\* ConfigInv holds throughout, whenever the process is restarted and whichever
\* writes of the disk cache fail.
THEOREM Invariance == Spec => []ConfigInv
<1>1. ConfigInv /\ [Next]_vars => ConfigInv'
  BY ConfigTypesStep, FlagTypesStep, CounterTypesStep, NonceStep, DiskStep, AgeStep,
     ErrorStep DEF ConfigInv, TypeOK
<1> QED
  BY InitInv, <1>1, PTL DEF Spec

\* The configuration state keeps its types, and the refresh thread never ends.
THEOREM ConfigTypeCorrect == Spec => []TypeOK
<1>1. ConfigInv => TypeOK
  BY DEF ConfigInv
<1> QED
  BY Invariance, <1>1, PTL

\* A restart between two refreshes continues with the configuration in force,
\* unless writing it failed.
THEOREM RestartsFromCache == Spec => []DiskFollows
<1>1. ConfigInv => DiskFollows
  BY DEF ConfigInv, DiskInv, DiskFollows
<1> QED
  BY Invariance, <1>1, PTL

\* The age /health reports is never less than the time since the last refresh.
THEOREM AgeSound == Spec => []AgeNeverUnderstated
<1>1. ConfigInv => AgeNeverUnderstated
  BY DEF ConfigInv, AgeInv
<1> QED
  BY Invariance, <1>1, PTL

\* The error /health shows and the backoff describe the same last attempt.
THEOREM ErrorSound == Spec => []ErrorMatchesBackoff
<1>1. ConfigInv => ErrorMatchesBackoff
  BY DEF ConfigInv, ErrorInv, ErrorMatchesBackoff
<1> QED
  BY Invariance, <1>1, PTL

\* An operator's request the gateway has seen is served or pending.
THEOREM RequestNotForgotten == Spec => []RequestKept
<1>1. ConfigInv => RequestKept
  BY DEF ConfigInv, NonceInv, RequestKept
<1> QED
  BY Invariance, <1>1, PTL

\* A request that was served is served again only by the first poll of a process, that
\* is after a restart.
THEOREM NoneServedTwice == Spec => ServedOnce
<1>1. ConfigInv /\ [Next]_vars => [TakeRefreshRequest => NewRequest \/ sent = 0]_vars
  <2> SUFFICES ASSUME ConfigInv, TakeRefreshRequest, ~was_reset, sent # 0
               PROVE  refresh_nonce > served
    BY DEF NewRequest
  <2>1. refresh_pending /\ sent > 0
    BY DEF TakeRefreshRequest, ConfigInv, TypeOK, CounterTypes
  <2>2. served < refresh_nonce
    BY <2>1 DEF ConfigInv, NonceInv
  <2> QED
    BY <2>2 DEF ConfigInv, TypeOK, CounterTypes
<1> QED
  BY Invariance, <1>1, PTL DEF Spec, ServedOnce
=============================================================================
