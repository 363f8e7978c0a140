------------------------ MODULE DeviceCache_proofs --------------------------
(***************************************************************************)
(* Proofs about DeviceCache for every set of points and values: the        *)
(* inductive invariant CacheInv and the safety properties it implies.      *)
(***************************************************************************)
EXTENDS DeviceCache, TLAPS

\* The cache's methods keep its types.
LEMMA CacheTypesStep ==
    ASSUME CacheTypes, [Next]_vars
    PROVE  CacheTypes'
<1> USE DeviceCacheAssumption DEF cacheVars, readVars, historyVars, CacheTypes,
        Known
<1>1. CASE OnOpenConnected
  BY <1>1 DEF OnOpenConnected, set_connected
<1>2. CASE OnOpenRecover
  BY <1>2 DEF OnOpenRecover, begin_recovery, Cancels
<1>3. CASE OnClose
  BY <1>3 DEF OnClose, set_connected, Cancels
<1>4. ASSUME NEW q \in Points, NEW v \in Values, Process(q, v)
      PROVE  CacheTypes'
  BY <1>4 DEF Process, set
<1>5. CASE DataAges
  BY <1>5 DEF DataAges
<1>6. CASE GraceExpires
  BY <1>6 DEF GraceExpires
<1>7. CASE StaleEdge
  BY <1>7 DEF StaleEdge, begin_recovery
<1>8. CASE FailRecovery
  BY <1>8 DEF FailRecovery, fail_recovery
<1>9. CASE ConsumeRecovery
  BY <1>9 DEF ConsumeRecovery
<1>10. CASE MarkAllDirty
  BY <1>10 DEF MarkAllDirty, mark_all_dirty
<1>11. ASSUME NEW q \in Points, Get(q)
      PROVE  CacheTypes'
  BY <1>11 DEF Get
<1>12. CASE ClearDirty
  BY <1>12 DEF ClearDirty, clear_dirty
<1>13. ASSUME NEW kept \in SUBSET Points, Publish(kept)
      PROVE  CacheTypes'
  BY <1>13 DEF Publish, Sent
<1>14. CASE \/ IsConnected \/ LastUpdateAt \/ State \/ NoStaleEdge
           \/ RecoveryAge \/ Announce \/ NothingToConsume \/ IsDirty
           \/ Return
  BY <1>14 DEF IsConnected, LastUpdateAt, State, NoStaleEdge, RecoveryAge, Announce,
      NothingToConsume, IsDirty, Return
<1>15. CASE UNCHANGED vars
  BY <1>15 DEF vars
<1> QED
  BY <1>1, <1>2, <1>3, <1>4, <1>5, <1>6, <1>7, <1>8, <1>9, <1>10, <1>11, <1>12,
     <1>13, <1>14, <1>15
     DEF Next, Callback, Poll

\* The steps of read_device keep the types of its locals.
LEMMA ReadTypesStep ==
    ASSUME TypeOK, [Next]_vars
    PROVE  ReadTypes'
<1> USE DeviceCacheAssumption DEF cacheVars, readVars, historyVars, TypeOK,
        CacheTypes, ReadTypes, Pc
<1>1. CASE OnOpenConnected
  BY <1>1 DEF OnOpenConnected, set_connected
<1>2. CASE OnOpenRecover
  BY <1>2 DEF OnOpenRecover, begin_recovery, Cancels
<1>3. ASSUME NEW q \in Points, NEW v \in Values, Process(q, v)
      PROVE  ReadTypes'
  BY <1>3 DEF Process, set
<1>4. CASE IsConnected
  BY <1>4 DEF IsConnected
<1>5. CASE LastUpdateAt
  BY <1>5 DEF LastUpdateAt
<1>6. CASE State
  BY <1>6 DEF State
<1>7. CASE StaleEdge
  BY <1>7 DEF StaleEdge, begin_recovery
<1>8. CASE NoStaleEdge
  BY <1>8 DEF NoStaleEdge
<1>9. CASE RecoveryAge
  BY <1>9 DEF RecoveryAge
<1>10. CASE FailRecovery
  BY <1>10 DEF FailRecovery, fail_recovery
<1>11. CASE Announce
  BY <1>11 DEF Announce
<1>12. CASE ConsumeRecovery
  BY <1>12 DEF ConsumeRecovery
<1>13. CASE NothingToConsume
  BY <1>13 DEF NothingToConsume
<1>14. CASE MarkAllDirty
  BY <1>14 DEF MarkAllDirty, mark_all_dirty
<1>15. ASSUME NEW q \in Points, Get(q)
      PROVE  ReadTypes'
  BY <1>15 DEF Get
<1>16. CASE IsDirty
  BY <1>16 DEF IsDirty
<1>17. CASE ClearDirty
  BY <1>17 DEF ClearDirty, clear_dirty
<1>18. CASE Return
  BY <1>18 DEF Return
<1>19. ASSUME NEW kept \in SUBSET Points, Publish(kept)
      PROVE  ReadTypes'
  BY <1>19 DEF Publish, Sent
<1>20. CASE \/ OnClose \/ DataAges \/ GraceExpires
  BY <1>20 DEF OnClose, set_connected, DataAges, GraceExpires
<1>21. CASE UNCHANGED vars
  BY <1>21 DEF vars
<1> QED
  BY <1>1, <1>2, <1>3, <1>4, <1>5, <1>6, <1>7, <1>8, <1>9, <1>10, <1>11, <1>12,
     <1>13, <1>14, <1>15, <1>16, <1>17, <1>18, <1>19, <1>20, <1>21
     DEF Next, Callback, Poll

\* The readings and what is published of them keep their types.
LEMMA PublishTypesStep ==
    ASSUME TypeOK, BranchInv, [Next]_vars
    PROVE  PublishTypes'
<1> USE DeviceCacheAssumption DEF cacheVars, readVars, historyVars, TypeOK,
        PublishTypes, BranchInv
<1>1. CASE OnOpenRecover
  BY <1>1 DEF OnOpenRecover, begin_recovery, Cancels
<1>2. CASE OnClose
  BY <1>2 DEF OnClose, set_connected, Cancels
<1>3. ASSUME NEW q \in Points, NEW v \in Values, Process(q, v)
      PROVE  PublishTypes'
  BY <1>3 DEF Process, set
<1>4. CASE Announce
  BY <1>4 DEF Announce
<1>5. CASE ConsumeRecovery
  BY <1>5 DEF ConsumeRecovery
<1>6. CASE NothingToConsume
  BY <1>6 DEF NothingToConsume
<1>7. CASE MarkAllDirty
  BY <1>7 DEF MarkAllDirty, mark_all_dirty
<1>8. ASSUME NEW q \in Points, Get(q)
      PROVE  PublishTypes'
  BY <1>8 DEF Get
<1>9. CASE IsDirty
  BY <1>9 DEF IsDirty
<1>10. CASE ClearDirty
  BY <1>10 DEF ClearDirty, clear_dirty
<1>11. ASSUME NEW kept \in SUBSET Points, Publish(kept)
      PROVE  PublishTypes'
  BY <1>11 DEF Publish, Sent
<1>12. CASE \/ OnOpenConnected \/ DataAges \/ GraceExpires \/ IsConnected
           \/ LastUpdateAt \/ State \/ StaleEdge \/ NoStaleEdge
           \/ RecoveryAge \/ FailRecovery \/ Return
  BY <1>12 DEF OnOpenConnected, set_connected, DataAges, GraceExpires, IsConnected,
      LastUpdateAt, State, StaleEdge, begin_recovery, NoStaleEdge, RecoveryAge,
      FailRecovery, fail_recovery, Return
<1>13. CASE UNCHANGED vars
  BY <1>13 DEF vars
<1> QED
  BY <1>1, <1>2, <1>3, <1>4, <1>5, <1>6, <1>7, <1>8, <1>9, <1>10, <1>11, <1>12,
     <1>13
     DEF Next, Callback, Poll

\* No step leaves a confirmed recovery behind on a device that is not online, or
\* an online device on a closed link.
LEMMA RecoveryStep ==
    ASSUME TypeOK, RecoveryConfirmed, [Next]_vars
    PROVE  RecoveryConfirmed'
<1> USE DeviceCacheAssumption DEF cacheVars, readVars, historyVars, TypeOK,
        CacheTypes, ReadTypes, PublishTypes, RecoveryConfirmed
<1>1. CASE OnOpenConnected
  BY <1>1 DEF OnOpenConnected, set_connected
<1>2. CASE OnOpenRecover
  BY <1>2 DEF OnOpenRecover, begin_recovery, Cancels
<1>3. CASE OnClose
  BY <1>3 DEF OnClose, set_connected, Cancels
<1>4. ASSUME NEW q \in Points, NEW v \in Values, Process(q, v)
      PROVE  RecoveryConfirmed'
  BY <1>4 DEF Process, set
<1>5. CASE StaleEdge
  BY <1>5 DEF StaleEdge, begin_recovery
<1>6. CASE FailRecovery
  BY <1>6 DEF FailRecovery, fail_recovery
<1>7. CASE ConsumeRecovery
  BY <1>7 DEF ConsumeRecovery
<1>8. CASE MarkAllDirty
  BY <1>8 DEF MarkAllDirty, mark_all_dirty
<1>9. ASSUME NEW q \in Points, Get(q)
      PROVE  RecoveryConfirmed'
  BY <1>9 DEF Get
<1>10. CASE ClearDirty
  BY <1>10 DEF ClearDirty, clear_dirty
<1>11. ASSUME NEW kept \in SUBSET Points, Publish(kept)
      PROVE  RecoveryConfirmed'
  BY <1>11 DEF Publish, Sent
<1>12. CASE \/ DataAges \/ GraceExpires \/ IsConnected \/ LastUpdateAt
           \/ State \/ NoStaleEdge \/ RecoveryAge \/ Announce
           \/ NothingToConsume \/ IsDirty \/ Return
  BY <1>12 DEF DataAges, GraceExpires, IsConnected, LastUpdateAt, State,
      NoStaleEdge, RecoveryAge, Announce, NothingToConsume, IsDirty, Return
<1>13. CASE UNCHANGED vars
  BY <1>13 DEF vars
<1> QED
  BY <1>1, <1>2, <1>3, <1>4, <1>5, <1>6, <1>7, <1>8, <1>9, <1>10, <1>11, <1>12,
     <1>13
     DEF Next, Callback, Poll

\* read_device stays in the branch of the state it saw.
LEMMA BranchStep ==
    ASSUME TypeOK, BranchInv, [Next]_vars
    PROVE  BranchInv'
<1> USE DeviceCacheAssumption DEF cacheVars, readVars, historyVars, TypeOK,
        CacheTypes, ReadTypes, PublishTypes, BranchInv, Known
<1>1. CASE OnOpenConnected
  BY <1>1 DEF OnOpenConnected, set_connected
<1>2. ASSUME NEW q \in Points, NEW v \in Values, Process(q, v)
      PROVE  BranchInv'
  BY <1>2 DEF Process, set
<1>3. CASE IsConnected
  BY <1>3 DEF IsConnected
<1>4. CASE LastUpdateAt
  BY <1>4 DEF LastUpdateAt
<1>5. CASE State
  BY <1>5 DEF State
<1>6. CASE StaleEdge
  BY <1>6 DEF StaleEdge, begin_recovery
<1>7. CASE NoStaleEdge
  BY <1>7 DEF NoStaleEdge
<1>8. CASE RecoveryAge
  BY <1>8 DEF RecoveryAge
<1>9. CASE FailRecovery
  BY <1>9 DEF FailRecovery, fail_recovery
<1>10. CASE Announce
  BY <1>10 DEF Announce
<1>11. CASE ConsumeRecovery
  BY <1>11 DEF ConsumeRecovery
<1>12. CASE NothingToConsume
  BY <1>12 DEF NothingToConsume
<1>13. CASE MarkAllDirty
  BY <1>13 DEF MarkAllDirty, mark_all_dirty
<1>14. ASSUME NEW q \in Points, Get(q)
      PROVE  BranchInv'
  BY <1>14 DEF Get
<1>15. CASE IsDirty
  BY <1>15 DEF IsDirty
<1>16. CASE ClearDirty
  BY <1>16 DEF ClearDirty, clear_dirty
<1>17. CASE Return
  BY <1>17 DEF Return
<1>18. ASSUME NEW kept \in SUBSET Points, Publish(kept)
      PROVE  BranchInv'
  BY <1>18 DEF Publish, Sent
<1>19. CASE \/ OnOpenRecover \/ OnClose \/ DataAges \/ GraceExpires
  BY <1>19 DEF OnOpenRecover, begin_recovery, OnClose, set_connected, DataAges,
      GraceExpires
<1>20. CASE UNCHANGED vars
  BY <1>20 DEF vars
<1> QED
  BY <1>1, <1>2, <1>3, <1>4, <1>5, <1>6, <1>7, <1>8, <1>9, <1>10, <1>11, <1>12,
     <1>13, <1>14, <1>15, <1>16, <1>17, <1>18, <1>19, <1>20
     DEF Next, Callback, Poll

\* No step but clear_dirty takes the mark of a point that SCADA has still to hear of.
LEMMA DirtyStep ==
    ASSUME TypeOK, BranchInv, DirtyInv, [Next]_vars
    PROVE  DirtyInv'
<1> USE DeviceCacheAssumption DEF cacheVars, readVars, historyVars, TypeOK,
        CacheTypes, ReadTypes, PublishTypes, BranchInv, DirtyInv, Known,
        NotOnlineBranch
<1>1. CASE OnOpenConnected
  BY <1>1 DEF OnOpenConnected, set_connected
<1>2. CASE OnOpenRecover
  BY <1>2 DEF OnOpenRecover, begin_recovery, Cancels
<1>3. CASE OnClose
  BY <1>3 DEF OnClose, set_connected, Cancels
<1>4. ASSUME NEW q \in Points, NEW v \in Values, Process(q, v)
      PROVE  DirtyInv'
  BY <1>4 DEF Process, set
<1>5. CASE DataAges
  BY <1>5 DEF DataAges
<1>6. CASE GraceExpires
  BY <1>6 DEF GraceExpires
<1>7. CASE IsConnected
  BY <1>7 DEF IsConnected
<1>8. CASE LastUpdateAt
  BY <1>8 DEF LastUpdateAt
<1>9. CASE State
  BY <1>9 DEF State
<1>10. CASE StaleEdge
  BY <1>10 DEF StaleEdge, begin_recovery
<1>11. CASE NoStaleEdge
  BY <1>11 DEF NoStaleEdge
<1>12. CASE RecoveryAge
  BY <1>12 DEF RecoveryAge
<1>13. CASE FailRecovery
  BY <1>13 DEF FailRecovery, fail_recovery
<1>14. CASE Announce
  BY <1>14 DEF Announce
<1>15. CASE ConsumeRecovery
  BY <1>15 DEF ConsumeRecovery
<1>16. CASE NothingToConsume
  BY <1>16 DEF NothingToConsume
<1>17. CASE MarkAllDirty
  BY <1>17 DEF MarkAllDirty, mark_all_dirty
<1>18. ASSUME NEW q \in Points, Get(q)
      PROVE  DirtyInv'
  BY <1>18 DEF Get
<1>19. CASE IsDirty
  BY <1>19 DEF IsDirty
<1>20. CASE ClearDirty
  BY <1>20 DEF ClearDirty, clear_dirty
<1>21. CASE Return
  BY <1>21 DEF Return
<1>22. ASSUME NEW kept \in SUBSET Points, Publish(kept)
      PROVE  DirtyInv'
  BY <1>22 DEF Publish, Sent
<1>23. CASE UNCHANGED vars
  BY <1>23 DEF vars
<1> QED
  BY <1>1, <1>2, <1>3, <1>4, <1>5, <1>6, <1>7, <1>8, <1>9, <1>10, <1>11, <1>12,
     <1>13, <1>14, <1>15, <1>16, <1>17, <1>18, <1>19, <1>20, <1>21, <1>22, <1>23
     DEF Next, Callback, Poll

\* A value SCADA was not told of stays accounted for through every step.
LEMMA CurrentStep ==
    ASSUME TypeOK, BranchInv, DirtyInv, OnlineIsCurrent, [Next]_vars
    PROVE  OnlineIsCurrent'
<1> USE DeviceCacheAssumption DEF cacheVars, readVars, historyVars, TypeOK,
        CacheTypes, ReadTypes, PublishTypes, BranchInv, DirtyInv, OnlineIsCurrent,
        InFlight, Known, NotOnlineBranch
<1>1. CASE OnOpenConnected
  BY <1>1 DEF OnOpenConnected, set_connected
<1>2. CASE OnOpenRecover
  BY <1>2 DEF OnOpenRecover, begin_recovery, Cancels
<1>3. CASE OnClose
  BY <1>3 DEF OnClose, set_connected, Cancels
<1>4. ASSUME NEW q \in Points, NEW v \in Values, Process(q, v)
      PROVE  OnlineIsCurrent'
  BY <1>4 DEF Process, set
<1>5. CASE DataAges
  BY <1>5 DEF DataAges
<1>6. CASE GraceExpires
  BY <1>6 DEF GraceExpires
<1>7. CASE IsConnected
  BY <1>7 DEF IsConnected
<1>8. CASE LastUpdateAt
  BY <1>8 DEF LastUpdateAt
<1>9. CASE State
  BY <1>9 DEF State
<1>10. CASE StaleEdge
  BY <1>10 DEF StaleEdge, begin_recovery
<1>11. CASE NoStaleEdge
  BY <1>11 DEF NoStaleEdge
<1>12. CASE RecoveryAge
  BY <1>12 DEF RecoveryAge
<1>13. CASE FailRecovery
  BY <1>13 DEF FailRecovery, fail_recovery
<1>14. CASE Announce
  BY <1>14 DEF Announce
<1>15. CASE ConsumeRecovery
  BY <1>15 DEF ConsumeRecovery
<1>16. CASE NothingToConsume
  BY <1>16 DEF NothingToConsume
<1>17. CASE MarkAllDirty
  BY <1>17 DEF MarkAllDirty, mark_all_dirty
<1>18. ASSUME NEW q \in Points, Get(q)
      PROVE  OnlineIsCurrent'
  BY <1>18 DEF Get
<1>19. CASE IsDirty
  BY <1>19 DEF IsDirty
<1>20. CASE ClearDirty
  BY <1>20 DEF ClearDirty, clear_dirty
<1>21. CASE Return
  BY <1>21 DEF Return
<1>22. ASSUME NEW kept \in SUBSET Points, Publish(kept)
      PROVE  OnlineIsCurrent'
  BY <1>22 DEF Publish, Sent
<1>23. CASE UNCHANGED vars
  BY <1>23 DEF vars
<1> QED
  BY <1>1, <1>2, <1>3, <1>4, <1>5, <1>6, <1>7, <1>8, <1>9, <1>10, <1>11, <1>12,
     <1>13, <1>14, <1>15, <1>16, <1>17, <1>18, <1>19, <1>20, <1>21, <1>22, <1>23
     DEF Next, Callback, Poll

\* The announcement flag tells what SCADA was told, through every step.
LEMMA AnnounceStep ==
    ASSUME TypeOK, RecoveryConfirmed, BranchInv, AnnounceInv, [Next]_vars
    PROVE  AnnounceInv'
<1> USE DeviceCacheAssumption DEF cacheVars, readVars, historyVars, TypeOK,
        CacheTypes, ReadTypes, PublishTypes, RecoveryConfirmed, BranchInv,
        AnnounceInv, NotOnlineBranch
<1>1. CASE OnOpenConnected
  BY <1>1 DEF OnOpenConnected, set_connected
<1>2. CASE OnOpenRecover
  BY <1>2 DEF OnOpenRecover, begin_recovery, Cancels
<1>3. CASE OnClose
  BY <1>3 DEF OnClose, set_connected, Cancels
<1>4. ASSUME NEW q \in Points, NEW v \in Values, Process(q, v)
      PROVE  AnnounceInv'
  BY <1>4 DEF Process, set
<1>5. CASE DataAges
  BY <1>5 DEF DataAges
<1>6. CASE GraceExpires
  BY <1>6 DEF GraceExpires
<1>7. CASE IsConnected
  BY <1>7 DEF IsConnected
<1>8. CASE LastUpdateAt
  BY <1>8 DEF LastUpdateAt
<1>9. CASE State
  BY <1>9 DEF State
<1>10. CASE StaleEdge
  BY <1>10 DEF StaleEdge, begin_recovery
<1>11. CASE NoStaleEdge
  BY <1>11 DEF NoStaleEdge
<1>12. CASE RecoveryAge
  BY <1>12 DEF RecoveryAge
<1>13. CASE FailRecovery
  BY <1>13 DEF FailRecovery, fail_recovery
<1>14. CASE Announce
  BY <1>14 DEF Announce
<1>15. CASE ConsumeRecovery
  BY <1>15 DEF ConsumeRecovery
<1>16. CASE NothingToConsume
  BY <1>16 DEF NothingToConsume
<1>17. CASE MarkAllDirty
  BY <1>17 DEF MarkAllDirty, mark_all_dirty
<1>18. ASSUME NEW q \in Points, Get(q)
      PROVE  AnnounceInv'
  BY <1>18 DEF Get
<1>19. CASE IsDirty
  BY <1>19 DEF IsDirty
<1>20. CASE ClearDirty
  BY <1>20 DEF ClearDirty, clear_dirty
<1>21. CASE Return
  BY <1>21 DEF Return
<1>22. ASSUME NEW kept \in SUBSET Points, Publish(kept)
      PROVE  AnnounceInv'
  BY <1>22 DEF Publish, Sent
<1>23. CASE UNCHANGED vars
  BY <1>23 DEF vars
<1> QED
  BY <1>1, <1>2, <1>3, <1>4, <1>5, <1>6, <1>7, <1>8, <1>9, <1>10, <1>11, <1>12,
     <1>13, <1>14, <1>15, <1>16, <1>17, <1>18, <1>19, <1>20, <1>21, <1>22, <1>23
     DEF Next, Callback, Poll

\* The initial cache satisfies the invariant.
LEMMA InitInv == Init => CacheInv
BY DeviceCacheAssumption
   DEF Init, CacheInv, TypeOK, CacheTypes, ReadTypes, PublishTypes, RecoveryConfirmed, BranchInv, DirtyInv, OnlineIsCurrent,
       AnnounceInv, InFlight, Known, NotOnlineBranch, Pc

\* CacheInv is an invariant of the cache under every interleaving of the
\* callbacks with read_device.
THEOREM Invariance == Spec => []CacheInv
<1>1. CacheInv /\ [Next]_vars => CacheInv'
  BY CacheTypesStep, ReadTypesStep, PublishTypesStep, RecoveryStep, BranchStep, DirtyStep,
     CurrentStep, AnnounceStep DEF CacheInv, TypeOK
<1> QED
  BY InitInv, <1>1, PTL DEF Spec

\* The cache and the locals of read_device keep their types, and only received
\* points are dirty.
THEOREM CacheTypeCorrect == Spec => []TypeOK
<1>1. CacheInv => TypeOK
  BY DEF CacheInv
<1> QED
  BY Invariance, <1>1, PTL

\* What SCADA was last told of an online device differs from the cache only where
\* the point is dirty, on its way, overwritten in a read, or refused.
THEOREM Current == Spec => []OnlineIsCurrent
<1>1. CacheInv => OnlineIsCurrent
  BY DEF CacheInv
<1> QED
  BY Invariance, <1>1, PTL

\* A pending recovery belongs to an online device over an open link.
THEOREM Confirmed == Spec => []RecoveryConfirmed
<1>1. CacheInv => RecoveryConfirmed
  BY DEF CacheInv
<1> QED
  BY Invariance, <1>1, PTL

\* SCADA knows of a loss once a read has found it, but for a refused announcement
\* and a recovery cancelled under the read.
THEOREM Announced == Spec => []LossAnnounced
<1>1. CacheInv => LossAnnounced
  BY DeviceCacheAssumption DEF CacheInv, AnnounceInv, BranchInv, LossAnnounced
<1> QED
  BY Invariance, <1>1, PTL
=============================================================================
