-------------------------- MODULE Connection_proofs -------------------------
(***************************************************************************)
(* Proofs about Connection: the inductive invariant ConnectionInv, what it *)
(* says of publish(), and that the publisher implements BrokerLink.        *)
(***************************************************************************)
EXTENDS Connection, TLAPS

\* A new publisher satisfies the invariant.
LEMMA InitInv == Init => ConnectionInv
  BY ConnectionAssumption DEF Init, ConnectionInv, TypeOK, OneReconnect, Cancellable, Clients

\* The NATS client's own steps keep the invariant: it reconnects by itself only as a
\* client the background task does not replace.
LEMMA ClientKeepsInv ==
    ASSUME ConnectionInv,
           BrokerChanges \/ LinkLost \/ ClientReconnects \/ ClientCloses
             \/ OnDisconnected \/ OnReconnected
    PROVE  ConnectionInv'
<1> USE ConnectionAssumption
        DEF ConnectionInv, TypeOK, OneReconnect, Cancellable, Clients, mainVars, loopVars
<1>1. CASE BrokerChanges
  BY <1>1 DEF BrokerChanges
<1>2. CASE LinkLost
  BY <1>2 DEF LinkLost
<1>3. CASE ClientReconnects
  BY <1>3 DEF ClientReconnects
<1>4. CASE ClientCloses
  BY <1>4 DEF ClientCloses
<1>5. CASE OnDisconnected
  BY <1>5 DEF OnDisconnected
<1>6. CASE OnReconnected
  BY <1>6 DEF OnReconnected
<1> QED
  BY <1>1, <1>2, <1>3, <1>4, <1>5, <1>6

\* The coroutines keep the invariant: the task starts only after the first connect has
\* failed, so it finds no client.
LEMMA CoroutinesKeepInv ==
    ASSUME ConnectionInv,
           ConnectOk \/ ConnectFails \/ TaskBegins \/ Wake \/ ReconnectOk \/ ReconnectFails
    PROVE  ConnectionInv'
<1> USE ConnectionAssumption
        DEF ConnectionInv, TypeOK, OneReconnect, Cancellable, Clients, mainVars
<1>1. CASE ConnectOk
  BY <1>1 DEF ConnectOk
<1>2. CASE ConnectFails
  BY <1>2 DEF ConnectFails
<1>3. CASE TaskBegins
  BY <1>3 DEF TaskBegins, NextAttempt
<1>4. CASE Wake
  BY <1>4 DEF Wake
<1>5. CASE ReconnectOk
  BY <1>5 DEF ReconnectOk
<1>6. CASE ReconnectFails
  BY <1>6 DEF ReconnectFails, NextAttempt
<1> QED
  BY <1>1, <1>2, <1>3, <1>4, <1>5, <1>6

\* So does the main thread, whichever of the waits in close() time out.
LEMMA MainKeepsInv ==
    ASSUME ConnectionInv, StartReturns \/ Close \/ Closing \/ LoopStops
    PROVE  ConnectionInv'
<1> USE ConnectionAssumption
        DEF ConnectionInv, TypeOK, OneReconnect, Cancellable, Clients, mainVars, loopVars
<1>1. CASE StartReturns
  BY <1>1 DEF StartReturns
<1>2. CASE Close
  BY <1>2 DEF Close
<1>3. CASE CancelReconnect
  BY <1>3 DEF CancelReconnect
<1>4. CASE CancelTimesOut
  BY <1>4 DEF CancelTimesOut
<1>5. CASE Disconnect
  BY <1>5 DEF Disconnect
<1>6. CASE DisconnectFails
  BY <1>6 DEF DisconnectFails
<1>7. CASE ShutdownLoop
  BY <1>7 DEF ShutdownLoop
<1>8. CASE LoopStops
  BY <1>8 DEF LoopStops
<1> QED
  BY <1>1, <1>2, <1>3, <1>4, <1>5, <1>6, <1>7, <1>8 DEF Closing

\* The invariant of the connection's life holds in every reachable state.
THEOREM ConnectionInvariance == Spec => []ConnectionInv
<1>1. ASSUME ConnectionInv, UNCHANGED vars
      PROVE  ConnectionInv'
  BY <1>1 DEF vars, mainVars, loopVars, ConnectionInv, TypeOK, OneReconnect
<1>2. ConnectionInv /\ [Next]_vars => ConnectionInv'
  BY <1>1, ClientKeepsInv, CoroutinesKeepInv, MainKeepsInv DEF Next, LoopStep
<1> QED
  BY InitInv, <1>2, PTL DEF Spec

\* The publisher's fields keep their types, and _closed is set from close() on.
THEOREM ConnectionTypeCorrect == Spec => []TypeOK
<1>1. ConnectionInv => TypeOK
  BY DEF ConnectionInv
<1> QED
  BY <1>1, ConnectionInvariance, PTL

\* A message that passes the test of publish() goes to a client that has a link, or
\* one whose loss it has not yet noticed.
THEOREM Backed == Spec => []UsableIsBacked
<1>1. ConnectionInv => UsableIsBacked
  BY DEF ConnectionInv, UsableIsBacked, Usable
<1> QED
  BY <1>1, ConnectionInvariance, PTL

\* The background task and the client's own reconnect never run side by side.
THEOREM SingleReconnect == Spec => []OneReconnect
<1>1. ConnectionInv => OneReconnect
  BY DEF ConnectionInv
<1> QED
  BY <1>1, ConnectionInvariance, PTL

\* A publisher that is closed stays closed.
LEMMA StaysClosed ==
    ASSUME [Next]_vars, main = "closed"
    PROVE  main' = "closed"
  BY DEF vars, mainVars, Next, BrokerChanges, LinkLost, ClientReconnects, ClientCloses,
         ConnectOk, ReconnectOk, LoopStep, OnDisconnected, OnReconnected, ConnectFails,
         TaskBegins, Wake, ReconnectFails, StartReturns, Close, Closing, CancelReconnect,
         CancelTimesOut, Disconnect, DisconnectFails, ShutdownLoop, LoopStops

\* The publisher implements the link the delivery path assumes.  By the invariant a
\* closed publisher is not usable, whatever a late connect or callback does; before
\* that it may become usable or unusable at any step.
THEOREM LinkRefinement == Spec => ImplementsLink
<1> USE DEF Link!Init, Link!Next, Link!Up, Link!Down, Link!Close, Link!vars
<1>1. Init => Link!Init
  BY DEF Init, Usable
<1>2. ConnectionInv => (main = "closed" => ~Usable)
  BY DEF ConnectionInv, Usable
<1>3. ConnectionInv /\ ConnectionInv' /\ [Next]_vars => [Link!Next]_(Link!vars)
  <2> SUFFICES ASSUME ConnectionInv, ConnectionInv', [Next]_vars
               PROVE  Link!Next \/ UNCHANGED Link!vars
    OBVIOUS
  <2>1. (main = "closed" => ~Usable) /\ (main' = "closed" => ~Usable')
    BY <1>2 DEF ConnectionInv, Usable
  <2>2. Usable \in BOOLEAN /\ Usable' \in BOOLEAN
    BY DEF Usable
  <2> QED
    BY <2>1, <2>2, StaysClosed
<1> QED
  BY <1>1, <1>3, ConnectionInvariance, PTL DEF Spec, ImplementsLink, Link!Spec

\* A new publisher tries to connect.
LEMMA InitAttempt == Init => AttemptInv
  BY ConnectionAssumption DEF Init, AttemptInv, Clients

\* Every step of an open publisher keeps an attempt, or a client, alive.
LEMMA AttemptStays ==
    ASSUME ConnectionInv, AttemptInv, [Next]_vars
    PROVE  AttemptInv'
<1> USE ConnectionAssumption
        DEF ConnectionInv, TypeOK, AttemptInv, OneReconnect, Cancellable, Clients,
            mainVars, loopVars
<1>1. CASE BrokerChanges \/ LinkLost \/ ClientReconnects \/ ClientCloses
  BY <1>1 DEF BrokerChanges, LinkLost, ClientReconnects, ClientCloses
<1>2. CASE ConnectOk \/ ReconnectOk
  BY <1>2 DEF ConnectOk, ReconnectOk
<1>3. CASE OnDisconnected \/ OnReconnected
  BY <1>3 DEF OnDisconnected, OnReconnected
<1>4. CASE ConnectFails \/ TaskBegins \/ Wake \/ ReconnectFails
  BY <1>4 DEF ConnectFails, TaskBegins, Wake, ReconnectFails, NextAttempt
<1>5. CASE StartReturns \/ Close
  BY <1>5 DEF StartReturns, Close
<1>6. CASE CancelReconnect \/ CancelTimesOut \/ Disconnect \/ DisconnectFails
  BY <1>6 DEF CancelReconnect, CancelTimesOut, Disconnect, DisconnectFails
<1>7. CASE ShutdownLoop \/ LoopStops
  BY <1>7 DEF ShutdownLoop, LoopStops
<1>8. CASE UNCHANGED vars
  BY <1>8 DEF vars
<1> QED
  BY <1>1, <1>2, <1>3, <1>4, <1>5, <1>6, <1>7, <1>8 DEF Next, LoopStep, Closing

\* An open publisher that is not usable has exactly one of its three ways to reconnect at
\* work, unless the server has closed its client: none is ever left out, and no two meet.
THEOREM SomeoneReconnects == Spec => []OneAtWork
<1>1. ConnectionInv /\ AttemptInv => OneAtWork
  BY ConnectionAssumption
     DEF ConnectionInv, TypeOK, AttemptInv, OneAtWork, OneReconnect, Cancellable, Clients, Usable
<1>2. ConnectionInv /\ AttemptInv /\ [Next]_vars => AttemptInv'
  BY AttemptStays
<1> QED
  BY <1>1, <1>2, InitAttempt, ConnectionInvariance, PTL DEF Spec
=============================================================================
