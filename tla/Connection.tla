----------------------------- MODULE Connection -----------------------------
(***************************************************************************)
(* The life of JetStreamPublisher: the first connect, the background       *)
(* reconnect, the callbacks of the NATS client and the stages of close().  *)
(*                                                                         *)
(* The loop thread runs the coroutines, one step at a time between two     *)
(* awaits; the main thread creates and closes the publisher and gives up   *)
(* waiting for a coroutine after a timeout.  The NATS client is external:  *)
(* it reports a lost link, reconnects by itself and reports that, or is    *)
(* closed by an error the server sends.                                    *)
(***************************************************************************)
EXTENDS Naturals

CONSTANT None           \* no client

\* The states of a connection: after LinkLost the client has yet to report it, as it
\* has after "reopened".
Clients == {"open", "lost", "reconnecting", "reopened", "closed"}

ASSUME ConnectionAssumption == None \notin Clients

VARIABLES
    broker,         \* the broker can be reached
    \* the main thread
    main,           \* where create() and close() are
    loop_ref,       \* _loop is not None
    closed,         \* the Event _closed
    \* the loop thread
    loop,           \* the event loop runs
    connect,        \* the coroutine _connect_safe
    reconnect,      \* the task _background_reconnect
    client,         \* the connection of _nc, or None
    ready           \* the Event _ready

mainVars == <<main, loop_ref, closed>>
loopVars == <<loop, connect, reconnect, client, ready>>
vars == <<broker, mainVars, loopVars>>

\* The test at the head of publish().
Usable == ready /\ loop_ref /\ client # None

\* JetStreamPublisher.__init__, and _start up to its wait.
Init ==
    /\ broker \in BOOLEAN
    /\ main = "start"
    /\ loop_ref = TRUE
    /\ closed = FALSE
    /\ loop = TRUE
    /\ connect = "trying"
    /\ reconnect = "none"
    /\ client = None
    /\ ready = FALSE

-----------------------------------------------------------------------------
(* The broker and the NATS client.                                         *)

BrokerChanges ==
    /\ broker' = ~broker
    /\ UNCHANGED <<mainVars, loopVars>>

\* The client finds its link broken.  A reconnect that was not yet reported is void.
LinkLost ==
    /\ loop
    /\ client \in {"open", "reopened"}
    /\ client' = "lost"
    /\ UNCHANGED <<broker, mainVars, loop, connect, reconnect, ready>>

\* max_reconnect_attempts=-1: the client goes on until it succeeds.
ClientReconnects ==
    /\ loop
    /\ client = "reconnecting"
    /\ broker
    /\ client' = "reopened"
    /\ UNCHANGED <<broker, mainVars, loop, connect, reconnect, ready>>

\* An error of the server closes the client; _on_closed.
ClientCloses ==
    /\ loop
    /\ client \in {"open", "lost", "reconnecting", "reopened"}
    /\ client' = "closed"
    /\ ready' = FALSE
    /\ UNCHANGED <<broker, mainVars, loop, connect, reconnect>>

\* Mutant of OnDisconnected: the publisher stays ready.
OnDisconnectedSilently ==
    /\ loop
    /\ client = "lost"
    /\ client' = "reconnecting"
    /\ UNCHANGED <<broker, mainVars, loop, connect, reconnect, ready>>

\* Mutant of OnDisconnected: a background task is started although the client
\* reconnects by itself.
OnDisconnectedRestarts ==
    /\ loop
    /\ client = "lost"
    /\ client' = "reconnecting"
    /\ ready' = FALSE
    /\ reconnect' = "created"
    /\ UNCHANGED <<broker, mainVars, loop, connect>>

OnDisconnected ==
    /\ loop
    /\ client = "lost"
    /\ client' = "reconnecting"
    /\ ready' = FALSE
    /\ UNCHANGED <<broker, mainVars, loop, connect, reconnect>>

OnReconnected ==
    /\ loop
    /\ client = "reopened"
    /\ client' = "open"
    /\ ready' = TRUE
    /\ UNCHANGED <<broker, mainVars, loop, connect, reconnect>>

-----------------------------------------------------------------------------
(* The coroutines.                                                         *)

\* _connect_safe: nats.connect returns.  Nothing cancels this coroutine: it may end
\* after _disconnect has looked for a client.
ConnectOk ==
    /\ loop
    /\ connect = "trying"
    /\ broker
    /\ connect' = "done"
    /\ client' = "open"
    /\ ready' = TRUE
    /\ UNCHANGED <<broker, mainVars, loop, reconnect>>

\* Mutant of ConnectFails: only the client's own reconnect is relied on.
ConnectFailsForGood ==
    /\ loop
    /\ connect = "trying"
    /\ connect' = "failed"
    /\ UNCHANGED <<broker, mainVars, loop, reconnect, client, ready>>

\* _connect_safe: nats.connect raises; a task goes on in the background.
ConnectFails ==
    /\ loop
    /\ connect = "trying"
    /\ connect' = "failed"
    /\ reconnect' = "created"
    /\ UNCHANGED <<broker, mainVars, loop, client, ready>>

\* The test at the head of the task's loop.
NextAttempt == IF closed THEN "done" ELSE "sleeping"

TaskBegins ==
    /\ loop
    /\ reconnect = "created"
    /\ reconnect' = NextAttempt
    /\ UNCHANGED <<broker, mainVars, loop, connect, client, ready>>

\* The sleep of the backoff is over.
Wake ==
    /\ loop
    /\ reconnect = "sleeping"
    /\ reconnect' = "connecting"
    /\ UNCHANGED <<broker, mainVars, loop, connect, client, ready>>

\* A client there was is closed first, which its callback reports, then replaced.
ReconnectOk ==
    /\ loop
    /\ reconnect = "connecting"
    /\ broker
    /\ reconnect' = "done"
    /\ client' = "open"
    /\ ready' = TRUE
    /\ UNCHANGED <<broker, mainVars, loop, connect>>

ReconnectFails ==
    /\ loop
    /\ reconnect = "connecting"
    /\ reconnect' = NextAttempt
    /\ UNCHANGED <<broker, mainVars, loop, connect, client, ready>>

-----------------------------------------------------------------------------
(* The main thread.                                                        *)

\* _start returns: the first connect has ended, or connect_timeout + 5 s have passed.
StartReturns ==
    /\ main = "start"
    /\ main' = "open"
    /\ UNCHANGED <<broker, loop_ref, closed, loopVars>>

Close ==
    /\ main = "open"
    /\ closed' = TRUE
    /\ main' = "cancel"
    /\ UNCHANGED <<broker, loop_ref, loopVars>>

Cancellable == {"created", "sleeping", "connecting"}

\* _cancel_reconnect runs on the loop, and the task has ended.
CancelReconnect ==
    /\ main = "cancel"
    /\ loop
    /\ reconnect' = IF reconnect \in Cancellable THEN "cancelled" ELSE reconnect
    /\ main' = "disconnect"
    /\ UNCHANGED <<broker, loop_ref, closed, loop, connect, client, ready>>

\* Two seconds pass while nats.connect holds the cancellation back.
CancelTimesOut ==
    /\ main = "cancel"
    /\ reconnect = "connecting"
    /\ main' = "disconnect"
    /\ UNCHANGED <<broker, loop_ref, closed, loopVars>>

\* _disconnect: nothing to drain, or the client is drained, or closed when that takes
\* more than two seconds; _on_closed.
Disconnect ==
    /\ main = "disconnect"
    /\ loop
    /\ client' = IF client = None THEN None ELSE "closed"
    /\ ready' = FALSE
    /\ main' = "stop"
    /\ UNCHANGED <<broker, loop_ref, closed, loop, connect, reconnect>>

\* drain raises, as it does while the client reconnects, or three seconds pass.
DisconnectFails ==
    /\ main = "disconnect"
    /\ client \notin {None, "closed"}
    /\ main' = "stop"
    /\ UNCHANGED <<broker, loop_ref, closed, loopVars>>

\* Mutant of ShutdownLoop: the loop is stopped and the fields are left as they are.
StopLoopOnly ==
    /\ main = "stop"
    /\ loop' \in {FALSE, loop}
    /\ ready' = FALSE
    /\ main' = "closed"
    /\ UNCHANGED <<broker, loop_ref, closed, connect, reconnect, client>>

\* _shutdown_loop: the loop is stopped, or its thread outlives the join; either way
\* the fields are emptied.
ShutdownLoop ==
    /\ main = "stop"
    /\ loop' \in {FALSE, loop}
    /\ loop_ref' = FALSE
    /\ ready' = FALSE
    /\ main' = "closed"
    /\ UNCHANGED <<broker, closed, connect, reconnect, client>>

\* A loop that outlived the join stops in the end.
LoopStops ==
    /\ main = "closed"
    /\ loop
    /\ loop' = FALSE
    /\ UNCHANGED <<broker, mainVars, connect, reconnect, client, ready>>

LoopStep ==
    \/ OnDisconnected
    \/ OnReconnected
    \/ ConnectFails
    \/ TaskBegins
    \/ Wake
    \/ ReconnectFails

Closing ==
    \/ CancelReconnect
    \/ CancelTimesOut
    \/ Disconnect
    \/ DisconnectFails
    \/ ShutdownLoop

Next ==
    \/ BrokerChanges
    \/ LinkLost
    \/ ClientReconnects
    \/ ClientCloses
    \/ ConnectOk
    \/ ReconnectOk
    \/ LoopStep
    \/ StartReturns
    \/ Close
    \/ Closing
    \/ LoopStops

Spec == Init /\ [][Next]_vars

\* The loop runs what is ready to run; attempts on a broker that can be reached again
\* and again succeed in the end; close() goes through its stages.
Fairness ==
    /\ WF_vars(OnDisconnected)
    /\ WF_vars(OnReconnected)
    /\ WF_vars(TaskBegins)
    /\ WF_vars(Wake)
    /\ WF_vars(ReconnectFails)
    /\ WF_vars(ConnectOk \/ ConnectFails)
    /\ SF_vars(ReconnectOk)
    /\ SF_vars(ClientReconnects)
    /\ WF_vars(Closing)

LiveSpec == Spec /\ Fairness

-----------------------------------------------------------------------------
(* Properties.                                                             *)

\* The types of the state; _closed is set as long as close() works, and after it.
TypeOK ==
    /\ {broker, loop_ref, closed, loop, ready} \subseteq BOOLEAN
    /\ main \in {"start", "open", "cancel", "disconnect", "stop", "closed"}
    /\ connect \in {"trying", "failed", "done"}
    /\ reconnect \in {"none", "created", "sleeping", "connecting", "cancelled", "done"}
    /\ client \in Clients \cup {None}
    /\ closed <=> main \notin {"start", "open"}

\* A message that passes the test of publish() goes to a client with a link, or with
\* one whose loss has not been noticed: not to one that would hold it back while it
\* reconnects, or that is closed.
UsableIsBacked == Usable => client \in {"open", "lost"}

\* While the background task tries to connect there is no client, so the client it
\* makes replaces none, and the two ways to reconnect never run side by side.
OneReconnect == reconnect \in Cancellable => client = None

\* As long as the publisher is open and the server has not closed its client, it is usable
\* or exactly one of three is at work to make it so: the first connect, the background
\* task, or the client's own reconnect, whose callbacks the loop has yet to run.
OneAtWork ==
    ~closed /\ client # "closed" =>
        \/ Usable
        \/ /\ loop
           /\ \/ connect = "trying" /\ reconnect \notin Cancellable /\ client = None
              \/ connect # "trying" /\ reconnect \in Cancellable /\ client = None
              \/ /\ connect # "trying" /\ reconnect \notin Cancellable
                 /\ client \in {"lost", "reconnecting", "reopened"}

\* What that rests on: until close() the loop runs, no attempt ends without a client or a
\* successor, and a client that has its link has been reported.
AttemptInv ==
    ~closed =>
        /\ loop
        /\ client = None => connect = "trying" \/ reconnect \in Cancellable
        /\ client = "open" => ready

\* What the properties rest on: until the first connect has ended nothing else is there;
\* the Event _ready tells of a client with a link; and _loop is emptied by close() alone.
ConnectionInv ==
    /\ TypeOK
    /\ connect = "trying" => client = None /\ reconnect = "none"
    /\ OneReconnect
    /\ ready => client \in {"open", "lost"}
    /\ loop_ref <=> main # "closed"

Link == INSTANCE BrokerLink WITH usable <- Usable, closed <- (main = "closed")

\* The publisher implements what the delivery path assumes of it; in particular no
\* callback or late connect makes a closed publisher usable again.
ImplementsLink == Link!Spec

\* With a broker that stays reachable the publisher becomes and stays usable, whichever
\* of the two mechanisms has to reconnect; unless the server has closed the client.
Reconnects ==
    <>[](broker /\ ~closed) /\ <>[][~LinkLost]_vars => <>[](Usable \/ client = "closed")
=============================================================================
