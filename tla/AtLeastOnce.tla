---------------------------- MODULE AtLeastOnce ----------------------------
(***************************************************************************)
(* What the delivery path promises (header of messaging/outbox.py): once   *)
(* publish has returned, a message is in the broker's stream, in the       *)
(* durable queue or in the dead-letter table; it leaves the queue only     *)
(* when the stream holds it or when it is quarantined; and it may reach    *)
(* the stream more than once.  Device tasks, the retrier, restarts and the *)
(* circuit breaker are not visible here.                                   *)
(***************************************************************************)
CONSTANT Messages

VARIABLES
    returned,     \* messages whose publish call returned
    queued,       \* messages in the durable queue
    quarantined,  \* messages in the dead-letter table
    stored        \* messages in the broker's stream

vars == <<returned, queued, quarantined, stored>>

Init ==
    /\ returned = {}
    /\ queued = {}
    /\ quarantined = {}
    /\ stored = {}

\* The stream takes a copy, of whatever attempt.
Store(m) ==
    /\ stored' = stored \cup {m}
    /\ UNCHANGED <<returned, queued, quarantined>>

\* publish returns because the stream has the message.
Confirm(m) ==
    /\ m \in stored \ queued
    /\ returned' = returned \cup {m}
    /\ UNCHANGED <<queued, quarantined, stored>>

\* publish returns because the queue has the message.
Accept(m) ==
    /\ m \notin returned \cup queued \cup quarantined
    /\ queued' = queued \cup {m}
    /\ returned' = returned \cup {m}
    /\ UNCHANGED <<quarantined, stored>>

\* A queued message that reached the stream is removed from the queue.
Forget(m) ==
    /\ m \in queued \cap stored
    /\ queued' = queued \ {m}
    /\ UNCHANGED <<returned, quarantined, stored>>

\* A queued message is set aside.
Quarantine(m) ==
    /\ m \in queued
    /\ queued' = queued \ {m}
    /\ quarantined' = quarantined \cup {m}
    /\ UNCHANGED <<returned, stored>>

Next == \E m \in Messages :
            Store(m) \/ Confirm(m) \/ Accept(m) \/ Forget(m) \/ Quarantine(m)

Spec == Init /\ [][Next]_vars
=============================================================================
