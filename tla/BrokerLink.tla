----------------------------- MODULE BrokerLink -----------------------------
(***************************************************************************)
(* What the delivery path assumes of its publisher: it comes and goes with *)
(* the broker, until it is closed; after that no publish reaches a broker. *)
(* These are the steps Disconnect, Reconnect and CloseBroker of Delivery.  *)
(***************************************************************************)
VARIABLES
    usable,     \* publish() would hand a message to the broker's client
    closed      \* close() has returned

vars == <<usable, closed>>

Init == usable = FALSE /\ closed = FALSE

Up == ~closed /\ ~usable /\ usable' = TRUE /\ closed' = closed

Down == usable /\ usable' = FALSE /\ closed' = closed

Close == ~closed /\ closed' = TRUE /\ usable' = FALSE

Next == Up \/ Down \/ Close

Spec == Init /\ [][Next]_vars
=============================================================================
