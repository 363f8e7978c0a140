----------------------------- MODULE MCPolling ------------------------------
(* Polling on a small instance.                                            *)
EXTENDS Polling

CONSTANTS d1, d2

DeviceSet == {d1, d2}

\* The order in which the backend lists the devices.
ListOrder == [d \in DeviceSet |-> IF d = d1 THEN 1 ELSE 2]
=============================================================================
