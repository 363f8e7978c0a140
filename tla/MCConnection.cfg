\* The model has no parameter but the value for "no client".  A closed publisher stops.
CONSTANT None = None
SPECIFICATION LiveSpec
INVARIANTS UsableIsBacked OneReconnect
PROPERTIES ImplementsLink Reconnects
CHECK_DEADLOCK FALSE
