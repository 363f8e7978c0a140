\* Two polls of the device, one of them possibly given up by its cycle, and two
\* addresses.  A closed reader stops.
CONSTANTS
    Workers = {w1, w2}
    Addresses = {a1, a2}
    Main = Main
    None = None
    Inactive = Inactive
    Stopped = Stopped
SPECIFICATION LiveSpec
INVARIANTS ConnectionsOwned NotClosedUnderRead ReadsItsAddress
PROPERTIES NobodyWaitsForever TableFollows DeadLinkReplaced
CHECK_DEADLOCK FALSE
