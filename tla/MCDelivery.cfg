\* Three readings, one of them refused for good, two device tasks, an outbox of
\* two rows: the outbox fills, overflows and drains; SQLite may fail anywhere.
CONSTANTS
    Messages = {m1, m2, bad}
    Poison = {bad}
    Devices = {d1, d2}
    None = None
    MaxPending = 2
    MaxRetries = 2
    BatchSize = 2
    DbMayFail = TRUE
SPECIFICATION LiveSpec
INVARIANTS
    NoSilentLoss
    QuarantineEarned
    EstimateNeverOver
PROPERTIES
    OldestFirst
    ImplementsPromise
    Drains
