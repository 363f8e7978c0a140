\* The circuit breaker tripped by a SQLite error: the outbox has room for both
\* messages, so OutboxFullError is out of the question.
CONSTANTS
    Messages = {m1, m2}
    Poison = {}
    Devices = {d1}
    None = None
    MaxPending = 2
    MaxRetries = 2
    BatchSize = 2
    DbMayFail = TRUE
SPECIFICATION LiveSpec
PROPERTY BreakerReleases
