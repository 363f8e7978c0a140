\* Two configurations to change between, two requests, so that one may come while
\* the other is pending, and two instants, so that an age may be wrong.
CONSTANTS
    Versions = {c1, c2}
    MaxNonce = 2
    MaxTime = 1
    MaxFailures = 1
    DiskMayFail = TRUE
    None = None
SPECIFICATION LiveSpec
INVARIANTS DiskFollows AgeNeverUnderstated
PROPERTIES ServedOnce Converges RequestServed
