\* Two points, so that a read brings one and not the other; two values and two
\* addresses, so that both change.
CONSTANTS
    Points = {p1, p2}
    Values = {v1, v2}
    Addresses = {a1, a2}
    None = None
    Invalid = Invalid
    NoChange = NoChange
SPECIFICATION LiveSpec
INVARIANT CacheIsReported
PROPERTIES NewsIsTrue GoodIsKept Converges
