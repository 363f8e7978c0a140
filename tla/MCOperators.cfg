\* Chunks of 1, 3 and 14 points (the last above the limit of analog inputs); an outbox
\* that is empty, nearly full, full and over its limit; lists one longer than allowed.
CONSTANTS
    Missing = Missing
    Garbage = Garbage
    Falsy = Falsy
    Infinite = Infinite
    ValueError = ValueError
    OverflowError = OverflowError
    Refused = Refused
    MaxFloat = 100000
    NoPort = NoPort
    NotList = NotList
    MaxDevices = 3
    MaxSignals = 2
    Groups = {1, 30, 50}
    Indices <- IndexSet
    MayLack = {1, 4, 5}
    ChunkSizes = {1, 3, 14}
    Ratios = {2, 4}
    Fills = {0, 1, 3, 4, 5, 6}
    Capacities = {0, 1, 5}
    Ages <- AgeSet
    Uptimes = {60, 61}
    RawCodes <- CodeSet
    RawNumbers <- NumberSet
    MaxLength = 4
SPECIFICATION Spec
INVARIANTS
    FillsWhatAnswers
    RequestsBounded
    WorseNeverBetter
    DeviceUsable
    DamageIsLocal
CHECK_DEADLOCK FALSE
