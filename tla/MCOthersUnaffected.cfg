\* As MCPolling; one device of two hangs.
CONSTANTS
    d1 = d1
    d2 = d2
    Devices <- DeviceSet
    Order <- ListOrder
    MaxParallel = 2
    NWorkers = 2
    MayHang = {d1}
    None = None
SPECIFICATION LiveSpec
PROPERTY OthersUnaffected
CHECK_DEADLOCK FALSE
