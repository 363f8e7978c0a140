\* Two devices, so that a cycle may run in the pool, and two pool threads.  The first
\* device may hang.  The system stops after a stop request.
CONSTANTS
    d1 = d1
    d2 = d2
    Devices <- DeviceSet
    Order <- ListOrder
    MaxParallel = 2
    NWorkers = 2
    MayHang = {d1}
    None = None
SPECIFICATION LiveSpec
INVARIANT ChannelsOwned
PROPERTIES ZombieGone LinkKept CycleEnds EveryDeviceRead StopEnds
CHECK_DEADLOCK FALSE
