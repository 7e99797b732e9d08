SPECIFICATION PinnerSpec
CONSTANTS
    Cid = {a, b}
    Client = {w1}
    MaxPins = 2
    SyncRepairFrequency = 1
    MaxFaults = 1
INVARIANT RebuildResolves
CHECK_DEADLOCK FALSE
