SPECIFICATION StorageSpec
CONSTANTS
    Cid = {a, b}
    Client = {w1, w2}
    MaxPins = 2
    SyncRepairFrequency = 1
    MaxFaults = 2
    ProvCid = {1, 2}
    MaxEnqueues = 2
    MaxQueued = 2
    Insecure = {2}
    KeySet = {1}
SYMMETRY MCSymmetry
INVARIANTS
    IndexesTrusted
    PinsSurvive
    RecursiveOnce
    FirstInFirstOut
    TimersFollowBatch
CHECK_DEADLOCK FALSE
