SPECIFICATION FairProvideSpec
CONSTANTS
    ProvCid = {1}
    MaxEnqueues = 1
    MaxQueued = 2
    Insecure = {}
    KeySet = {1}
PROPERTY CloseStops
CHECK_DEADLOCK FALSE
