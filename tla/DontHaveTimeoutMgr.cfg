SPECIFICATION Spec
CONSTANTS
    Key = {k1, k2}
    DefaultTimeout = 2
    MaxTimeout = 3
    MaxQueue = 3
INVARIANTS
    CheckScheduled
PROPERTIES
    KeepsPromise
