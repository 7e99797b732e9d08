SPECIFICATION ServerSpec
CONSTANTS
    k1 = k1
    k2 = k2
    id = id
    big = big
    peer1 = peer1
    Peer = {peer1}
    Key = {k1, k2, id, big}
    Worker = {w1, w2}
    Message <- MCMessage
    Denied <- MCDenied
    Identity = {id}
    Oversized = {big}
    MaxWants = 1
    MaxEvents = 4
    Block = {1, 2}
    Caller = {x, y}
    Workload <- MCWorkload
SYMMETRY MCSymmetry
INVARIANTS
    OnlyAskedFor
    LedgerInverse
    ActiveHeld
    WaitingAreAnswered
    CacheTruthful
    StoredIsFound
    NoCircularWait
PROPERTY WantBlockKept
CHECK_DEADLOCK FALSE
