SPECIFICATION SessionsSpec
CONSTANTS
    Peer = {p, q}
    Want = {k1, k2}
    DontHaveLimit = 1
    NotWanted = NotWanted
    ChangesBufferSize = 2
    MaxChanges = 5
    Session = {1, 2}
    Call = {1, 2}
    Handler = {h}
    MaxBlocks = 1
SYMMETRY MCSymmetry
INVARIANTS
    WaitsOnPresent
    NoWantIdles
    AsksAreWanted
    InterestKept
PROPERTY
    OneWantBlock
CHECK_DEADLOCK FALSE
