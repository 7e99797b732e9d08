SPECIFICATION FgmSpec
CONSTANTS
    Peer = {p1, p2, p3}
    NoPeer = NoPeer
    MaxDegree = 9
    Degrees = {1, 2, 4, 9}
PROPERTY SelectReturns
CHECK_DEADLOCK FALSE
