SPECIFICATION Spec
CONSTANTS
    Peer = {p1, p2}
    NoPeer = NoPeer
    MaxDegree = 9
    Degrees = {2, 4, 9}
    Cid = {c1, c2}
    Session = {s1}
    CancelLists <- MCDistinctLists
INVARIANTS
    ReverseIndexExact
    QueuesHoldWants
    SignalsCurrent
SYMMETRY MCSymmetry
