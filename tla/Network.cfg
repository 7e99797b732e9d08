SPECIFICATION NetworkSpec
CONSTANTS
    Peer = {p1, p2}
    NoPeer = NoPeer
    NumListeners = 2
    Request = {r1, r2}
    Key = {k}
    KeyOf <- MCKeyOf
    Provider = {p}
    None = None
    QueueCap = 1
    MaxWorkers = 2
INVARIANTS
    ListenersFollow
    ConnectionsKnown
    TypeOK
    NobodyForgotten
    CompleteDelivery
PROPERTIES
    ListenersSettle
    StopReturns
    EveryCallEnds
CHECK_DEADLOCK FALSE
