SPECIFICATION Spec
CONSTANTS
    a = a
    b = b
    c = c
    Node = {a, b, c}
    None = None
    Requestor = {a}
    MaxSearches = 2
    Fragile <- MCFragile
    MaxCuts = 1
    ProxyId = {1, 2}
INVARIANTS
    HopsReversible
    HavesSolicited
    ProxiedMeansRunning
PROPERTIES
    AnswerArrives
    ForwardsDieOut
CHECK_DEADLOCK FALSE
