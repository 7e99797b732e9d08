SPECIFICATION ManagerSpec
CONSTANTS
    Session = {1}
    Call = {1, 2}
    Handler = {h}
    MaxBlocks = 1
INVARIANT
    RequestsStayOpen
CHECK_DEADLOCK FALSE
