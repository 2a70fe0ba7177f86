SPECIFICATION Spec
CONSTANTS
    Conns = {c1}
    None = None
    MAX_CLIENTS = 1
    Requests <- MCRequests
    LabelSize = 4
    Label0 <- MCLabel0
    MaxRequests = 2
    MaxFaults = 0
INVARIANTS
    LabelReadsBack
CHECK_DEADLOCK FALSE
