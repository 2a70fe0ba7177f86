SPECIFICATION Spec
CONSTANTS
    Conns = {c1, c2, c3}
    None = None
    MAX_CLIENTS = 2
    Requests <- MCRequests
    LabelSize = 4
    Label0 <- MCLabel0
    MaxRequests = 1
    MaxFaults = 1
INVARIANTS
    TypeOK
    SlotsCounted
    LabelBegins
PROPERTIES
    CommandsAreAtomic
    Stops
CHECK_DEADLOCK FALSE
