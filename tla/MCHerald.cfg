SPECIFICATION Spec
CONSTANTS
    s1 = s1
    s2 = s2
    Servers = {s1, s2}
    Client = client
    Service <- MCService
    Namings <- MCNamings
    MAX_RESULTS = 2
    MaxFaults = 1
INVARIANTS
    TypeOK
    LaterOneNotices
    ScanFindsAll
PROPERTIES
    Stops
CHECK_DEADLOCK FALSE
