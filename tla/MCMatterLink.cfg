SPECIFICATION Spec
CONSTANTS
    Base = 2
    RecvBufSize = 6
    AccSize = 12
    Scripts <- MCScripts
INVARIANTS
    TypeOK
    RoomInv
    NoneWaits
PROPERTIES
    Reassembles
    AllDispatched
CHECK_DEADLOCK FALSE
