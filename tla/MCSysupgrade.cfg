SPECIFICATION Spec
CONSTANTS
    Procs = {p1, p2}
    None = None
    Absent = Absent
    NA = NA
    Torn = Torn
    UserData = UserData
    Erased = Erased
    Socs = {"mine", "other"}
    Vers = {"v1", "v2", "v3"}
    Model = "mine"
    Cameras <- MCCameras
    MaxRuns = 2
    Factory <- MCFactory
    Requests <- MCRequests
    Archives <- MCArchives
INVARIANTS
    TypeOK
    LockExclusion
    TornHasCause
    SocGate
    AllOrNothing
    QuietWhileFlashing
    DamageGate
PROPERTIES
    WritesUnderLock
    EveryRunEnds
CHECK_DEADLOCK FALSE
