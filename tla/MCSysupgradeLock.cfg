SPECIFICATION Spec
CONSTANTS
    Procs = {p1}
    None = None
    Absent = Absent
    NA = NA
    Torn = Torn
    UserData = UserData
    Erased = Erased
    Socs = {"mine", "other"}
    Vers = {"v1", "v2", "v3"}
    Model = "mine"
    Cameras <- SplitCamera
    MaxRuns = 2
    Factory <- MCFactory
    Requests <- PlainRequests
    Archives <- TwiceArchives
INVARIANT AlreadyRunning
CHECK_DEADLOCK FALSE
