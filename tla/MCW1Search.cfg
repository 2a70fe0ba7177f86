SPECIFICATION Spec
CONSTANTS
    Width = 4
    Buses <- MCBuses
    Mute <- MCMute
    MaxRetry = 3
    Asked = {0, 9}
    Waits = {100, 750}
    MaxNoise = 1
INVARIANTS
    ReadingsAreFresh
    FoundAreReal
    FindsAll
PROPERTIES
    Ends
CHECK_DEADLOCK FALSE
