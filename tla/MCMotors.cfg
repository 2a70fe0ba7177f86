SPECIFICATION Spec
CONSTANTS
    Procs = {p1, p2}
    Pan <- MCPan
    Tilt <- MCTilt
    Select = 5
    Moves <- MCMoves
    Beside <- MCBeside
    MaxRuns <- MCMaxRuns
    MaxFaults = 1
INVARIANTS
    StepsAddUp
    AllOrNone
PROPERTIES
    LeavesQuiet
SYMMETRY Symmetry
CHECK_DEADLOCK FALSE
