SPECIFICATION Spec
CONSTANTS
    Command = "status"
    LongCommand = "status-in-full"
    Other = "other"
    CMD_OUTPUT_MAX = 3
    FooterSize = 1
    MaxWhitelist = 2
    CommandLines <- MCCommandLines
    Orders <- MCOrders
    MaxWatchers = 2
    MaxOutput = 3
    MaxOrders = 1
    MaxFaults = 2
INVARIANTS
    TypeOK
    AnswerIsTrue
    OnlyOrdered
PROPERTIES
    EveryWatcherEnds
    Listens
CHECK_DEADLOCK FALSE
