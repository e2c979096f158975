CONSTANTS
    Clients = {"a", "b"}
    MaxFd = 3
    Requests <- MCTerminated
    BuffSize = 3
    Outstanding = 1
    Segmented = FALSE
SPECIFICATION FairSpec
PROPERTY EveryRequestAnswered
CHECK_DEADLOCK FALSE
