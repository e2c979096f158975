CONSTANTS
    Clients = {"a", "b"}
    MaxFd = 3
    Requests <- MCTerminated
    BuffSize = 3
    Outstanding = 1
    Segmented = FALSE
SPECIFICATION FairSpec
INVARIANTS
    TypeOK
    DescriptorsAgree
    RepliesMatch
PROPERTIES
    AloneAnswered
    AloneReleased
CHECK_DEADLOCK FALSE
