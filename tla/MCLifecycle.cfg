CHECK_DEADLOCK FALSE
SPECIFICATION FairSpec
INVARIANTS
    TypeOK
    ClearedAlone
    SweepAfterMap
PROPERTY FailedStartEnds
