SPECIFICATION FairSpec
CONSTANTS
    Writers = {a1, a2}
    Interval = 2
    MaxSeq = 3
    MaxTime = 1
    MaxModes = 1
    MaxErrors = 1
CHECK_DEADLOCK FALSE
INVARIANTS
    TypeOK
    ChainIsLinked
    OneTransactionAhead
    CheckpointsMatch
    LossIsNoticed
PROPERTIES
    GrowsAtItsEnd
    WritersFinish
