SPECIFICATION Spec
CONSTANTS
    Writers = {a1, a2}
    Interval = 2
    MaxSeq = 2
    MaxTime = 1
    MaxModes = 1
    MaxErrors = 0
CHECK_DEADLOCK FALSE
INVARIANT
    ModeChangesAudited
