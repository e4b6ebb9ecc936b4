SPECIFICATION FairSpec
CONSTANTS
    Tasks = {t1}
    Workers = {w1, w2}
    Handlers = {h1}
    NoTask = NoTask
    RoleOf <- AdminOwns
    Plans <- OneGate
    MaxSteps = 2
    MaxApprovals = 2
    MaxEffects = 1
    MaxFaults = 2
CHECK_DEADLOCK FALSE
INVARIANTS
    OneLiveJob
    PausedIsWakeable
    QueuedHasJob
PROPERTIES
    DecisionIsFinal
    ImplementsLifecycle
    QueuedIsDriven
