SPECIFICATION Spec
CONSTANTS
    Tasks = {t1}
    Workers = {w1}
    Handlers = {h1}
    NoTask = NoTask
    RoleOf <- AdminOwns
    Plans <- OneExport
    MaxSteps = 2
    MaxApprovals = 2
    MaxEffects = 2
    MaxFaults = 1
CHECK_DEADLOCK FALSE
INVARIANT
    EffectAtMostOnce
