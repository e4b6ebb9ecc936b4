SPECIFICATION Spec
CONSTANTS
    Tasks = {t1}
    Workers = {w1}
    Handlers = {h1}
    NoTask = NoTask
    RoleOf <- AdminOwns
    Plans <- ScriptThenGate
    MaxSteps = 2
    MaxApprovals = 2
    MaxEffects = 2
    MaxFaults = 0
CHECK_DEADLOCK FALSE
INVARIANT
    PausedIsWakeable
