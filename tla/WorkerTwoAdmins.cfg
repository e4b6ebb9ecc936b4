SPECIFICATION Spec
CONSTANTS
    Tasks = {t1}
    Workers = {w1, w2}
    Handlers = {h1, h2}
    NoTask = NoTask
    RoleOf <- AdminOwns
    Plans <- TwoAdminPlans
    MaxSteps = 2
    MaxApprovals = 2
    MaxEffects = 1
    MaxFaults = 0
SYMMETRY Symmetry
CHECK_DEADLOCK FALSE
INVARIANTS
    TypeOK
    OnlyRestingStatuses
    HighRiskWaitsForHuman
    VerifiedNotReexecuted
    LoadedPlanIsCurrent
    CompletedIsTried
    ReplyAgrees
PROPERTIES
    VerifiedIsStable
