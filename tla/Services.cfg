SPECIFICATION ServicesSpec
CONSTANTS
    Tasks = {t1}
    Approvers = {h1, h2}
    UsedTools = {"docx_create", "xlsx_create", "code_exec", "model_invoke"}
    Errors = {"#REF!"}
    Sandboxes = {"host", "none"}
    Blocks = {2}
    MaxComponents = 1
    MaxExports = 2
    MaxSteps = 2
    MaxCalls = 2
    MaxApprovals = 3
    MaxFaults = 1
    Processes = {p1, p2}
    Servers = {p1, p2}
    Workers = {p1, p2}
    Submissions <- SomeSubmissions
    Needs <- CodeNeeds
    MaxRegistrations = 2
    MaxRestarts = 2
    MaxOutages = 1
    Endpoints = {"create_task", "create_message"}
    Limit <- EndpointLimits
    ServerLimit = 2
    Window = 2
    MaxDelay = 1
    MaxTime = 3
    MaxSent = 3
    MaxFailures = 1
    Visitors = {v1, v2}
    Names = {"admin", "engineer", "bob"}
    Clients = {c1, c2, c3}
    MaxEvents = 2
    Requests = {r1, r2, r3, r4}
    SessionIds = {s1, s2}
    Projects = {j1}
SYMMETRY Symmetry
CHECK_DEADLOCK FALSE
INVARIANTS
    ServicesTypeOK
    ListedIsDownloadable
    ApprovalsAgree
    PassedIsRecalculated
    WorkspaceIsOwn
    RoutingIsSound
    SelectableIsVerified
    RegistryPersists
    DeliveredOnce
    AdmittedIsBounded
    ConversationsAreWhole
    OrphansSurvive
    AccountsAreSound
