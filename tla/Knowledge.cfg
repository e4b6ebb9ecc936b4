SPECIFICATION Spec
CONSTANTS
    d1 = d1
    d2 = d2
    Docs = {d1, d2}
    Requests = {h1, h2}
    Tags = {"general", "finance"}
    Content <- DocContent
    Answers <- VisionAnswers
    Suspicious <- SuspiciousChunks
    Readers <- Users
    MaxBytes = 2
    MaxChunks = 2
    MaxClassify = 3
    MaxFaults = 1
    ChunkSize = 8
    Overlap = 1
    ShortText = 2
SYMMETRY Symmetry
CHECK_DEADLOCK FALSE
INVARIANTS
    TypeOK
    IndexedOncePerRequest
    UnreviewedNotIndexed
    FullCountIsSearchable
    AnswersHonourTags
    DisagreementsFlagged
