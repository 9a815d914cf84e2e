\* Two polls and two attempts; questions, pages and imports beside them.
CONSTANTS
    p1 = p1
    p2 = p2
    MaxAttempts = 2
    Requests = {p1, p2}
    None = None
    c1 = c1
    c2 = c2
    Bad = bad
    Versions = {1, 2}
    Content <- VContent
    Concepts = {c1, c2}
    PageLimit = 2
    PageEdges = 1
    Clients = {c1, c2}
    Tables <- QTables
    Contexts <- QContexts
    Names <- QNames
    EvidenceEdges = 1
    Uploads <- DInputs
    Extractions <- DExtractions
    Clean <- DClean
    MaxFile = 3
    MaxBatch = 5
    MaxDocuments = 3
    MaxText = 4
    MaxIndexed = 2
    MaxRuns = 2
    MaxJobs = 2
    RunTables = 1
    Chunks = 1
SPECIFICATION MCSpec
INVARIANTS SucceededIsWhole AnswersAreGrounded
PROPERTIES SucceededIsFinal WorkEnds
CHECK_DEADLOCK FALSE
