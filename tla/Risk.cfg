\* Two generation jobs and two rules; rules and graphs from the pools of MCRisk.
CONSTANTS
    r1 = r1
    r2 = r2
    m = m
    Jobs = {j1, j2}
    Clients = {u1}
    Rules = {r1, r2}
    Incomplete = {r2}
    Malformed = m
    Answers <- MCAnswers
    None = None
    Anchors = 1
    Slots = 2
    WhyCoverage = {TRUE}
    MaxRaw = 1
    MaxVersion = 3
    MaxExecutions = 1
    MaxActors = 2
    MaxStops = 1
    Exports <- TExports
    Revision = 1
    Anchor = 1
    Depths = {1, 2}
    MaxCandidates = 2
    ExecutionRules <- ERules
    Mapped <- EMapped
    Versions <- EVersions
    BoScope = {"c"}
    From = 10
    To = 30
    PageSize = 2
    MaxRows = 4
    SampleRows = 3
    Unreadable = Unreadable
    MatchThreads = {t1}
    RiskThreads = {t2}
    Datasets <- ODatasets
    Configs <- OConfigs
    Concurrency = 2
    Nodes = {n1, n2}
    Importers = {i1, i2}
    Revisions = {r1, r2}
    PinnedRevision = r1
    Why <- WWhy
    Snapshots <- WSnapshots
    Copies = {"why", "dimensions"}
    Files <- WFiles
    Empty = Empty
    n1 = n1
    n2 = n2
    w1 = w1
    w2 = w2
SPECIFICATION MCSpec
INVARIANTS ExecutedWasApproved GenerationIsSound RulesAreComputed CatalogueIsWhole ImportIsVerified
PROPERTIES WorkEnds
CHECK_DEADLOCK FALSE
