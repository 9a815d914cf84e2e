\* Two publishers, two batches, three runs, documents of two tables, three table maps.
CONSTANTS
    None = None
    Portions = 2
    Batches = {b1, b2}
    Runs = {r1, r2, r3}
    Requests = {q1, q2}
    Cleaners = {c1, c2}
    Readers = {v1}
    Publishers = {p1, p2}
    Inputs <- MCInputs
    MaxFaults = 1
    Documents <- SDocuments
    MaxTables = 2
    MaxRows = 2
    MaxColumns = 3
    MaxCells = 7
    StagedTables <- ATables
    Concepts <- AConcepts
    Outcomes <- AOutcomes
    Proposals <- AProposals
    Changes <- AChanges
    MaxNodes = 3
    MaxSuggested = 2
    MaxEdges = 3
    MaxVersions = 3
SPECIFICATION MCSpec
INVARIANTS CompilationIsExact SourcesAreKept TablesAreWhole DraftsAreExact
PROPERTIES ImplementsRetention WorkEnds
CHECK_DEADLOCK FALSE
