\* One publisher whose draft lingers; the other components are as small as can be.
CONSTANTS
    None = None
    Portions = 1
    Batches = {b1}
    Runs = {r1}
    Requests = {q1}
    Cleaners = {c1}
    Readers = {v1}
    Publishers = {p1}
    Inputs <- MCInputs
    MaxFaults = 1
    Documents = {}
    MaxTables = 2
    MaxRows = 2
    MaxColumns = 3
    MaxCells = 7
    StagedTables <- ATables
    Concepts <- AConcepts
    Outcomes <- AOutcomes
    Proposals <- AProposals
    Changes <- AChanges
    MaxNodes = 3
    MaxSuggested = 2
    MaxEdges = 3
    MaxVersions = 1
SPECIFICATION MCSpec
INVARIANTS CompiledIsWhole
CHECK_DEADLOCK FALSE
