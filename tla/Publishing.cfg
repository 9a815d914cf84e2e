\* Two runs and three jobs; two business tables of two rows and one table of the
\* application; two operators who synchronise two tables twice; batches of two
\* columns, two in flight, one retry; two answers remembered.
CONSTANTS
    MaxRuns = 2
    MaxJobs = 3
    Tables = 1
    Chunks = 2
    BusinessTables = {1, 2}
    Auxiliary = {3}
    Rows = {1, 2}
    OldRows = {5}
    NewRows = {6, 7}
    Garbled = 9
    SummaryTables = {1, 2}
    Operators = {1, 2}
    MaxSyncs = 2
    MaxWrites = 2
    None = None
    Inputs <- NInputs
    BatchColumns = 2
    MaxPrompt = 3
    Concurrency = 2
    MaxRetries = 1
    GroupSize = 2
    CacheSize = 2
    Revisions = {1, 2}
    Pinned = 1
SPECIFICATION MCSpec
INVARIANTS RecordsAgree CurrentIsWhole TablesAreReplacedOnce AnalysisIsSound
PROPERTIES PointerAdvances ReadyIsFinal AnalysisEnds
CHECK_DEADLOCK FALSE
