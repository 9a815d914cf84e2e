\* One run, and a graph job whose thread outlives its lease.
CONSTANTS
    MaxRuns = 1
    MaxJobs = 2
    Tables = 1
    Chunks = 1
SPECIFICATION FairSpec
PROPERTIES FailedLeavesGraph
