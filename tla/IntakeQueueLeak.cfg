\* One job and two attempts are enough to leave a batch "building".
CONSTANTS
    MaxJobs = 1
    MaxAttempts = 2
    MaxPending = 1
    Pages = 1
    Workers = {w1, w2}
SPECIFICATION FairSpec
PROPERTIES EveryAttemptEnds
