\* One job, three attempts, two processes: old attempts against new ones.
CONSTANTS
    MaxJobs = 1
    MaxAttempts = 3
    MaxPending = 1
    Pages = 2
    Workers = {w1, w2}
SPECIFICATION Spec
INVARIANTS TypeOK PublishedOnce ReadyIsComplete
PROPERTIES FinishedIsFinal ImplementsPublishOnce
SYMMETRY WorkerSymmetry
