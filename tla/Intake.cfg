\* Two jobs for one place, two processes; three uploads for two slots.
CONSTANTS
    MaxJobs = 2
    MaxAttempts = 1
    MaxPending = 1
    Pages = 1
    Workers = {w1, w2}
    Clients = {u1, u2, u3}
    Slots = 2
    QueueLimit = 2
    MaxSize = 1
    MaxPaths = 4
    None = None
SPECIFICATION MCSpec
INVARIANTS QueueBounded UploadsAreKept
PROPERTIES WorkEnds
CHECK_DEADLOCK FALSE
