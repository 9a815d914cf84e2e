\* One attempt whose worker can die after it has registered.
CONSTANTS
    MaxAttempts = 2
    Requests = {p1}
    None = None
SPECIFICATION Spec
INVARIANTS FailedIsUnregistered
