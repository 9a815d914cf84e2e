\* One batch, one request, one cleaner and one reader.
CONSTANTS
    Batches = {b1}
    Runs = {r1}
    Requests = {q1}
    Cleaners = {c1}
    Readers = {v1}
    Portions = 1
    None = None
SPECIFICATION Spec
INVARIANTS PagesAreWhole
