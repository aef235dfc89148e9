SPECIFICATION Spec
CONSTANTS
    Intents = {i1}
    Handlers = {h1}
    Workers = {w1}
    Cleaners = {m1}
    Quota = 1
    MaxAttempts = 2
    MaxStalls = 1
    MaxFaults = 1
    MaxPuts = 1
    None = None
INVARIANTS
    RetryKeepsValidUpload
CHECK_DEADLOCK FALSE
