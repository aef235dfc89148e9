SPECIFICATION Spec
CONSTANTS
    Intents = {i1, i2}
    Handlers = {h1}
    Workers = {w1}
    Cleaners = {m1}
    Quota = 1
    MaxAttempts = 2
    MaxStalls = 1
    MaxFaults = 0
    MaxPuts = 2
    None = None
INVARIANTS
    QuotaHeld
CHECK_DEADLOCK FALSE
