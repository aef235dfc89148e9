SPECIFICATION FairSpec
CONSTANTS
    Intents = {i1}
    Handlers = {h1, h2}
    Workers = {w1, w2}
    Cleaners = {m1, m2}
    Quota = 1
    MaxAttempts = 2
    MaxStalls = 1
    MaxFaults = 2
    MaxPuts = 2
    None = None
INVARIANTS
    TypeOK
    OnlyCheckedContentIsReady
    ReadyImagesAreReencoded
    CleanupSparesAssets
PROPERTIES
    JobsEnd
    ExpiredIntentsAreCleaned
CHECK_DEADLOCK FALSE
