SPECIFICATION FairSpec
CONSTANTS
    Views = {v1}
    Topics = {t1}
    Batches = {b1, b2}
    Workers = {w1, w2}
    BatchTtl = 2
    Retention = 3
    PruneInterval = 4
    MaxHold = 1
    MaxTime = 4
    MaxFaults = 2
INVARIANTS
    TypeOK
    CountedOnce
PROPERTIES
    ImplementsTopicViews
    LostOnlyByExpiry
    EveryViewSettles
CHECK_DEADLOCK FALSE
