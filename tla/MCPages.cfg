SPECIFICATION Spec
CONSTANTS
    MaxRow = 3
    MaxTime = 3
    Limits = {1, 2}
    MaxChanges = 2
INVARIANTS
    NothingSkipped
    NothingTwice
CHECK_DEADLOCK FALSE
