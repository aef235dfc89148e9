SPECIFICATION Spec
CONSTANTS
    Readers = {r1}
    Handlers = {h1, h2}
    Commands = {k1, k2}
    PageSize = 1
    MaxMessages = 2
    Tombstone = 3
    MaxIncidents = 1
    None = None
SYMMETRY Symmetry
INVARIANTS
    OneMessagePerCommand
    AnnouncedOnce
    ViewsCatchUp
CHECK_DEADLOCK FALSE
