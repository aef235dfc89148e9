SPECIFICATION Spec
CONSTANTS
    Requests = {r1, r2}
    ReplyKeys = {k1, k2}
    TopicKeys = {k3}
    Bodies = {b1, b2}
    Editors = {e1, e2}
    Opening = Opening
    Window = 1
    MaxTime = 1
    None = None
SYMMETRY Symmetry
INVARIANTS
    TypeOK
    OnePostPerWindow
    AnswersMatchRequests
    CountersMatchReplies
    NoLostUpdate
PROPERTIES
    QuietWhenClosed
    ImplementsIdempotentPosts
CHECK_DEADLOCK FALSE
