SPECIFICATION Spec
CONSTANTS
    t1 = t1
    p1 = p1
    TopicOf <- WithReply
    Topics = {t1}
    Posts = {p1}
    Workers = {w1}
    Processes = {"p"}
    ProcessOf <- OneProcess
    MaxEvents = 2
    MaxIncidents = 0
    Nobody = Nobody
INVARIANTS
    PublicPostsAreFound
CHECK_DEADLOCK FALSE
