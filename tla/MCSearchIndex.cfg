SPECIFICATION FairSpec
CONSTANTS
    t1 = t1
    p1 = p1
    TopicOf <- WithReply
    Topics = {t1}
    Posts = {p1}
    Workers = {w1, w2}
    Processes = {"p"}
    ProcessOf <- OneProcess
    MaxEvents = 1
    MaxIncidents = 2
    Nobody = Nobody
INVARIANTS
    TypeOK
    TopicsCurrentUnlessOverlapped
PROPERTIES
    EventsComplete
    ReindexRepairs
CHECK_DEADLOCK FALSE
