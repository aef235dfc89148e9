SPECIFICATION Spec
CONSTANTS
    Clients = {c1}
    Handlers = {h1, h2}
    Rows = {s1, s2, s3}
    MaxIncidents = 2
    None = None
SYMMETRY Symmetry
INVARIANTS
    OneLivePerFamily
    RevokedStayRevoked
    ReuseMeansLostAnswer
    SignedOutStoresNothing
    StaysSignedIn
CHECK_DEADLOCK FALSE
