SPECIFICATION Spec
CONSTANTS
    MaxNotes = 3
    Limit = 2
    MaxIncidents = 2
INVARIANT
    InboxResumes
CHECK_DEADLOCK FALSE
