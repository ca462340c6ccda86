SPECIFICATION Spec
CONSTANTS
    None = None
    MaxEdits = 1
    MaxRemote = 1
    MaxFaults = 1
PROPERTIES
    CancelledStaysCancelled
    EditReachesSync
CHECK_DEADLOCK FALSE
