SPECIFICATION Spec
CONSTANTS
    Requests = {r1, r2}
    Finalizer = finalizer
    Chunks = 2
    MaxEdits = 2
    MaxFaults = 2
    MaxStalls = 1
    Torn = Torn
    None = None
CHECK_DEADLOCK FALSE
PROPERTIES
    OnlyTheDeclaredIsStored
    AcknowledgedStays
    Uploaded
