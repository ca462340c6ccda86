SPECIFICATION Spec
CONSTANTS
    None = None
    MaxInstances = 3
    MaxUpdates = 2
    MaxOps = 5
    MaxSaves = 1
    MaxBypass = 1
    MaxFaults = 1
INVARIANTS
    OneOperationAtATime
    ActiveLoadedIncoming
    
CHECK_DEADLOCK FALSE
