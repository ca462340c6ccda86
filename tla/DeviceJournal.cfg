SPECIFICATION Spec
CONSTANTS
    Drafts = {draft1, draft2}
    Creations = {draft2}
    Foreign = {foreign1}
    MaxFaults = 2
    None = None
CHECK_DEADLOCK FALSE
INVARIANTS
    CheckpointApplied
PROPERTIES
    OwnersWorkStays
    Converges
