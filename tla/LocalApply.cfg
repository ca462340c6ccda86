SPECIFICATION Spec
CONSTANTS
    Original = original
    Incoming = incoming
    Drafts = {draft1, draft2}
    Torn = torn
    Absent = Absent
    None = None
    MaxEdits = 3
    MaxFaults = 4
CHECK_DEADLOCK FALSE
INVARIANTS
    OwnerVersionKept
    OriginalsArchived
PROPERTIES
    AppliedMeansDone
    QuietCompletes
