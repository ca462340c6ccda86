CONSTANTS
    Drafts = {d1, d2}
    Foreign = {f1}
    MaxHeads = 4
    MaxRepairs = 1
    MaxLocks = 1
    MaxFaults = 1
    Mark = Mark
    Owner = Owner
    Repair = Repair
    None = None

SPECIFICATION Spec

INVARIANTS
    NothingDestroyed
    RepairKeepsItsHold
    BaseIsHead
PROPERTY
    Converges
CHECK_DEADLOCK FALSE
