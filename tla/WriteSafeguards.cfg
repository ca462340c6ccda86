SPECIFICATION Spec
CONSTANTS
    Devices = {d1, d2}
    Files = {f1}
    QuarantineIds = {q1}
    Calls = {c1, c2}
    DeletionCount = 1
    ExtensionCount = 1
    MaxSnapshots = 3
    None = None
SYMMETRY Symmetry
CHECK_DEADLOCK FALSE
INVARIANTS
    RiskyNeedsDecision
    
