SPECIFICATION Spec
CONSTANTS
    Devices = {d1, d2}
    BatchIds = {b1, b2}
    OperationIds = {o1, o2}
    SnapshotIds = {s1, s2, s3}
    Files = {f1, f2}
    Calls = {c1, c2}
    None = None
SYMMETRY Symmetry
CHECK_DEADLOCK FALSE
INVARIANTS
    
    HistoryIsOneLine
    NoLostUpdate
PROPERTIES
    AnswersHold
    AtomicHistory
