\* Two installations, two late writes, one cache, two ends of the process.
SPECIFICATION Spec
CONSTANTS
    None = None
    NoCode = NoCode
    First = "v1"
    Versions = {"v1", "v2"}
    Edits = {"e1", "e2"}
    Caches = {"c"}
    MaxInstalls = 2
    MaxStops = 2
PROPERTIES
    RecoveryLosesNothing
    PackageComesBack
