\* Bounded inputs of every merge, see MCReconciliation.
SPECIFICATION Spec
CONSTANTS
    None = None
    i1 = i1
    i2 = i2
    fa = fa
    fb = fb
    fc = fc
    fn = fn
    fm = fm
    x1 = x1
    x2 = x2
    x3 = x3
    x4 = x4
    d1 = d1
    d2 = d2
    d3 = d3
    Words <- MCWords
    Breaks <- MCBreaks
    WordLimit = 2
    LineLimit = 2
    TokenLimit = 14
    DepthLimit = 2
    NotIds = {"null"}
    Key <- MCKey
    Less <- MCLess
    SizeSlack = 0
    NoteJobs <- MCNoteJobs
    SettingsJobs <- MCSettingsJobs
    EnabledJobs <- MCEnabledJobs
    FileJobs <- MCFileJobs
    PackageJobs <- MCPackageJobs
    FolderJobs <- MCFolderJobs
    MoveJobs <- MCMoveJobs
    AlignJobs <- MCAlignJobs
    BatchJobs <- MCBatchJobs
INVARIANTS
    MergesKeepBothSides
    DevicesAgree
    NoEditDropped
    PackagesStayWhole
    MovesAreSound
    BatchMakesTheTree
CHECK_DEADLOCK FALSE
