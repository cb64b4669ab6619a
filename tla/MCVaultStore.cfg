\* Three processes, three encryptions, any call failing, kills and power loss.
CONSTANTS
    p1 = p1
    p2 = p2
    p3 = p3
    default = default
    other = other
    none = none
    Procs <- ThreeProcs
    DefaultSettings <- default
    NoSettings <- none
    FsyncCoversParent = TRUE
    MaxRev = 3
    Settings <- OneSetting
    MaxEdits = 0
    MaxTime = 0

SYMMETRY Symmetry
SPECIFICATION Spec
INVARIANTS
    StoreInv
    AckedSurvive
    FileComplete
    OutcomeMatchesDisk
PROPERTIES
    AtomicSpec
