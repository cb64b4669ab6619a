\* Every call of save returns; three encryptions, no symmetry.
CONSTANTS
    p1 = p1
    p2 = p2
    p3 = p3
    default = default
    other = other
    none = none
    Procs <- TwoProcs
    DefaultSettings <- default
    NoSettings <- none
    FsyncCoversParent = TRUE
    MaxRev = 3
    Settings <- OneSetting
    MaxEdits = 0
    MaxTime = 0

SPECIFICATION FairSpec
PROPERTIES
    SaveReturns
