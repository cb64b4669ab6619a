\* The settings audit: two settings, three encryptions, a clock that runs,
\* stands still, goes back or is beyond what an edit may record.
CONSTANTS
    p1 = p1
    p2 = p2
    p3 = p3
    default = default
    other = other
    none = none
    Procs <- TwoProcs
    DefaultSettings <- default
    NoSettings <- none
    FsyncCoversParent = TRUE
    MaxRev = 3
    Settings <- TwoSettings
    MaxEdits = 2
    MaxTime = 2

SYMMETRY Symmetry
SPECIFICATION Spec
INVARIANTS
    AuditReadable
PROPERTIES
    EditsCountCommits
