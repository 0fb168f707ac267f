CONSTANTS
    Ops <- TwoOps
    None = None
    Failures <- EveryFailure
    Overlap = TRUE
    ConfigChanges = TRUE
    a = a
    b = b
    c = c
    d = d
SPECIFICATION FairSpec
INVARIANTS OneLiveContext OneRecord NoRowConflict
PROPERTY KeepsLockContract
CHECK_DEADLOCK FALSE
