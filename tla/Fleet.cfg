CONSTANTS
    a = a  b = b
    Reaper = Reaper
    None = None
    Prs <- TwoPrs
    GlobalLimit = 1
    MaxCreates = 2
    MaxFaults = 1
SPECIFICATION MCSpec
INVARIANTS UpHasNamespace
PROPERTIES ChangedUnderLock LimitRestored CreatesReturn LeftoversGo
CHECK_DEADLOCK FALSE
