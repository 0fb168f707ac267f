CONSTANTS
    Lockers <- ThreeLockers
    Direct <- OneReaper
    LockTimeout = 4
    LockDelay = 2
    PreemptionTimeout = 2
    MaxLockDuration = 7
    UnlockTimeout = 1
    KeepAlivePeriod = 1
    Faults <- AfterListen
    MaxFaults = 1
    NoOne = NoOne
    Pool = Pool
    a = a
    b = b
    c = c
SYMMETRY LockerSymmetry
SPECIFICATION Spec
INVARIANTS MutualExclusion LockIsAttended
CHECK_DEADLOCK FALSE
