CONSTANTS
    Lockers <- TwoLockers
    Direct <- NoDirect
    LockTimeout = 4
    LockDelay = 2
    PreemptionTimeout = 2
    MaxLockDuration = 7
    UnlockTimeout = 1
    KeepAlivePeriod = 1
    Faults <- EveryFault
    MaxFaults = 1
    NoOne = NoOne
    Pool = Pool
    a = a
    b = b
    c = c
SPECIFICATION FairSpec
PROPERTIES ImplementsLockService BlockedHolderLosesLock SessionReturned LockReturns
CHECK_DEADLOCK FALSE
