CONSTANTS
    Lockers <- ThreeLockers
    Direct <- NoDirect
    LockTimeout = 4
    LockDelay = 2
    PreemptionTimeout = 2
    MaxLockDuration = 7
    UnlockTimeout = 1
    KeepAlivePeriod = 1
    Faults <- NoFault
    MaxFaults = 0
    NoOne = NoOne
    Pool = Pool
    a = a
    b = b
    c = c
SYMMETRY LockerSymmetry
SPECIFICATION Spec
INVARIANTS Preemptible
CHECK_DEADLOCK FALSE
