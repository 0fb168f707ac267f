CONSTANTS
    Ops <- FourOps
    None = None
    Failures <- OperationErrors
    Overlap = FALSE
    ConfigChanges = FALSE
    a = a
    b = b
    c = c
    d = d
SYMMETRY OpSymmetry
SPECIFICATION Spec
INVARIANT SettledSuccess
INVARIANT SettledOwned
CHECK_DEADLOCK FALSE
