CONSTANTS
    Ops <- ThreeOps
    None = None
    Failures <- NoFailure
    Overlap = FALSE
    ConfigChanges = TRUE
    a = a
    b = b
    c = c
    d = d
SYMMETRY OpSymmetry
SPECIFICATION Spec
INVARIANT SettledSuccess
CHECK_DEADLOCK FALSE
