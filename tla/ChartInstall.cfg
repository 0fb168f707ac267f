CONSTANTS
    Charts <- ThreeCharts
    Built <- TwoCharts
    LateStart = FALSE
    a = a
    b = b
    c = c
SPECIFICATION FairSpec
INVARIANTS DependenciesFirst ImageFirst SuccessIsComplete
PROPERTIES NoLateRelease AllEnd
CHECK_DEADLOCK FALSE
