CONSTANTS
    Nodes <- TwoNodes
    Built <- OneBuilt
    OtherNodes <- OtherNode
    Null = Null
    a = a
    b = b
    c = c
SPECIFICATION FairSpec
INVARIANTS OutcomeShown DoneIsComplete
PROPERTIES NeverErased ProgressKept EventEnds
CHECK_DEADLOCK FALSE
