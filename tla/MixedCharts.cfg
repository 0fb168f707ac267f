CONSTANTS
    MaxDeps = 2
    Nil = Nil
    Zero = Zero
SPECIFICATION Spec
INVARIANT OwnChart
CHECK_DEADLOCK FALSE
