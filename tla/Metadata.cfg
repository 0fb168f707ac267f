CONSTANTS
    MaxDeps = 2
    Nil = Nil
    Zero = Zero
    Worlds <- SmallWorlds
    App = app
    None = None
    lib = lib
    sub = sub
    Ops = {1, 2}
    TempNames = {"s", "t"}
    Charts <- TwoCharts
    Primary = "0"
    Contents <- Small
    WithVars = {"1"}
    MaxErrors = 1
SPECIFICATION ConfigurationSpec
INVARIANTS Installable TransitivesRequired RefsMatch LocationsExist FilesKept
PROPERTIES FetchEnds
CHECK_DEADLOCK FALSE
