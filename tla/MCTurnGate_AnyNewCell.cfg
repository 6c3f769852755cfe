CONSTANTS
    Keys = {k, l}
    Calls = {i, j}
    Nothing = Nothing
    TurnIds = TRUE
    MaxTurns = 2
    MaxTime = 1
    MaxFaults = 1
SPECIFICATION Spec
SYMMETRY Symmetry
INVARIANT AnyNewCellReleases
CHECK_DEADLOCK FALSE
