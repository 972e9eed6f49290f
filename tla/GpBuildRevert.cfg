SPECIFICATION Spec
CONSTANTS
    Procs = {p}
    Reverts = TRUE
    ByHand = FALSE
    MayCrash = TRUE
    MaxEdits = 2
INVARIANTS
    RunsCurrentChecker
CHECK_DEADLOCK FALSE
