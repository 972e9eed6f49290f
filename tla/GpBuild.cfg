SPECIFICATION Spec
CONSTANTS
    Procs = {p, q}
    Reverts = FALSE
    ByHand = TRUE
    MayCrash = TRUE
    MaxEdits = 3
INVARIANTS
    StaleOnlyIfOvertaken
CHECK_DEADLOCK FALSE
