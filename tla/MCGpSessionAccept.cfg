SPECIFICATION Spec
CONSTANTS
    None = None
    P = P
    Q = Q
    Event <- MCEvent
    Procs = {P, Q}
    Starts <- MCAcceptors
    Batches <- MCBatches
    Legacy <- MCLegacy
    Works <- MCWorks
    Work <- MCWork
    MayCrash = FALSE
PROPERTY OnlyPruneDrops
CHECK_DEADLOCK FALSE
