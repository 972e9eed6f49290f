SPECIFICATION Spec
CONSTANTS
    None = None
    P = P
    Q = Q
    Event <- MCEvent
    Procs = {P, Q}
    Starts <- MCStarts
    Batches <- MCBatches
    Legacy <- MCLegacy
    Works <- MCWorks
    Work <- MCWork
    MayCrash = TRUE
INVARIANTS
    TypeOK
    FoldIgnoresOrder
    BreaksOnlyByConflict
    GateKnows
    NoWorkTwice
    WorkReadsWithGraph
CHECK_DEADLOCK FALSE
