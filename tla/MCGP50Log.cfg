SPECIFICATION LogSpec
CONSTANTS
    Unsound = TRUE
    Clauses <- MCClauses
    Receipts <- MCReceipts
    Rules <- MCRules
    Contra <- MCContra
    Undecided <- MCUndecided
    Holds <- MCHolds
    Events <- LogEvents
    InitLog <- LogInit
INVARIANTS
    AllowedReleaseIsConsistent
PROPERTIES
    LossNeedsLifecycle
    RetractionIsLocal
    FailureIsInert
    RepairIsLimited
CHECK_DEADLOCK FALSE
