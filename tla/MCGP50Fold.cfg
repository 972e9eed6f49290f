SPECIFICATION FairSpec
CONSTANTS
    Unsound = FALSE
    Clauses <- MCClauses
    Receipts <- MCReceipts
    Rules <- MCRules
    Contra <- MCContra
    Undecided <- MCUndecided
    Holds <- MCHolds
    Events <- FoldEvents
    InitLog <- FoldInit
INVARIANTS
    TypeOK
    ReachedIsLeast
    ViewIsGrounded
    SupportIsTrue
    FreezeNeedsUnsoundReceipt
PROPERTIES
    ImplementsCustody
    FoldTerminates
CHECK_DEADLOCK FALSE
