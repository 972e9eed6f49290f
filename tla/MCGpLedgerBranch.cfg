SPECIFICATION Spec
CONSTANTS
    Keys <- GoalKeys
    Labels <- MCLabels
    LabelOf <- MCLabelOf
    Receipts <- GoalReceipts
    PremisesOf <- MCPremises
    Valid <- GoalValid
    Offers <- GoalOffers
    Batches <- MCBatches
    Covers <- MCCovers
    Proposals <- MCProposals
    GoalClaims <- MCGoalClaims
    Rounds = 8
    Starts <- BranchStarts
    Broken = {"ax"}
    Branches = {X}
    Procs = {p}
    Statements = {"v1", "v2", "v3"}
    Draft = "v1"
    Killable <- AllButBatch
INVARIANTS
    AcceptedStaysHeld
PROPERTIES
    HoldsEndByWithdrawal
    GoalRulesApplied
CHECK_DEADLOCK FALSE
