SPECIFICATION Spec
CONSTANTS
    Keys <- MCKeys
    Labels <- MCLabels
    LabelOf <- MCLabelOf
    Receipts <- MCReceipts
    PremisesOf <- MCPremises
    Valid <- MCValid
    Offers <- MCOffers
    Batches <- Nothing
    Covers <- Nothing
    Proposals <- Nothing
    GoalClaims <- NoGoal
    Rounds = 8
    Starts <- LossesStarts
    Broken = {"ax"}
    Branches = {X, Y}
    Procs = {p}
    Statements = {"v1"}
    Draft = "v1"
    Killable <- Nothing
PROPERTIES
    MergeListsLosses
SYMMETRY Alike
CHECK_DEADLOCK FALSE
