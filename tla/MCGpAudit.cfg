CONSTANTS
    None = None
    Points = {1, 2}
    Statements <- MCStatements
    Model <- MCModel
    Edge <- MCEdge
    Claim <- MCClaim
    Inference <- MCInference
    Order <- MCOrder
    BuiltBy <- MCBuiltBy
    Partition <- MCPartition
    Subjects <- MCSubjects
    Geometries <- MCGeometries
    Verifiers = {v1}
    MaxRuns = 2
    MaxFailed = 1
    MaxGone = 1
SPECIFICATION Spec
INVARIANTS TypeOK WalkIsTrue CleanIsTrue
PROPERTIES InconclusiveGrantsNothing
