SPECIFICATION FairSpec
CONSTANTS
    a = a
    b = b
    c = c
    u1 = u1
    u2 = u2
    Objects = {a, b, c}
    UIDs = {u1, u2}
    NoUID = NoUID
    Edges <- ABEdges
    Plans <- MCPlans
    Reports <- MCReports
    Answers <- MCAnswers
INVARIANTS
    TypeOK
    NoTaskOutlivesRun
    WaitBookkeeping
    SuccessTracksCache
    AppliedAfterDependencies
    DeletedAfterDependents
    OkMeansActuated
PROPERTIES
    AbortReturns
    TimeoutReturns
CHECK_DEADLOCK FALSE
