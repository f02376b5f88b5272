SPECIFICATION Spec
CONSTANTS
    a = a
    b = b
    n = n
    z = z
    ka = ka
    kb = kb
    kn = kn
    Objects = {a, b, n, z}
    UIDs <- MCUIDs
    NoUID = NoUID
    Keys = {ka, kb, kn}
    KeyOf <- MCKeyOf
    Explicit <- DependsOnEdges
    Implicit <- NamespaceEdges
    NamespaceOf <- MCNamespaceOf
    InvNamespace = n
    NoObject = NoObject
    Requests <- SafetyRequests
    Turns <- SafetyTurns
    LateReports = TRUE
    MaxRuns = 3
    MaxDrift = 1
INVARIANTS
    TypeOK
PROPERTIES
    OwnedStaysTrackedButLeftOut
    AppliedSurvivesRun
    DependentsGoneFirst
    DryRunTouchesNothing
CHECK_DEADLOCK FALSE
