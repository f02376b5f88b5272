SPECIFICATION Spec
CONSTANTS
    a = a
    b = b
    n = n
    z = z
    ka = ka
    kb = kb
    kn = kn
    Objects = {a, b, n, z}
    UIDs <- MCUIDs
    NoUID = NoUID
    Keys = {ka, kb, kn}
    KeyOf <- MCKeyOf
    Explicit <- DependsOnEdges
    Implicit <- NamespaceEdges
    NamespaceOf <- MCNamespaceOf
    InvNamespace = n
    NoObject = NoObject
    Requests <- NoPruneRequests
    Turns <- AnyTurn
    LateReports = FALSE
    MaxRuns = 2
    MaxDrift = 0
PROPERTIES
    OwnedStaysTracked
CHECK_DEADLOCK FALSE
