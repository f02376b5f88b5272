SPECIFICATION Spec
CONSTANTS
    MaxGen = 2
    MaxReplicas = 1
    PodSlots = {1, 2}
    Commands <- MCCommands
    NamespaceOf <- MCNamespaceOf
    Samples <- MCSamples
    MaxSamples = 1
INVARIANTS
    PollingTypeOK
    CollectorFollows
    ErrorIsReturned
    AugmentAgrees
PROPERTIES
    ExitMeansRolledOut
    CommandEnds
CHECK_DEADLOCK FALSE
