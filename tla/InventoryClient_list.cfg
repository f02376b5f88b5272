SPECIFICATION Spec
CONSTANTS
    Clients = {c1, c2}
    Contents <- ContentsDef
    Modes <- AllModes
    OtherMaps <- RootCA
    Steps = 2
    MaxCalls = 3
    MaxNotes = 2
    MaxFaults = 2
INVARIANTS
    ListReadsInventories
