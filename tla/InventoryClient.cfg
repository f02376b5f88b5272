SPECIFICATION Spec
CONSTANTS
    Clients = {c1, c2}
    Contents <- ContentsDef
    Modes <- AllModes
    OtherMaps = {}
    Steps = 2
    MaxCalls = 3
    MaxNotes = 2
    MaxFaults = 2
INVARIANTS
    ClientTypeOK
    NilMeansDone
    UndisturbedIsComplete
    ObservedIsOfTheSpec
    ReadBack
PROPERTIES
    ForeignKept
