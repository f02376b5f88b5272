SPECIFICATION Spec
CONSTANTS
    a = a
    b = b
    Objects = {a, b}
    Plans <- PlansDef
    Printers = {"events", "json", "table"}
    Policies = {"ExitEarly", "SkipInvalid"}
    MaxUpdates = 2
INVARIANTS
    NilMeansNothingFailed
    AttemptsAreObjects
    ShownIsLast
PROPERTIES
    RunEnds
