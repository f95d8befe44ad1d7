SPECIFICATION RunSpec
CONSTANTS
    Process = {p1}
    Weights <- MCWeights
    Ceiling = 3
    Limits = {2, 6}
    Given <- MCGiven
    Transitions = TRUE
    MaxPrepares = 1
    MaxStops = 2
    MaxMaterials = 5
    MaxCeiling = 3
    None = None
INVARIANTS
    VerdictsAreBacked
    BatchesFit
PROPERTIES
    SettledStays
    RunsSettle
