SPECIFICATION PhasesSpec
CONSTANTS
    N = 2
    Key = {c, g}
    None = None
INVARIANTS
    CompleteIsWhole
    InvocationFits
    ScoreIsBacked
    ResultsAreWhole
PROPERTIES
    KeepPhasePromises
    AcceptedWorkIsPublished
