SPECIFICATION WorkSpec
CONSTANTS
    Process = {e, f}
    Path = {flow, copy}
    Id = {a, b}
    Text = {x, y}
    MaxRev = 2
    Overlap = FALSE
    Temp = {t1, t2, t3}
    None = None
SYMMETRY Symmetry
INVARIANTS
    BundlesHold
    DocumentsFit
PROPERTIES
    EditsAreKept
    ResultsStay
CHECK_DEADLOCK FALSE
