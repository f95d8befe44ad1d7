SPECIFICATION Spec
CONSTANTS
    Running = {"reviewed by both", "reviewed by one", "stages"}
    Proc = {p1, p2}
    Advancing = p1
    Answer = {good, poor, bad}
    Bad = {bad}
    Awkward = {poor}
    N = 3
    Uses <- RunUses
    Modelled = {1, 3}
    Checked = {1}
    Reviewed = {1, 3}
    RepairLimit = 1
    S = 3
    K = 2
    StageReviewed = {3}
    MaxCrash = 1
    None = None
    Key <- ScriptKey
    Val = {1, 2}
    Reads <- ScriptReads
    Operation <- ScriptOperation
    Needs <- ScriptNeeds
    Position <- ScriptPosition
    InitialWorkspaces <- Earlier
    Shared <- Met
    Author = {a1, a2}
    First = a1
    MaxRevision = 2
    Missing = Missing
    Parent <- Sections
    MaxDirections = 3
INVARIANTS
    RunIsBacked
    ChainHolds
PROPERTIES
    KeepStagePromises
    AdvancedRunsEnd
