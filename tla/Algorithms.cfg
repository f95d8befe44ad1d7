SPECIFICATION InputSpec
CONSTANTS
    None = None
    MaxSections = 4
    MaxEdits = 1
    Sections <- MCSections
    Material = {m, n}
    MaxPlacements = 4
    MaxRelations = 2
    MaxMaterials = 5
    MaxWeight = 3
    Leaf <- MCLeaf
    Note <- MCNote
    Setup <- MCSetup
    MaxLeaves = 2
    MaxNotes = 2
    Depress = 2
    Early = 5
    Spread = 1
    Event <- MCEvent
    Melody <- MCMelody
    Harmony <- MCHarmony
    Allowed <- MCAllowed
    Budget = {5, 1000}
    MaxEvents = 3
    MaxJoint = 2
    MaxUnits = 12
SYMMETRY MaterialsAlike
INVARIANTS
    ScriptIsInOrder
    WorkIsPlanned
    RenderingIsSound
    AccompanimentIsPlaced
CHECK_DEADLOCK FALSE
