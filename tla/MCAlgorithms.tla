---------------------------- MODULE MCAlgorithms ----------------------------
(***************************************************************************)
(* The pure algorithms beside each other: the sections of a script         *)
(* (ScriptStructure), the plan of its placements (ScoreWorkPlan), its      *)
(* rendering and the units of its materials (ScoreRendering) and the       *)
(* pitches of its accompaniment (TexturePlacement).                        *)
(* A behaviour builds up the input of one of them; the others rest, and a  *)
(* property speaks of the one whose input is being built.                  *)
(***************************************************************************)
EXTENDS ScoreWorkPlan

CONSTANTS
    None,
    MaxSections, MaxEdits,  \* see ScriptStructure
    MaxMaterials,   \* bound: materials of a score
    MaxWeight,      \* bound: what one of them weighs
    Leaf, Note, Setup, MaxLeaves, MaxNotes, Depress, Early, Spread,
                    \* see ScoreRendering
    Event, Melody, Harmony, Allowed, Budget, MaxEvents, MaxJoint,
                    \* see TexturePlacement
    MaxUnits        \* bound: units shared by the materials of a score

VARIABLES
    building,
    parent, order, edits,
    weights,            \* of the materials of a score
    leaves, clock, setup, notes,
    events, foreground, allowed, budget

Script == INSTANCE ScriptStructure

Rendering == INSTANCE ScoreRendering

Texture == INSTANCE TexturePlacement

script == <<parent, order, edits>>

rendering == <<leaves, clock, setup, notes>>

texture == <<events, foreground, allowed, budget>>

inputs == <<building, script, music, weights, rendering, texture>>

(* Three leaves, the last two of them in one section.                      *)
MCSections == <<0, 1, 1, 3, 3>>

(* Two units under one harmony or under two.                               *)
Under(identities) ==
    [k \in DOMAIN identities |->
        [at |-> k - 1, length |-> 3 - Len(identities), identity |-> identities[k]]]

MCLeaf ==
    {leaf \in [harmonies : {Under(<<"a">>), Under(<<"a", "b">>)},
               steps : {<<1, 4>>, <<4, 4>>, <<0, 4>>}, pedal : {None, "none"}] :
        leaf.pedal = "none" => leaf.steps = <<4, 4>>}

Sound(at, length, pitch, role, accent) ==
    [at |-> at, length |-> length, pitch |-> pitch, role |-> role, accent |-> accent]

MCNote ==
    {Sound(0, 1, 1, "foreground", FALSE), Sound(0, 2, 1, "accompaniment", FALSE),
     Sound(1, 1, 1, "accompaniment", FALSE), Sound(0, 2, 2, "foreground", FALSE),
     Sound(1, 1, 2, "foreground", FALSE), Sound(0, 2, 1, "foreground", TRUE)}

Asked(at, length, degree, zone, layer) ==
    [at |-> at, length |-> length, degree |-> degree, zone |-> zone,
     layer |-> layer, harmony |-> 1]

MCEvent ==
    {Asked(0, 1, 1, 1, 1), Asked(0, 2, 1, 1, 1), Asked(0, 3, 3, 1, 1), Asked(0, 2, 1, 2, 2),
     Asked(1, 2, 1, 1, 1), Asked(1, 1, 1, 2, 2), Asked(1, 2, 2, 2, 2), Asked(1, 1, 3, 2, 2),
     Asked(2, 1, 1, 1, 1), Asked(2, 1, 1, 2, 1)}

Heard(at, length, pitch) == [at |-> at, length |-> length, pitch |-> pitch]

MCMelody ==
    {[upper |-> FALSE, notes |-> {Heard(0, 1, 46)}],
     [upper |-> TRUE, notes |-> {Heard(0, 3, 72)}],
     [upper |-> TRUE, notes |-> {Heard(1, 1, 47)}],
     [upper |-> TRUE, notes |-> {Heard(0, 1, 46), Heard(1, 1, 72), Heard(2, 1, 72)}],
     [upper |-> TRUE, notes |-> {Heard(2, 1, 4 + 12 * octave) : octave \in 2..8}]}

(* The chord of E major over the three units.                              *)
MCHarmony == << [at |-> 0, length |-> 3, root |-> 4, intervals |-> <<0, 4, 7>>] >>

MCAllowed == {<<21, 108>>, <<46, 108>>}

MCSetup ==
    {setting \in [pedal : {"harmony_legato", "phrase_legato"}, rolled : BOOLEAN,
                  release : {40, 100}, shared : BOOLEAN] :
        setting.shared = (setting.release = 100) /\ (~ setting.shared => setting.rolled)}

MaterialsAlike == Permutations(Material)

InputInit ==
    /\ Script!Init /\ PlanInit /\ weights = <<>> /\ Rendering!Init /\ Texture!Init
    /\ building \in {"script", "music", "score", "rendering", "texture"}
    /\ building # "rendering" => setup = CHOOSE first \in Setup : TRUE
    /\ building # "texture" =>
          /\ foreground = CHOOSE first \in Melody : TRUE
          /\ budget = CHOOSE first \in Budget : TRUE
          /\ allowed = CHOOSE first \in Allowed : TRUE

BuildScript ==
    building = "script" /\ Script!Next /\ UNCHANGED <<building, music, weights, rendering, texture>>

Compose ==
    building = "music" /\ PlanNext /\ UNCHANGED <<building, script, weights, rendering, texture>>

AddToScore ==
    /\ building = "score" /\ Len(weights) < MaxMaterials
    /\ \E w \in 1..MaxWeight : weights' = Append(weights, w)
    /\ UNCHANGED <<building, script, music, rendering, texture>>

Perform ==
    building = "rendering" /\ Rendering!Next /\ UNCHANGED <<building, script, music, weights, texture>>

AskForTexture ==
    /\ building = "texture" /\ Texture!AddEvent
    /\ UNCHANGED <<building, script, music, weights, rendering>>

InputNext ==
    BuildScript \/ Compose \/ AddToScore \/ Perform \/ AskForTexture

InputSpec == InputInit /\ [][InputNext]_inputs

(* The textures alone.                                                     *)
TextureInit == InputInit /\ building = "texture"

TextureSpec == TextureInit /\ [][AskForTexture]_inputs

-----------------------------------------------------------------------------
(* check accepts exactly the ordered trees, and what normalisation makes of*)
(* an answer can only be wrong in its parents (validation, proposal); in an*)
(* accepted script the spans are the order of performance, what is derived *)
(* from an earlier section never depends on itself, and the leaves of one  *)
(* section are mapped in the order in which they are performed.            *)
ScriptIsInOrder ==
    building = "script" =>
        /\ Script!CheckIsExact /\ Script!NormalisedOrdersAgree
        /\ Script!SpansAreThePerformance /\ Script!DerivationsHaveNoCycle
        /\ Script!SiblingsAreMappedInOrder

-----------------------------------------------------------------------------
(* The operations of a plan are right (build_score_work_plan).             *)
WorkIsPlanned == building = "music" => PlanIsRight

-----------------------------------------------------------------------------
(* Sections share the units of a score fairly; a score that was accepted is*)
(* played, its pedal following the harmony, or refused as unplayable, never*)
(* found wrong by the rendering's own checks; and the older pedal is lifted*)
(* (allocate_score_units, render_score_performance).                       *)
RenderingIsSound ==
    /\ building = "score" =>
          \A total \in 1..MaxUnits : Rendering!AllocationIsFair(weights, total)
    /\ building = "rendering" => Rendering!PlaysOrRefuses /\ Rendering!LegacyPedalIsLifted

(* The pitches of an accompaniment satisfy every constraint, are refused   *)
(* only where the search cannot know better, and cost a bounded number of  *)
(* evaluations (place_piano_texture_v4 to v8, _place_unit).                *)
AccompanimentIsPlaced ==
    building = "texture" => Texture!TextureIsPlaced /\ Texture!JointIsExact

(* A texture is refused as unplaceable only if no complete assignment      *)
(* exists, as place_piano_texture_v4 says of it.                           *)
UnplaceableMeansNone == Texture!UnplaceableMeansNone
=============================================================================
