-------------------------- MODULE MCRecordedPhases --------------------------
(***************************************************************************)
(* The recorded phases beside each other: phase 3 (the variables of        *)
(* Phase3Run), the compilation of the script (those ending in 2), the      *)
(* score run (those ending in S) and the older phases 4 and 5 (those       *)
(* ending in L).  A behaviour is one of the phase that runs; the others    *)
(* rest in their initial states.                                           *)
(***************************************************************************)
EXTENDS Phase3Run

VARIABLES
    running,
    op2, pc2, at2, budget2, fresh2, reason2,
    folder2, outputs2, summary2, step2, bundle2,
    opS, pcS, atS, budgetS, freshS, reasonS,
    groupsS, progressS, noticeS, outputsS, soundS,
    opL, pcL, atL, budgetL, freshL, reasonL,
    layerL, sourceL, representableL, outputsL, stateL, summaryL, stepL

Compilation == INSTANCE Phase2Run WITH
    op <- op2, pc <- pc2, at <- at2, budget <- budget2, fresh <- fresh2,
    reason <- reason2, folder <- folder2, outputs <- outputs2,
    summary <- summary2, step <- step2, bundle <- bundle2

Score == INSTANCE ScoreRun WITH
    op <- opS, pc <- pcS, at <- atS, budget <- budgetS, fresh <- freshS,
    reason <- reasonS, groups <- groupsS, progress <- progressS,
    notice <- noticeS, outputs <- outputsS, sound <- soundS

Layer == INSTANCE LayerRun WITH
    op <- opL, pc <- pcL, at <- atL, budget <- budgetL, fresh <- freshL,
    reason <- reasonL, layer <- layerL, source <- sourceL,
    representable <- representableL, outputs <- outputsL, state <- stateL,
    summary <- summaryL, step <- stepL

ASSUME LayerAbsentAssumption == None \notin Layer!Summary \cup Layer!LayerFailure

compilation ==
    <<op2, pc2, at2, budget2, fresh2, reason2, folder2, outputs2, summary2, step2, bundle2>>

score ==
    <<opS, pcS, atS, budgetS, freshS, reasonS, groupsS, progressS, noticeS, outputsS, soundS>>

layers ==
    <<opL, pcL, atL, budgetL, freshL, reasonL,
      layerL, sourceL, representableL, outputsL, stateL, summaryL, stepL>>

phases == <<vars, compilation, score, layers, running>>

PhasesInit ==
    /\ running \in {"compilation", "phase 3", "score", "layer"}
    /\ Init /\ Compilation!Init /\ Score!Init /\ Layer!Init
    /\ running # "score" => soundS
    /\ running # "layer" =>
          layerL = "accompaniment" /\ sourceL = [i \in 1..N |-> 0]
    /\ running = "layer" => \E i \in 1..N : sourceL[i] > 0

RunCompilation ==
    running = "compilation" /\ Compilation!Next /\ UNCHANGED <<vars, score, layers, running>>

RunPhase3 ==
    running = "phase 3" /\ Next /\ UNCHANGED <<compilation, score, layers, running>>

RunScore ==
    running = "score" /\ Score!Next /\ UNCHANGED <<vars, compilation, layers, running>>

RunLayer ==
    running = "layer" /\ Layer!Next /\ UNCHANGED <<vars, compilation, score, running>>

PhasesSpec ==
    /\ PhasesInit /\ [][RunCompilation \/ RunPhase3 \/ RunScore \/ RunLayer]_phases
    /\ WF_phases(RunCompilation /\ Compilation!Advance)
    /\ WF_phases(RunPhase3 /\ Advance)
    /\ WF_phases(RunScore /\ Score!Advance)
    /\ WF_phases(RunLayer /\ Layer!Advance)

-----------------------------------------------------------------------------
(* Outputs stand for a whole score, and groups and progress for accepted   *)
(* operations, whichever invocation wrote them last (ScoreRun).            *)
ScoreIsBacked ==
    Score!TypeOK /\ Score!OutputsAreWhole /\ Score!ProgressIsBacked

(* The composition bundle copies a whole compilation, and only a failed    *)
(* call keeps a compilation from being finished (Phase2Run); a complete    *)
(* foreground or accompaniment is whole, and nothing was compared with what*)
(* was not accepted (LayerRun).                                            *)
ResultsAreWhole ==
    /\ Compilation!TypeOK /\ Compilation!BundleIsWhole /\ Compilation!ConflictMeansDead
    /\ Layer!LayerIsWhole /\ Layer!ComparesWithAccepted

(* Each phase ends for good at most once, and an invocation that reports   *)
(* the end reports the one that is saved (RecordedPhase).                  *)
KeepPhasePromises ==
    KeepsPhasePromise /\ Compilation!KeepsPhasePromise /\ Score!KeepsPhasePromise
    /\ Layer!KeepsPhasePromise

(* When all responses of a phase are accepted, an invocation that is not   *)
(* stopped publishes them, if it finds its runner ready where one is       *)
(* asked for.                                                              *)
AcceptedWorkIsPublished ==
    /\ AcceptedWorkIsFinished
    /\ Compilation!AcceptedWorkIsBundled
    /\ Score!AcceptedScoreIsPublished
    /\ Layer!AcceptedLayerIsFinished
=============================================================================
