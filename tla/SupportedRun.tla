---------------------------- MODULE SupportedRun ----------------------------
(***************************************************************************)
(* run_supported_normal_generation: a new plan is generated, and if it     *)
(* passes a whole-score run is prepared from it and executed; a manifest of*)
(* its own says how far this has come, and in the end what the whole-score *)
(* run (WholeScoreRun, of which this module wraps every step) says.        *)
(*                                                                         *)
(* The plan is generated by run_staged_pipeline_generation: what           *)
(* StagedPipeline shows of it is that the call is made once and that a plan*)
(* once recorded, refused or lost stays so.                                *)
(***************************************************************************)
EXTENDS WholeScoreRun

VARIABLES
    plan,           \* of the plan run: None, "open", "written", "recorded", "dead"
    outer,          \* the status in the outer manifest
    reported,       \* the calls it counts, the status it repeats, its final file
    step            \* the outer invocation: what it does next

outerVars == <<plan, outer, reported, step>>

allVars == <<vars, outerVars>>

Only == CHOOSE p \in Process : TRUE

(* One invocation, of a run that is prepared once: two would answer each   *)
(* other's calls, and a second preparation reopens what is settled.        *)
ASSUME OnceAssumption == Process = {Only} /\ MaxPrepares \in {0, 1}

ASSUME NoneAssumption ==
    /\ None \notin {"open", "prepared", "whole prepared", "written", "recorded", "dead"}
    /\ None \notin CallEnd \cup Settled
    /\ None \notin [status : {"completed", "failed"}, number : Nat]

Nothing == [calls |-> 0, status |-> None, smf |-> FALSE]

OuterWorking == {"plan", "prepare", "hand over", "whole", "report", "lost"}

OuterInit ==
    /\ Init /\ Harmony \in Call
    /\ plan = None /\ outer = None
    /\ reported = Nothing
    /\ step = "idle"

-----------------------------------------------------------------------------
PlanCalls == IF plan = None THEN 0 ELSE 1

(* prepare_supported_normal_generation, and where the run goes on from.    *)
RunFromTheStart ==                             \* faulty: the manifest there is is ignored
    /\ step \in {"idle", "done"}
    /\ outer' = "prepared" /\ step' = "plan"
    /\ UNCHANGED <<vars, plan, reported>>

Run ==
    /\ step \in {"idle", "done"}
    /\ outer' = IF outer = None THEN "prepared" ELSE outer
    /\ step' = IF outer' = "prepared" THEN "plan"
               ELSE IF outer' = "whole prepared" THEN "whole" ELSE "done"
    /\ UNCHANGED <<vars, plan, reported>>

StopOuter ==
    /\ step \in OuterWorking /\ stops < MaxStops
    /\ step' = "idle" /\ stops' = stops + 1
    /\ pc' = [pc EXCEPT ![Only] = "idle"]
    /\ spent' = CallNumber
    /\ UNCHANGED <<saved, at, prepares, limit, plan, outer, reported>>

(* execute_supported_piece_plan.                                           *)
AskPlan ==
    /\ step = "plan" /\ plan = None
    /\ plan' = "open"
    /\ UNCHANGED <<vars, outer, reported, step>>

PlanEnds ==
    /\ step = "plan" /\ plan = "open"
    /\ plan' \in {"written", "dead"}
    /\ UNCHANGED <<vars, outer, reported, step>>

RecordPlan ==
    /\ step = "plan" /\ plan = "written"
    /\ plan' \in {"recorded", "dead"}
    /\ UNCHANGED <<vars, outer, reported, step>>

UsePlan ==
    /\ step = "plan" /\ plan \in {"recorded", "dead"}
    /\ step' = IF plan = "recorded" THEN "prepare" ELSE "lost"
    /\ UNCHANGED <<vars, plan, outer, reported>>

(* The preparation may refuse a plan the plan run recorded (its leaves,     *)
(* final release, materials and transitions; the target rebuilt from it),  *)
(* before its manifest; what follows it may fail too.                      *)
PrepareWhole ==
    /\ step = "prepare"
    /\ \/ manifest' = "prepared" /\ told' = FALSE /\ step' \in {"hand over", "lost"}
       \/ UNCHANGED <<manifest, told>> /\ step' = "lost"
    /\ UNCHANGED <<attempt, record, failure, final, pc, at, history, plan, outer, reported>>

HandOver ==
    /\ step = "hand over"
    /\ outer' = "whole prepared"
    /\ reported' = [reported EXCEPT !.calls = PlanCalls]
    /\ step' = "whole"
    /\ UNCHANGED <<vars, plan>>

(* No plan, or one nothing could be prepared from.                         *)
LosePlan ==
    /\ step = "lost"
    /\ outer' = "failed"
    /\ reported' = [reported EXCEPT !.calls = PlanCalls]
    /\ step' = "done"
    /\ UNCHANGED <<vars, plan>>

(* execute_supported_whole_score: the inner run, then its manifest.        *)
StartWhole ==
    /\ step = "whole" /\ pc[Only] = "idle"
    /\ Execute(Only)
    /\ UNCHANGED outerVars

WorkWhole ==
    /\ step = "whole"
    /\ Work(Only)
    /\ UNCHANGED outerVars

Returned ==
    /\ step = "whole" /\ pc[Only] = "returned"
    /\ pc' = [pc EXCEPT ![Only] = "idle"]
    /\ step' = "report"
    /\ UNCHANGED <<saved, at, history, plan, outer, reported>>

Report ==
    /\ step = "report"
    /\ outer' = manifest
    /\ reported' = [calls |-> PlanCalls + CallNumber,
                    status |-> manifest, smf |-> "midi" \in final]
    /\ step' = "done"
    /\ UNCHANGED <<vars, plan>>

OuterWork ==
    \/ AskPlan \/ PlanEnds \/ RecordPlan \/ UsePlan \/ PrepareWhole \/ HandOver \/ LosePlan
    \/ StartWhole \/ WorkWhole \/ Returned \/ Report

OuterNext == Run \/ StopOuter \/ OuterWork

-----------------------------------------------------------------------------
(* Types.                                                                  *)
OuterTypeOK ==
    /\ TypeOK
    /\ plan \in {None, "open", "written", "recorded", "dead"}
    /\ outer \in {None, "prepared", "whole prepared"} \cup Settled
    /\ reported \in [calls : 0..(limit + 1), status : {None} \cup Settled, smf : BOOLEAN]
    /\ step \in {"idle", "done"} \cup OuterWorking

(* What the outer manifest reports is what happened, wherever the two were *)
(* stopped: every call that was made, and either the verdict of the inner  *)
(* run, with a file for every piece that fits, or that the run was given up*)
(* before the inner one made a call, and even then an inner manifest stands*)
(* only over a recorded plan.                                              *)
GivenUp ==
    /\ outer = "failed" /\ reported.status = None /\ CallNumber = 0
    /\ manifest = None \/ (manifest = "prepared" /\ plan = "recorded")

Carried ==
    /\ plan = "recorded" /\ outer = manifest /\ reported.status = manifest
    /\ outer = "fit" => reported.smf

ReportAgrees ==
    outer \in Settled => reported.calls = PlanCalls + CallNumber /\ (GivenUp \/ Carried)

(* A run that is under way or settled is not prepared a second time, and   *)
(* one that was given up is neither prepared nor started.                  *)
IsPreparedOnce ==
    /\ (outer = "whole prepared" \/ manifest \in Settled) =>
           manifest' # "prepared" \/ manifest = "prepared"
    /\ outer \in Settled => UNCHANGED <<manifest, attempt>>

PreparedOnce == [][IsPreparedOnce]_allVars

-----------------------------------------------------------------------------
(* Checked together: a supported run, and a whole-score run whose harmony  *)
(* and first batch were prepared with it (the same variables; the outer    *)
(* ones rest); and beside them the batches of a score to which materials   *)
(* are added one by one (TextureBatches).                                  *)
CONSTANTS
    MaxMaterials,   \* bound: materials of that score
    MaxCeiling      \* bound: events of one of its batches

ASSUME ScoreAssumption == MaxMaterials \in Nat /\ MaxCeiling \in Nat \ {0}

VARIABLES
    running,
    materials,      \* of that score: the events each requires
    maximum         \* the ceiling of its batches

score == <<materials, maximum>>

runVars == <<allVars, running, score>>

(* Three materials; the ceiling cuts them into two batches.                *)
MCWeights == <<2, 1, 3>>

MCGiven == {[harmony |-> FALSE, batches |-> 0], [harmony |-> TRUE, batches |-> 1]}

RunInit ==
    /\ materials = <<>> /\ maximum \in 1..MaxCeiling
    /\ \/ running = "supported" /\ OuterInit /\ maximum = 1
       \/ /\ running = "prepared" /\ Init /\ Harmony \notin Call /\ maximum = 1
          /\ plan = None /\ outer = None /\ reported = Nothing /\ step = "idle"
       \/ running = "score" /\ OuterInit

RunSupported == running = "supported" /\ OuterNext /\ UNCHANGED <<running, score>>

RunPrepared == running = "prepared" /\ Next /\ UNCHANGED <<outerVars, running, score>>

AddToScore ==
    /\ running = "score" /\ Len(materials) < MaxMaterials
    /\ \E w \in 1..maximum : materials' = Append(materials, w)
    /\ UNCHANGED <<allVars, running, maximum>>

(* The bound on the materials is reached.                                  *)
ScoreIsFull ==
    /\ running = "score" /\ Len(materials) = MaxMaterials
    /\ UNCHANGED runVars

SupportedGoesOn(Action) ==
    running = "supported" /\ Action /\ UNCHANGED <<running, score>>

PreparedGoesOn(Action) ==
    running = "prepared" /\ Action /\ UNCHANGED <<outerVars, running, score>>

RunNext == RunSupported \/ RunPrepared \/ AddToScore \/ ScoreIsFull

RunSpec ==
    /\ RunInit /\ [][RunNext]_runVars
    /\ WF_runVars(SupportedGoesOn(OuterWork))
    /\ WF_runVars(SupportedGoesOn(Run))
    /\ WF_runVars(PreparedGoesOn(Prepare))
    /\ WF_runVars(PreparedGoesOn(Work(Only)))
    /\ WF_runVars(PreparedGoesOn(Execute(Only)))

-----------------------------------------------------------------------------
(* A settled manifest says what the records and the promoted files say; a  *)
(* record has the number of its call; a run that was stopped spends no     *)
(* more calls (WholeScoreRun); and the outer manifest reports what happened*)
(* (SupportedRun).                                                         *)
VerdictsAreBacked ==
    /\ TypeOK /\ VerdictIsBacked /\ NumbersAreOrdinals /\ StoppedRunSpendsNoMore
    /\ running = "supported" => OuterTypeOK /\ ReportAgrees

(* A settled run is never reopened, and a run is prepared once, whatever   *)
(* is invoked again (WholeScoreRun, SupportedRun); and its steps are       *)
(* recorded as a staged run promises (StepLedger).                         *)
SettledStays == SettledIsFinal /\ PreparedOnce /\ KeepsLedgerPromise

(* A supported run is settled, and so is a run prepared in part.           *)
RunsSettle ==
    <>[](/\ running = "supported" => outer \in Settled
         /\ running = "prepared" => manifest \in Settled)

(* The batches of a score are as few as its ceiling allows, cover it, stay *)
(* what they are when it grows, and just whole batches may be prepared in  *)
(* advance (partition_texture_batches and execute_texture_stage).          *)
BatchesFit ==
    running = "score" =>
        /\ BatchesCoverTheScore(materials, maximum)
        /\ FewestCalls(materials, maximum)
        /\ PrefixIsWholeBatches(materials, maximum)
        /\ EarlierBatchesStay(materials, maximum)
=============================================================================
