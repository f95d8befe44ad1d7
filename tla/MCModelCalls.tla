---------------------------- MODULE MCModelCalls ----------------------------
(***************************************************************************)
(* The runs outside the public realization that ask the model, beside each *)
(* other: one call of the codex program (RecoveredCall), the pilot loop    *)
(* over such calls (PilotRun), and the staged pipeline.  A behaviour is one*)
(* of these; what does not run stays as it began.                          *)
(***************************************************************************)
EXTENDS RecoveredCall

CONSTANTS
    Candidates, MaxWanting,     \* of the pilot loop
    Batches, MaxStops           \* of the pipeline

VARIABLES
    running,
    answerP, recordP, finalP, pcP, atP, judgedP, revisedP, wantingP,
    attemptG, failureG, qualityG, gradedG, sourceG, stepG, pcG, atG, targetG, stopsG

pilot == <<answerP, recordP, finalP, pcP, atP, judgedP, revisedP, wantingP>>

pipeline ==
    <<attemptG, failureG, qualityG, gradedG, sourceG, stepG, pcG, atG, targetG, stopsG>>

Pilot == INSTANCE PilotRun WITH
    N <- Candidates,
    answer <- answerP, record <- recordP, final <- finalP,
    pc <- pcP, at <- atP, judged <- judgedP, revised <- revisedP,
    wanting <- wantingP

Pipeline == INSTANCE StagedPipeline WITH
    attempt <- attemptG, failure <- failureG, quality <- qualityG, graded <- gradedG,
    source <- sourceG, step <- stepG, pc <- pcG, at <- atG, target <- targetG,
    stops <- stopsG

runs == <<vars, pilot, pipeline, running>>

ASSUME CandidatesAssumption == Candidates \in Nat \ {0}

ASSUME StepAssumption ==
    /\ None \notin Pilot!Call /\ None \notin Pilot!Fault
    /\ None \notin {"completed", "skipped", "keep", "hopeless"}
    /\ None \notin [Pilot!Candidate -> [of : Pilot!Call, fault : Pilot!Fault]]
    /\ None \notin Pipeline!Ending \cup {"open"}

ASSUME BatchesAssumption == Batches \in Nat \ {0} /\ MaxStops \in Nat

RunsInit ==
    /\ running \in {"call", "pilot", "pipeline"}
    /\ Init /\ Pilot!Init /\ Pipeline!Init

RunCall ==
    running = "call" /\ Next /\ UNCHANGED <<pilot, pipeline, running>>

RunPilot ==
    running = "pilot" /\ Pilot!Next /\ UNCHANGED <<vars, pipeline, running>>

RunPipeline ==
    running = "pipeline" /\ Pipeline!Next /\ UNCHANGED <<vars, pilot, running>>

CallAdvances(p) ==
    running = "call" /\ Advance(p) /\ UNCHANGED <<pilot, pipeline, running>>

CallTimesOut(p) ==
    running = "call" /\ TimeOut(p) /\ UNCHANGED <<pilot, pipeline, running>>

PilotAdvances ==
    running = "pilot" /\ Pilot!Advance /\ UNCHANGED <<vars, pipeline, running>>

PipelineWorks ==
    running = "pipeline" /\ Pipeline!Work /\ UNCHANGED <<vars, pilot, running>>

PipelineIsInvoked ==
    /\ running = "pipeline" /\ Pipeline!Invoke /\ targetG' = Pipeline!Publish
    /\ UNCHANGED <<vars, pilot, running>>

RunsSpec ==
    /\ RunsInit /\ [][RunCall \/ RunPilot \/ RunPipeline]_runs
    /\ \A p \in Proc : WF_runs(CallAdvances(p)) /\ WF_runs(CallTimesOut(p))
    /\ WF_runs(PilotAdvances)
    /\ WF_runs(PipelineWorks) /\ SF_runs(PipelineIsInvoked)

-----------------------------------------------------------------------------
(* The model is asked once for a step, and what callers and later readers  *)
(* find of the answer rests on a turn that ended (RecoveredCall).          *)
CallIsBacked ==
    TypeOK /\ AskedOnce /\ ResponseIsBacked /\ AnswerIsTold /\ RepliesAgree

(* A replay of the pilot loop finds what was recorded and publishes what   *)
(* passed every check it had to (PilotRun); the pipeline asks about a stage*)
(* once all before it were found good, and publishes what rests on them    *)
(* all (StagedPipeline).                                                   *)
LoopsHold ==
    /\ Pilot!TypeOK /\ Pilot!ReplayAgrees /\ Pilot!FinalIsBest
    /\ Pipeline!TypeOK /\ Pipeline!PublishedIsGood /\ Pipeline!AskedInOrder

(* What a pilot loop has published stays, also when a replay judges a      *)
(* source differently; so does a pipeline with a recorded failure, and its *)
(* steps are recorded as a staged run promises (StepLedger).               *)
EndedRunsStay ==
    Pilot!PublishedIsFinal /\ Pipeline!RefusedIsFinal /\ Pipeline!KeepsLedgerPromise

(* A process that was started gets an outcome or is stopped, and an answer *)
(* that a stop left behind is the outcome; a loop that goes on, and a      *)
(* pipeline that is invoked again and again, publish what they make or are *)
(* beyond recovery for a failure they name.                                *)
RunsSettle ==
    /\ running = "call" => SavedAnswerIsUsed /\ LockIsFreed
    /\ (running = "pilot" /\ Pilot!Answerable) ~> (running = "pilot" => Pilot!LoopEnded)
    /\ running = "pipeline" => Pipeline!PipelineSettles
=============================================================================
