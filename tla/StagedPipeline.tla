--------------------------- MODULE StagedPipeline ---------------------------
(***************************************************************************)
(* run_staged_pipeline_generation: plan, score (in batches) and performance*)
(* are generated one after the other, each invocation up to the stage it is*)
(* told to stop after.  An invocation holds the run's lock from the first  *)
(* check to the last write, so there is one at a time; it may be stopped   *)
(* between any two writes, and a later one goes on from the records.       *)
(*                                                                         *)
(* An answer is "good", "poor" (well-formed, but the quality it contributes*)
(* to fails), "unsound" (a batch that cannot be joined with the plan) or   *)
(* "invalid"; "failed" and "interrupted" are calls that gave none.         *)
(***************************************************************************)
EXTENDS Naturals

CONSTANTS
    Batches,        \* how many batches the materials of the plan make, at least one
    MaxStops,       \* bound: how often an invocation is stopped
    None

Plan == 1
Score == Batches + 2
Performance == Batches + 3
Publish == Batches + 4

Stage == 1..Publish
Batch == 2..(Batches + 1)
Asked == Stage \ {Score, Publish}
Graded == {Plan, Score, Performance}

VARIABLES
    attempt,        \* of each asked stage: None, "open", or how the call ended
    failure,        \* of each asked stage: whether failures/<step>.json exists
    quality,        \* of each graded stage: the verdict in its quality file
    graded,         \* of each graded stage: the record of the quality step
    source,         \* the stages whose output file exists
    step,           \* of each stage: the record of its own step
    pc, at, target, \* the invocation: where it is, in which stage, how far it goes
    stops

saved == <<attempt, failure, quality, graded, source, step>>

vars == <<saved, pc, at, target, stops>>

Answer == {"good", "poor", "unsound", "invalid"}
Ending == Answer \cup {"failed", "interrupted"}
Working == {"stage", "judge", "refused", "quality", "graded", "source", "step"}
Outcome == {"stopped", "completed", "error", "conflict"}

Init ==
    /\ attempt = [s \in Asked |-> None]
    /\ failure = [s \in Asked |-> FALSE]
    /\ quality = [s \in Graded |-> None]
    /\ graded = [s \in Graded |-> None]
    /\ source = {}
    /\ step = [s \in Stage |-> None]
    /\ pc = "idle" /\ at = Plan /\ target = Plan
    /\ stops = 0

-----------------------------------------------------------------------------
(* _validate_failure_state and _validate_quality_state: a file and the     *)
(* record of it must both be there.                                        *)
FailuresAgree == \A s \in Asked : failure[s] <=> step[s] = "failed"

QualitiesAgree == \A s \in Graded : quality[s] = None <=> graded[s] = None

(* The status rebuild_state gives: an interrupted attempt hides a failure. *)
StateIsFailed ==
    /\ \A s \in Asked : attempt[s] # "interrupted"
    /\ \/ \E s \in Asked : attempt[s] = "failed"
       \/ \E s \in Stage : step[s] = "failed"
       \/ \E s \in Graded : graded[s] = "failed"

(* Which stages an invocation may be told to stop after.                   *)
Target == {Plan, Score, Publish}

Admitted == FailuresAgree /\ QualitiesAgree /\ ~StateIsFailed

Invoke ==
    /\ pc \in {"idle"} \cup Outcome
    /\ \E t \in Target : target' = t
    /\ at' = Plan
    /\ pc' = IF Admitted THEN "stage" ELSE "conflict"
    /\ UNCHANGED <<saved, stops>>

Stop ==
    /\ pc \in Working /\ stops < MaxStops
    /\ pc' = "idle" /\ stops' = stops + 1
    /\ UNCHANGED <<saved, at, target>>

-----------------------------------------------------------------------------
(* The source the stage works with is sound, or it is not.                 *)
Sound ==
    IF at = Score
    THEN \A b \in Batch : attempt[b] # "unsound"
    ELSE at \in Asked => attempt[at] # "invalid"

Passes ==
    IF at = Score
    THEN \A b \in Batch : attempt[b] = "good"
    ELSE attempt[at] # "poor"

(* _reuse_source finds the stage recorded, or the model is asked.          *)
Reserve ==
    /\ pc = "stage" /\ at \in Asked
    /\ step[at] = None /\ attempt[at] = None
    /\ attempt' = [attempt EXCEPT ![at] = "open"]
    /\ UNCHANGED <<failure, quality, graded, source, step, pc, at, target, stops>>

AttemptRetried ==                             \* faulty: an interrupted call is forgotten
    /\ pc = "stage" /\ at \in Asked
    /\ step[at] = None /\ attempt[at] = "open"
    /\ \E how \in {None} \cup Answer :
          /\ how = "unsound" => at \in Batch
          /\ attempt' = [attempt EXCEPT ![at] = how]
    /\ UNCHANGED <<failure, quality, graded, source, step, pc, at, target, stops>>

(* A call ends, here or found ended from its stream by a later invocation. *)
AttemptEnds ==
    /\ pc = "stage" /\ at \in Asked
    /\ step[at] = None /\ attempt[at] = "open"
    /\ \E how \in Ending :
          /\ how = "unsound" => at \in Batch
          /\ attempt' = [attempt EXCEPT ![at] = how]
    /\ UNCHANGED <<failure, quality, graded, source, step, pc, at, target, stops>>

NoAnswer ==
    /\ pc = "stage" /\ at \in Asked
    /\ step[at] = None /\ attempt[at] \in {"failed", "interrupted"}
    /\ pc' = "error"
    /\ UNCHANGED <<saved, at, target, stops>>

HasSource ==
    /\ pc = "stage" /\ at # Publish
    /\ at \in Asked => attempt[at] \in Answer
    /\ pc' = "judge"
    /\ UNCHANGED <<saved, at, target, stops>>

(* Only a response of the model is recorded as a failure: an unsound score *)
(* ends the invocation and leaves no trace.                                *)
Refuse ==
    /\ pc = "judge" /\ ~Sound
    /\ IF at = Score
       THEN pc' = "error" /\ UNCHANGED failure
       ELSE pc' = "refused" /\ failure' = [failure EXCEPT ![at] = TRUE]
    /\ UNCHANGED <<attempt, quality, graded, source, step, at, target, stops>>

RecordRefusal ==
    /\ pc = "refused"
    /\ step' = [step EXCEPT ![at] = "failed"]
    /\ pc' = "error"
    /\ UNCHANGED <<attempt, failure, quality, graded, source, at, target, stops>>

Accept ==
    /\ pc = "judge" /\ Sound
    /\ pc' = IF at \in Graded THEN "quality" ELSE "source"
    /\ UNCHANGED <<saved, at, target, stops>>

(* _save_quality: the file, then the step that has its hash.               *)
SaveQuality ==
    /\ pc = "quality"
    /\ quality' = [quality EXCEPT ![at] = IF Passes THEN "passes" ELSE "fails"]
    /\ pc' = "graded"
    /\ UNCHANGED <<attempt, failure, graded, source, step, at, target, stops>>

RecordQualityOnly ==                          \* faulty: a poor grade does not end it
    /\ pc = "graded"
    /\ graded' = [graded EXCEPT ![at] = IF Passes THEN "completed" ELSE "failed"]
    /\ pc' = "source"
    /\ UNCHANGED <<attempt, failure, quality, source, step, at, target, stops>>

RecordQuality ==
    /\ pc = "graded"
    /\ graded' = [graded EXCEPT ![at] = IF Passes THEN "completed" ELSE "failed"]
    /\ pc' = IF Passes THEN "source" ELSE "error"
    /\ UNCHANGED <<attempt, failure, quality, source, step, at, target, stops>>

(* _save_source, unless the stage is recorded.                             *)
SaveSource ==
    /\ pc = "source"
    /\ source' = source \cup {at}
    /\ pc' = "step"
    /\ UNCHANGED <<attempt, failure, quality, graded, step, at, target, stops>>

AfterStage ==
    IF at = target
    THEN pc' = (IF at = Publish THEN "completed" ELSE "stopped") /\ UNCHANGED at
    ELSE pc' = "stage" /\ at' = at + 1

RecordSource ==
    /\ pc = "step"
    /\ step' = [step EXCEPT ![at] = "completed"]
    /\ AfterStage
    /\ UNCHANGED <<attempt, failure, quality, graded, source, target, stops>>

(* _publish: the files are rendered anew until the step is recorded.       *)
PublishFiles ==
    /\ pc = "stage" /\ at = Publish /\ step[at] = None
    /\ source' = source \cup {at}
    /\ pc' = "step"
    /\ UNCHANGED <<attempt, failure, quality, graded, step, at, target, stops>>

AlreadyPublished ==
    /\ pc = "stage" /\ at = Publish /\ step[at] = "completed"
    /\ pc' = "completed"
    /\ UNCHANGED <<saved, at, target, stops>>

Work ==
    \/ Reserve \/ AttemptEnds \/ NoAnswer \/ HasSource
    \/ Refuse \/ RecordRefusal \/ Accept
    \/ SaveQuality \/ RecordQuality \/ SaveSource \/ RecordSource
    \/ PublishFiles \/ AlreadyPublished

Next == Invoke \/ Stop \/ Work

(* An invocation that is not stopped goes on, and there is always another  *)
(* one that wants everything.                                              *)
Spec ==
    /\ Init /\ [][Next]_vars
    /\ WF_vars(Work)
    /\ SF_vars(Invoke /\ target' = Publish)

-----------------------------------------------------------------------------
(* Types.                                                                  *)
TypeOK ==
    /\ attempt \in [Asked -> {None, "open"} \cup Ending]
    /\ failure \in [Asked -> BOOLEAN]
    /\ quality \in [Graded -> {None, "passes", "fails"}]
    /\ graded \in [Graded -> {None, "completed", "failed"}]
    /\ source \subseteq Stage
    /\ step \in [Stage -> {None, "completed", "failed"}]
    /\ pc \in {"idle"} \cup Working \cup Outcome
    /\ at \in Stage /\ target \in Target
    /\ stops \in 0..MaxStops

(* What is published rests on answers that are all good, whatever was      *)
(* stopped and reused on the way, and its files are there.                 *)
PublishedIsGood ==
    step[Publish] = "completed" =>
        /\ \A s \in Asked : attempt[s] = "good"
        /\ source = Stage

(* The model is not asked about a stage while an earlier one is open, has  *)
(* been refused or was found wanting.                                      *)
AskedInOrder ==
    \A s \in Asked :
        attempt[s] # None =>
            /\ \A r \in 1..(s - 1) : step[r] = "completed"
            /\ \A r \in Graded : r < s => graded[r] = "completed"

(* A run with a recorded failure is over: no invocation changes a thing.   *)
Refused == \E s \in Stage : step[s] = "failed" \/ (s \in Graded /\ graded[s] = "failed")

RefusedIsFinal == [][Refused => UNCHANGED saved]_vars

(* How a run gets to the point that every further invocation ends alike.   *)
Dead ==
    \/ ~Admitted
    \/ \E s \in Asked : attempt[s] \in {"failed", "interrupted"}
    \/ \E b \in Batch : attempt[b] = "unsound"

(* Invocations that ask for everything get it in the end, or the run is    *)
(* beyond recovery; none of them goes on for ever.                         *)
PipelineSettles == <>[](step[Publish] = "completed" \/ Dead)

(* The steps in the order in which they are recorded.                      *)
LedgerSteps == Publish + 3

(* A refused plan or performance has no quality: its place holds the       *)
(* refusal.                                                                *)
GradeOf(s) == IF step[s] = "failed" THEN "failed" ELSE graded[s]

StepOf(s) == IF s \in Graded /\ step[s] = "failed" THEN None ELSE step[s]

Ledger ==
    [i \in 1..LedgerSteps |->
        IF i = 1 THEN GradeOf(Plan)
        ELSE IF i \in 2..(Batches + 2) THEN StepOf(i - 1)
        ELSE IF i = Batches + 3 THEN GradeOf(Score)
        ELSE IF i = Batches + 4 THEN StepOf(Score)
        ELSE IF i = Batches + 5 THEN GradeOf(Performance)
        ELSE IF i = Batches + 6 THEN StepOf(Performance)
        ELSE StepOf(Publish)]

AbstractLedger == INSTANCE StepLedger WITH
    N <- LedgerSteps, ledger <- Ledger, verdict <- "open"

(* The pipeline keeps the promise of a staged run.                         *)
KeepsLedgerPromise == AbstractLedger!Spec

=============================================================================
