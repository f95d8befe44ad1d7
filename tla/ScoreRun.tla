------------------------------- MODULE ScoreRun -------------------------------
(***************************************************************************)
(* One recorded score run (score_realization.realize_score) as the public  *)
(* v2 realization invokes it: each operation asks for one whole work       *)
(* group, and the accepted groups are assembled in a temporary directory   *)
(* that one rename publishes as outputs.  Failures are saved as progress,  *)
(* which every invocation overwrites.                                      *)
(*                                                                         *)
(* Saved: op (attempts, repairs and events of each operation), groups      *)
(* (groups/<operation>.json), progress (progress/score-state.json), notice *)
(* (progress/realization.json) and outputs (the directory).                *)
(***************************************************************************)
EXTENDS OperationSequence

VARIABLES groups, progress, notice, outputs,
          sound   \* whether the accepted groups make a score: assembling is
                  \* a function of the accepted responses

vars == <<sequence, groups, progress, notice, outputs, sound>>

Outcome == FailureOutcome \cup
    {"complete", "paused", "lineage", "persisted_state_invalid"}

Step == OperationStep \cup
    {"gate", "open", "preflight", "running", "assemble", "publish", "invalid",
     "fail_notice"}

Progress == [outcome : Outcome \cup {"running"}, done : 0..N]

Untold == [outcome |-> None, done |-> 0]     \* the empty state {}

TypeOK ==
    /\ SequenceTypeOK
    /\ pc \in {"idle"} \cup Step \cup Outcome
    /\ groups \subseteq 1..N
    /\ progress \in Progress \cup {None, Untold}
    /\ notice \in FailureOutcome \cup {None, "persisted_state_invalid"}
    /\ outputs \in BOOLEAN
    /\ sound \in BOOLEAN

Init ==
    /\ SequenceInit
    /\ groups = {}
    /\ progress = None
    /\ notice = None
    /\ outputs = FALSE
    /\ sound \in BOOLEAN

saved == <<groups, progress, notice, outputs, sound>>

-----------------------------------------------------------------------------
Start ==
    /\ pc \in {"idle"} \cup Outcome
    /\ Begin("gate")
    /\ UNCHANGED saved

Crash ==
    /\ pc \in Step
    /\ Stop
    /\ UNCHANGED saved

(* The stages in which check_finite_model_operation_records finds a record *)
(* missing: no terminal.json, or no validation.json of a response.         *)
Unchecked == {"open", "answered"}

(* _model_record_issues, before the public caller opens the run.           *)
Gate ==
    /\ pc = "gate"
    /\ Goto(IF \E i \in 1..N : op[i].last \in Unchecked THEN "lineage" ELSE "open")
    /\ UNCHANGED saved

HasWork == \E i \in 1..N : ~ Accepted(i)

(* Outputs that exist are loaded; the runner is needed only for new work.  *)
Open ==
    /\ pc = "open"
    /\ Goto(IF outputs THEN "complete" ELSE IF HasWork THEN "preflight" ELSE "pick")
    /\ UNCHANGED saved

Preflight ==
    /\ pc = "preflight"
    /\ \/ pc' = "pick" /\ UNCHANGED <<reason, progress>>
       \/ /\ pc' = "fail_notice"
          /\ reason' = [outcome |-> "runner_failed", why |-> "preflight"]
          /\ progress' = Untold
    /\ UNCHANGED <<op, at, budget, fresh, groups, notice, outputs, sound>>

Perform ==
    /\ Operate
    /\ UNCHANGED saved

Reports(outcome, done) ==
    /\ progress' = [outcome |-> outcome, done |-> done]
    /\ UNCHANGED <<groups, notice, outputs, sound>>

Pause == Pauses /\ Reports("paused", at - 1) /\ Goto("paused")

SaveNewGroup ==                                        \* faulty: only new ones
    /\ pc = "save"
    /\ groups' = IF fresh = 0 THEN groups ELSE groups \cup {at}
    /\ Goto("running")
    /\ UNCHANGED <<progress, notice, outputs, sound>>

SaveGroup ==
    /\ pc = "save"
    /\ groups' = groups \cup {at}
    /\ Goto("running")
    /\ UNCHANGED <<progress, notice, outputs, sound>>

SaveRunning ==
    /\ pc = "running"
    /\ Reports("running", at)
    /\ ProceedTo("assemble")

(* The whole score is built, checked and loaded again in a temporary       *)
(* directory, which is removed when any of that fails.                     *)
Assemble ==
    /\ pc = "assemble"
    /\ Goto(IF sound /\ groups = 1..N THEN "publish" ELSE "invalid")
    /\ UNCHANGED saved

Publish ==
    /\ pc = "publish"
    /\ outputs' = TRUE
    /\ Goto("complete")
    /\ UNCHANGED <<groups, progress, notice, sound>>

SaveFailState ==
    \/ pc = "fail" /\ Reports(reason.outcome, at - 1) /\ Goto("fail_notice")
    \/ pc = "invalid" /\ Reports("persisted_state_invalid", N) /\ Goto("fail_notice")

Failed == IF reason = None THEN "persisted_state_invalid" ELSE reason.outcome

SaveNotice ==
    /\ pc = "fail_notice"
    /\ notice' = Failed
    /\ Goto(Failed)
    /\ UNCHANGED <<groups, progress, outputs, sound>>

-----------------------------------------------------------------------------
Advance ==
    \/ Gate
    \/ Open
    \/ Preflight
    \/ Perform
    \/ Pause
    \/ SaveGroup
    \/ SaveRunning
    \/ Assemble
    \/ Publish
    \/ SaveFailState
    \/ SaveNotice

Next == Start \/ Crash \/ Advance

Spec == Init /\ [][Next]_vars

(* A running invocation takes its next step; nobody has to start one.      *)
FairSpec == Spec /\ WF_vars(Advance)

-----------------------------------------------------------------------------
(* The published directory only ever stands for a whole score: every       *)
(* operation accepted, every group saved, and the assembly sound.          *)
OutputsAreWhole ==
    outputs => sound /\ groups = 1..N /\ \A i \in 1..N : Accepted(i)

(* Progress and groups never run ahead of the acceptances they came from,  *)
(* whichever invocation wrote them last.                                   *)
ProgressIsBacked ==
    /\ \A i \in groups : Accepted(i)
    /\ progress # None => 1..progress.done \subseteq groups

(* Once published, outputs stay and no call or progress follows them, and  *)
(* saved groups and acceptances outlive every later invocation.            *)
PublishedIsFinal ==
    [][/\ outputs => outputs' /\ op' = op /\ progress' = progress
       /\ groups \subseteq groups'
       /\ \A i \in 1..N : Accepted(i) => op'[i] = op[i]]_vars

(* An invocation that is not stopped ends with an outcome.                 *)
InvocationEnds == pc = "gate" ~> pc \in {"idle"} \cup Outcome

(* A sound score whose groups are all accepted is published by the next    *)
(* invocation that is not stopped, whether or not the runner is ready.     *)
AcceptedScoreIsPublished ==
    pc = "gate" /\ sound /\ (\A i \in 1..N : Accepted(i))
        ~> pc = "idle" \/ outputs

-----------------------------------------------------------------------------
(* Only the outputs end the score run for good; a failure that is saved is *)
(* progress that the next invocation overwrites.                           *)
Ended ==
    IF outputs THEN "complete" ELSE None

Tells ==
    CASE pc = "idle" -> "silent"
      [] pc \in Step -> "busy"
      [] pc = "complete" -> "complete"
      [] OTHER -> "open"

Recorded == INSTANCE RecordedPhase WITH ending <- Ended, telling <- Tells

(* The phase ends for good at most once, and an invocation that reports    *)
(* the end reports the one that is saved.                                  *)
KeepsPhasePromise == Recorded!Spec
=============================================================================
