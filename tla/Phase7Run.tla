------------------------------ MODULE Phase7Run ------------------------------
(***************************************************************************)
(* One recorded phase-7 run (phase7_realization.realize_phase7) as the     *)
(* public v2 realization invokes it.  Each operation chooses how a section *)
(* is performed; the accepted choices are built into one performance,      *)
(* rendered, written as four immutable outputs and published by an         *)
(* immutable summary.  A complete phase is loaded again (phase7_state).    *)
(*                                                                         *)
(* Saved: op (attempts, repairs and events), outputs, summary              *)
(* (realization.json) and step (publish-final.json).  Acceptances are the  *)
(* only progress: there is no state file and no budget.                    *)
(***************************************************************************)
EXTENDS OperationSequence

VARIABLES outputs, summary, step,
          verdict   \* the outcome of building and rendering the accepted
                    \* choices, of which it is a function: None, or a failure

vars == <<sequence, outputs, summary, step, verdict>>

(* performance-spec, rendered-performance, projection-ledger, phase7-state *)
Output == 1..4

RenderOutcome == {"content_invalid", "unrepresentable", "render_invalid"}

Unrendered == [outcome : RenderOutcome, why : {"render"}]

Outcome == FailureOutcome \cup RenderOutcome \cup {"complete", "conflict", "unreadable"}

Step == OperationStep \cup
    {"preflight", "render", "outputs", "publish", "record",
     "fail_publish", "fail_record", "load"}

Summary == [failure : Failure \cup Unrendered \cup {None}, calls : [1..N -> 0..2]]

ASSUME AbsentAssumption ==
    None \notin Unrendered \cup Summary \cup {"completed", "failed"}

ASSUME VerdictAssumption == None \notin RenderOutcome

TypeOK ==
    /\ SequenceTypeOK
    /\ pc \in {"idle"} \cup Step \cup Outcome
    /\ outputs \subseteq Output
    /\ summary \in Summary \cup {None}
    /\ step \in {"completed", "failed", None}
    /\ verdict \in RenderOutcome \cup {None}

Init ==
    /\ SequenceInit
    /\ outputs = {}
    /\ summary = None
    /\ step = None
    /\ verdict \in RenderOutcome \cup {None}

saved == <<outputs, summary, step, verdict>>

-----------------------------------------------------------------------------
IsComplete == summary # None /\ summary.failure = None

(* Readiness is asked whenever there are operations, accepted or not.      *)
Start ==
    /\ pc \in {"idle"} \cup Outcome
    /\ ~ IsComplete
    /\ Begin("preflight")
    /\ budget' = None
    /\ UNCHANGED saved

(* A phase whose summary says complete is only loaded.                     *)
Reuse ==
    /\ pc \in {"idle"} \cup Outcome
    /\ IsComplete
    /\ Goto("load")
    /\ UNCHANGED saved

Crash ==
    /\ pc \in Step
    /\ Stop
    /\ UNCHANGED saved

Preflight ==
    /\ pc = "preflight"
    /\ \/ pc' = "pick" /\ UNCHANGED reason
       \/ /\ pc' = "fail_publish"
          /\ reason' = [outcome |-> "runner_failed", why |-> "preflight"]
    /\ UNCHANGED <<op, at, budget, fresh, saved>>

Perform == Operate /\ UNCHANGED saved

(* Nothing is saved for an accepted choice.                                *)
GoOn == pc = "save" /\ ProceedTo("render") /\ UNCHANGED saved

RenderStraight ==                                      \* faulty: no outputs
    /\ pc = "render"
    /\ Goto(IF verdict = None THEN "publish" ELSE "fail_publish")
    /\ UNCHANGED saved

Render ==
    /\ pc = "render"
    /\ Goto(IF verdict = None THEN "outputs" ELSE "fail_publish")
    /\ UNCHANGED saved

(* Outputs found from an earlier invocation are equal and stay; the first  *)
(* one that is missing is written.                                         *)
SaveOutput ==
    /\ pc = "outputs"
    /\ \E file \in Output \ outputs :
          /\ \A other \in Output \ outputs : file <= other
          /\ outputs' = outputs \cup {file}
    /\ UNCHANGED <<sequence, summary, step, verdict>>

OutputsDone ==
    /\ pc = "outputs"
    /\ outputs = Output
    /\ Goto("publish")
    /\ UNCHANGED saved

SummaryOf(failure) == [failure |-> failure, calls |-> Calls]

(* The failure at hand: of a call, or else of the rendering.               *)
Unfit == IF reason # None THEN reason ELSE [outcome |-> verdict, why |-> "render"]

PublishesAs(value, next) ==
    /\ summary' = Written(summary, value)
    /\ WritesOnce(summary, value, next)
    /\ UNCHANGED <<outputs, step, verdict>>

RecordsAs(value, outcome) ==
    /\ step' = Written(step, value)
    /\ WritesOnce(step, value, outcome)
    /\ UNCHANGED <<outputs, summary, verdict>>

Publish == pc = "publish" /\ PublishesAs(SummaryOf(None), "record")

Record == pc = "record" /\ RecordsAs("completed", "load")

PublishFailure ==
    /\ pc \in {"fail", "fail_publish"}
    /\ PublishesAs(SummaryOf(Unfit), "fail_record")

RecordFailure == pc = "fail_record" /\ RecordsAs("failed", Unfit.outcome)

(* load_complete_phase7_run rebuilds the performance from the accepted     *)
(* choices and compares it with every output.                              *)
Load ==
    /\ pc = "load"
    /\ Goto(IF /\ outputs = Output
               /\ verdict = None
               /\ \A i \in 1..N : Accepted(i)
            THEN "complete" ELSE "unreadable")
    /\ UNCHANGED saved

-----------------------------------------------------------------------------
Advance ==
    \/ Preflight
    \/ Perform
    \/ GoOn
    \/ Render
    \/ SaveOutput
    \/ OutputsDone
    \/ Publish
    \/ Record
    \/ PublishFailure
    \/ RecordFailure
    \/ Load

Next == Start \/ Reuse \/ Crash \/ Advance

Spec == Init /\ [][Next]_vars

(* A running invocation takes its next step; nobody has to start one.      *)
FairSpec == Spec /\ WF_vars(Advance)

-----------------------------------------------------------------------------
(* A phase that claims to be complete can always be loaded: its outputs    *)
(* are all there and follow from accepted choices, whatever was stopped    *)
(* while they were written, and only a finished phase has outputs.         *)
CompleteIsWhole ==
    /\ pc # "unreadable"
    /\ IsComplete => outputs = Output /\ summary.calls = Calls
    /\ outputs # {} => verdict = None /\ \A i \in 1..N : Accepted(i)

(* What an invocation reports is what the summary says.                    *)
ReportsWhatIsSaved ==
    /\ pc = "complete" => IsComplete
    /\ pc \in Outcome \ {"complete", "conflict", "unreadable"} =>
          summary # None /\ summary.failure # None /\ summary.failure.outcome = pc

(* A failure that the records determine is reported again by every later   *)
(* invocation: an invocation meets a summary that differs from its own     *)
(* only when it, or the one that wrote it, found the runner not ready, or  *)
(* when the one that wrote it saw the call fail itself.                    *)
FailureRepeats ==
    pc = "conflict" =>
        \/ summary.failure.why \in {"preflight", "live"}
        \/ reason # None /\ reason.why = "preflight"

(* What is saved is whole, what is told is what is saved, and what the     *)
(* saved records determine is told again.                                  *)
PhaseIsWhole == TypeOK /\ CompleteIsWhole /\ ReportsWhatIsSaved /\ FailureRepeats

(* Published records outlive every later invocation.                       *)
RecordsNeverRewritten ==
    [][/\ outputs \subseteq outputs'
       /\ summary # None => summary' = summary
       /\ step # None => step' = step
       /\ \A i \in 1..N : Accepted(i) => op'[i] = op[i]]_vars

(* Once all choices are accepted, a ready runner is all an invocation that *)
(* is not stopped needs to reach the phase's end, which the accepted       *)
(* choices determine.                                                      *)
AcceptedWorkIsFinished ==
    pc = "pick" /\ summary = None /\ (\A i \in 1..N : Accepted(i))
        ~> pc = "idle" \/ pc = (IF verdict = None THEN "complete" ELSE verdict)

-----------------------------------------------------------------------------
(* How the phase has ended for the public run: as its summary says.        *)
Ended ==
    IF summary = None THEN None
    ELSE IF summary.failure = None THEN "complete" ELSE "failed"

Tells ==
    CASE pc = "idle" -> "silent"
      [] pc \in Step -> "busy"
      [] pc = "complete" -> "complete"
      [] pc \in FailureOutcome \cup RenderOutcome -> "failed"
      [] OTHER -> "open"

Recorded == INSTANCE RecordedPhase WITH ending <- Ended, telling <- Tells

(* The phase ends for good at most once, and an invocation that reports    *)
(* the end reports the one that is saved.                                  *)
KeepsPhasePromise == Recorded!Spec
=============================================================================
