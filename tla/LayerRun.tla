------------------------------ MODULE LayerRun ------------------------------
(***************************************************************************)
(* One recorded run of phase 4 or phase 5 (realize_phase4, realize_phase5):*)
(* a foreground, or an accompaniment, for each material placement, in the  *)
(* order of the plan, some in comparison with earlier ones.  Unlike phase  *)
(* 3, whoever invokes them again when they are complete has them go        *)
(* through all operations once more, rewriting their state as they go.     *)
(*                                                                         *)
(* Saved: op (attempts, repairs and events), outputs, state (phase4-state  *)
(* or phase5-state.json, rewritten), summary (realization.json) and step   *)
(* (publish-final.json).                                                   *)
(***************************************************************************)
EXTENDS OperationSequence

VARIABLES
    layer,          \* "foreground" (phase 4) or "accompaniment" (phase 5)
    source,         \* of each operation, the one it is compared with, or 0
    representable,  \* whether the accepted foregrounds have a preview
    outputs, state, summary, step

vars == <<sequence, layer, source, representable, outputs, state, summary, step>>

Ledger == N + 1     \* the output after the notes of the N operations

LayerFailure ==
    Failure \cup {[outcome |-> "unrepresentable", why |-> "preview"],
                  [outcome |-> "request_invalid", why |-> "source"]}

FailedAs == {failure.outcome : failure \in LayerFailure}

Summary == [failure : LayerFailure \cup {None}, calls : [1..N -> 0..2]]

Outcome == FailedAs \cup {"complete", "paused", "conflict"}

Step == OperationStep \cup
    {"preflight", "compare", "running", "preview", "ledger", "done",
     "publish", "record", "fail_publish", "fail_record"}

Init ==
    /\ SequenceInit
    /\ layer \in {"foreground", "accompaniment"}
    /\ source \in {s \in [1..N -> 0..N] : \A i \in 1..N : s[i] < i}
    /\ representable \in IF layer = "foreground" THEN BOOLEAN ELSE {TRUE}
    /\ outputs = {} /\ state = None /\ summary = None /\ step = None

phaseInput == <<layer, source, representable>>

-----------------------------------------------------------------------------
(* Nothing is asked of what is saved before: also a complete phase begins. *)
Start ==
    /\ pc \in {"idle"} \cup Outcome
    /\ Begin("preflight")
    /\ UNCHANGED <<phaseInput, outputs, state, summary, step>>

Crash ==
    /\ pc \in Step
    /\ Stop
    /\ UNCHANGED <<phaseInput, outputs, state, summary, step>>

Preflight ==
    /\ pc = "preflight"
    /\ \/ pc' = "compare" /\ UNCHANGED reason
       \/ /\ pc' = "fail_publish"
          /\ reason' = [outcome |-> "runner_failed", why |-> "preflight"]
    /\ UNCHANGED <<op, at, budget, fresh, phaseInput, outputs, state, summary, step>>

(* The budget comes before the comparison, and both before the operation.  *)
HasSpent == ~ Accepted(at) /\ budget # None /\ fresh >= budget

Pause ==
    /\ pc = "compare" /\ HasSpent
    /\ state' = [outcome |-> "paused", done |-> at - 1]
    /\ Goto("paused")
    /\ UNCHANGED <<phaseInput, outputs, summary, step>>

(* What it is compared with has been accepted by this invocation, or by an *)
(* earlier one and read again.                                             *)
Compare ==
    /\ pc = "compare" /\ ~ HasSpent
    /\ IF source[at] < at THEN pc' = "pick" /\ UNCHANGED reason
       ELSE Fails([outcome |-> "request_invalid", why |-> "source"])
    /\ UNCHANGED <<op, at, budget, fresh, phaseInput, outputs, state, summary, step>>

Perform == Operate /\ UNCHANGED <<phaseInput, outputs, state, summary, step>>

SaveNotes ==
    /\ pc = "save"
    /\ outputs' = outputs \cup {at}
    /\ Goto("running")
    /\ UNCHANGED <<phaseInput, state, summary, step>>

LeaveFor(last) ==
    /\ IF at = N THEN pc' = last /\ UNCHANGED at
                 ELSE pc' = "compare" /\ at' = at + 1
    /\ UNCHANGED <<op, budget, fresh, reason>>

SaveRunning ==
    /\ pc = "running"
    /\ state' = [outcome |-> "running", done |-> at]
    /\ LeaveFor(IF layer = "foreground" THEN "preview" ELSE "ledger")
    /\ UNCHANGED <<phaseInput, outputs, summary, step>>

(* write_phase4_foreground_preview rewrites the preview, or cannot.        *)
WritePreview ==
    /\ pc = "preview"
    /\ IF representable THEN pc' = "ledger" /\ UNCHANGED reason
       ELSE Fails([outcome |-> "unrepresentable", why |-> "preview"])
    /\ UNCHANGED <<op, at, budget, fresh, phaseInput, outputs, state, summary, step>>

SaveLedger ==
    /\ pc = "ledger"
    /\ outputs' = outputs \cup {Ledger}
    /\ Goto("done")
    /\ UNCHANGED <<phaseInput, state, summary, step>>

SaveDone ==
    /\ pc = "done"
    /\ state' = [outcome |-> "complete", done |-> N]
    /\ Goto("publish")
    /\ UNCHANGED <<phaseInput, outputs, summary, step>>

SaveFailState ==
    /\ pc = "fail"
    /\ state' = [outcome |-> reason.outcome,
                 done |-> IF reason.outcome = "unrepresentable" THEN N ELSE at - 1]
    /\ Goto("fail_publish")
    /\ UNCHANGED <<phaseInput, outputs, summary, step>>

PublishesAs(value, next) ==
    /\ summary' = Written(summary, value)
    /\ WritesOnce(summary, value, next)
    /\ UNCHANGED <<phaseInput, outputs, state, step>>

RecordsAs(value, outcome) ==
    /\ step' = Written(step, value)
    /\ WritesOnce(step, value, outcome)
    /\ UNCHANGED <<phaseInput, outputs, state, summary>>

Publish ==
    \/ pc = "publish" /\ PublishesAs([failure |-> None, calls |-> Calls], "record")
    \/ pc = "fail_publish" /\ PublishesAs([failure |-> reason, calls |-> Calls], "fail_record")

Record ==
    \/ pc = "record" /\ RecordsAs("completed", "complete")
    \/ pc = "fail_record" /\ RecordsAs("failed", reason.outcome)

-----------------------------------------------------------------------------
Advance ==
    \/ Preflight \/ Pause \/ Compare \/ Perform \/ SaveNotes \/ SaveRunning
    \/ WritePreview \/ SaveLedger \/ SaveDone \/ SaveFailState
    \/ Publish \/ Record

Next == Start \/ Crash \/ Advance

-----------------------------------------------------------------------------
(* A summary that says complete stands for a whole layer; its state can be *)
(* loaded whenever an invocation reports that it is complete, though not   *)
(* while, or after, another goes through it again and is stopped.          *)
LayerIsWhole ==
    /\ summary # None /\ summary.failure = None =>
          /\ outputs = 1..Ledger
          /\ \A i \in 1..N : Accepted(i)
          /\ summary.calls = Calls
          /\ state.outcome \in {"running", "complete"}
    /\ pc = "complete" => state = [outcome |-> "complete", done |-> N]

(* The first operation that compares asks only what was accepted before.   *)
ComparesWithAccepted ==
    \A i \in 1..N : op[i].calls > 0 /\ source[i] > 0 => Accepted(source[i])

Ended ==
    IF summary = None THEN None
    ELSE IF summary.failure = None THEN "complete" ELSE "failed"

Tells ==
    CASE pc = "idle" -> "silent"
      [] pc \in Step -> "busy"
      [] pc = "complete" -> "complete"
      [] pc \in FailedAs -> "failed"
      [] OTHER -> "open"

Recorded == INSTANCE RecordedPhase WITH ending <- Ended, telling <- Tells

(* The phase ends for good at most once, and an invocation that reports    *)
(* the end reports the one that is saved.                                  *)
KeepsPhasePromise == Recorded!Spec

(* A layer whose responses are all accepted, and which can be previewed, is*)
(* finished by an invocation that is not stopped.                          *)
AcceptedLayerIsFinished ==
    pc = "pick" /\ summary = None /\ representable /\ (\A i \in 1..N : Accepted(i))
        ~> pc \in {"idle", "complete"}
=============================================================================
