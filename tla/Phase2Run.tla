------------------------------ MODULE Phase2Run ------------------------------
(***************************************************************************)
(* The compilation of an approved flow (compile_script_with_contracts) and *)
(* the composition bundle that _compile_flow makes of it.  Operation 1     *)
(* asks for the structure of the script, operation 2 for its relations.    *)
(* When the bundle is in place the compilation is never invoked again.     *)
(*                                                                         *)
(* Saved: folder (the run directory and its run-spec.json), op (attempts,  *)
(* repairs and events), outputs, summary (compilation.json), step          *)
(* (publish-final.json) and bundle (the directory composition).            *)
(***************************************************************************)
EXTENDS OperationSequence

VARIABLES folder, outputs, summary, step, bundle

vars == <<sequence, folder, outputs, summary, step, bundle>>

(* indexed-structure.json, projection-ledger.json, validated-script.json   *)
Output == {"indexed", "ledger", "script"}

Outcome == FailureOutcome \cup {"request_invalid", "paused", "conflict",
                                "unbundled", "complete"}

Step == OperationStep \cup
    {"request", "preflight", "folder", "spec", "ledger", "script", "publish",
     "record", "fail_record", "bundle"}

Summary == [failure : Failure \cup {None}, calls : [1..N -> 0..2]]

TypeOK ==
    /\ SequenceTypeOK
    /\ pc \in {"idle"} \cup Step \cup Outcome
    /\ folder \in {None, "bare", "ready"}
    /\ outputs \subseteq Output
    /\ summary \in Summary \cup {None}
    /\ step \in {"completed", "failed", None}
    /\ bundle \in BOOLEAN

Init ==
    /\ SequenceInit
    /\ folder = None
    /\ outputs = {}
    /\ summary = None
    /\ step = None
    /\ bundle = FALSE

saved == <<folder, outputs, summary, step, bundle>>

-----------------------------------------------------------------------------
(* The compilation is invoked only while there is no bundle.               *)
Start ==
    /\ pc \in {"idle"} \cup Outcome
    /\ ~ bundle
    /\ Begin("request")
    /\ UNCHANGED saved

Reuse ==
    /\ pc \in {"idle"} \cup Outcome
    /\ bundle
    /\ Goto("complete")
    /\ UNCHANGED saved

Crash ==
    /\ pc \in Step
    /\ Stop
    /\ UNCHANGED saved

(* _check_request of a valid request: a directory without run-spec.json is *)
(* taken for somebody else's.                                              *)
CheckRequest ==
    /\ pc = "request"
    /\ Goto(IF folder = "bare" THEN "request_invalid" ELSE "preflight")
    /\ UNCHANGED saved

(* A runner that is not ready ends the invocation before anything is saved.*)
Preflight ==
    /\ pc = "preflight"
    /\ pc' \in {"folder", "runner_failed"}
    /\ UNCHANGED <<op, at, budget, fresh, reason, saved>>

(* RunStore.initialize: first the directory, then the specification.       *)
MakeFolder ==
    /\ pc = "folder"
    /\ folder' = Written(folder, "bare")
    /\ Goto("spec")
    /\ UNCHANGED <<outputs, summary, step, bundle>>

SaveSpec ==
    /\ pc = "spec"
    /\ folder' = "ready"
    /\ Goto("pick")
    /\ UNCHANGED <<outputs, summary, step, bundle>>

Perform == Operate /\ UNCHANGED saved

(* A pause, which only the second operation can meet, saves nothing.       *)
Pause == Pauses /\ Goto("paused") /\ UNCHANGED saved

(* The structure is saved with its index, the relations are not: ledger    *)
(* and script are built from both.                                         *)
SaveIndexed ==
    /\ pc = "save"
    /\ outputs' = IF at = 1 THEN outputs \cup {"indexed"} ELSE outputs
    /\ ProceedTo("ledger")
    /\ UNCHANGED <<folder, summary, step, bundle>>

SaveLedger ==
    /\ pc = "ledger"
    /\ outputs' = outputs \cup {"ledger"}
    /\ Goto("script")
    /\ UNCHANGED <<folder, summary, step, bundle>>

SaveScriptLate ==                                      \* faulty: after summary
    /\ pc = "script"
    /\ outputs' = IF summary = None THEN outputs ELSE outputs \cup {"script"}
    /\ Goto("publish")
    /\ UNCHANGED <<folder, summary, step, bundle>>

SaveScript ==
    /\ pc = "script"
    /\ outputs' = outputs \cup {"script"}
    /\ Goto("publish")
    /\ UNCHANGED <<folder, summary, step, bundle>>

PublishesAs(failure, next) ==
    LET value == [failure |-> failure, calls |-> Calls] IN
    /\ summary' = Written(summary, value)
    /\ WritesOnce(summary, value, next)
    /\ UNCHANGED <<folder, outputs, step, bundle>>

RecordsAs(value, next) ==
    /\ step' = Written(step, value)
    /\ WritesOnce(step, value, next)
    /\ UNCHANGED <<folder, outputs, summary, bundle>>

Publish == pc = "publish" /\ PublishesAs(None, "record")

Record == pc = "record" /\ RecordsAs("completed", "bundle")

PublishFailure == pc = "fail" /\ PublishesAs(reason, "fail_record")

RecordFailure == pc = "fail_record" /\ RecordsAs("failed", reason.outcome)

IsComplete == summary # None /\ summary.failure = None

(* create_v2_composition_bundle copies the whole run and renames the copy. *)
Bundle ==
    /\ pc = "bundle"
    /\ LET whole == IsComplete /\ {"ledger", "script"} \subseteq outputs IN
          /\ bundle' = (bundle \/ whole)
          /\ Goto(IF whole THEN "complete" ELSE "unbundled")
    /\ UNCHANGED <<folder, outputs, summary, step>>

-----------------------------------------------------------------------------
Advance ==
    \/ CheckRequest
    \/ Preflight
    \/ MakeFolder
    \/ SaveSpec
    \/ Perform
    \/ Pause
    \/ SaveIndexed
    \/ SaveLedger
    \/ SaveScript
    \/ Publish
    \/ Record
    \/ PublishFailure
    \/ RecordFailure
    \/ Bundle

Next == Start \/ Reuse \/ Crash \/ Advance

Spec == Init /\ [][Next]_vars

(* A running invocation takes its next step; nobody has to start one.      *)
FairSpec == Spec /\ WF_vars(Advance)

-----------------------------------------------------------------------------
(* The bundle all later phases start from copies a whole compilation, and  *)
(* a compilation that reaches its end is never refused as incomplete.      *)
BundleIsWhole ==
    /\ bundle => /\ outputs = Output
                 /\ IsComplete /\ summary.calls = Calls
                 /\ step = "completed"
                 /\ \A i \in 1..N : Accepted(i)
    /\ pc # "unbundled"

(* Only a call that failed keeps a compilation from being finished: what a *)
(* runner that was not ready, a pause or a stop leaves is never in its way.*)
ConflictMeansDead ==
    pc = "conflict" => \E i \in 1..N : IsDead(op[i])

(* Once both responses are accepted, an invocation that is not stopped     *)
(* and finds its runner ready puts the bundle in place.                    *)
AcceptedWorkIsBundled ==
    pc = "pick" /\ (\A i \in 1..N : Accepted(i)) ~> pc = "idle" \/ bundle

-----------------------------------------------------------------------------
(* How the compilation has ended for the public run: with its bundle, or   *)
(* with a saved failure.                                                   *)
Ended ==
    IF bundle THEN "complete"
    ELSE IF summary # None /\ summary.failure # None THEN "failed" ELSE None

Tells ==
    CASE pc = "idle" -> "silent"
      [] pc \in Step -> "busy"
      [] pc = "complete" -> "complete"
      [] pc \in FailureOutcome /\ Ended = "failed" -> "failed"
      [] OTHER -> "open"

Recorded == INSTANCE RecordedPhase WITH ending <- Ended, telling <- Tells

(* The phase ends for good at most once, and an invocation that reports    *)
(* the end reports the one that is saved.                                  *)
KeepsPhasePromise == Recorded!Spec
=============================================================================
