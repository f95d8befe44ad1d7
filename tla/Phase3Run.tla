------------------------------ MODULE Phase3Run ------------------------------
(***************************************************************************)
(* One recorded phase-3 run (phase3_realization.realize_phase3) as the     *)
(* public v2 realization invokes it: the overall plan is operation 1, one  *)
(* harmony for each score unit follows, and the phase ends by publishing   *)
(* an immutable summary.  The public caller invokes it until the summary   *)
(* says complete; every invocation may stop between any two writes.        *)
(*                                                                         *)
(* Saved: tonic (run-spec.json), op (attempts, repairs and events of each  *)
(* operation), outputs, state (phase3-state.json, the only record that is  *)
(* rewritten), summary (realization.json) and step (publish-final.json).   *)
(***************************************************************************)
EXTENDS OperationSequence

CONSTANT Key    \* the pitch classes a tonal centre is drawn from

ASSUME KeyAssumption == Key # {} /\ None \notin Key

VARIABLES tonic, outputs, state, summary, step,
          key           \* the tonal centre of the running invocation

vars == <<sequence, tonic, outputs, state, summary, step, key>>

Ledger == N + 1     \* the output after the outputs of the N operations

Outcome == FailureOutcome \cup {"complete", "paused", "conflict"}

Step == OperationStep \cup
    {"spec", "preflight", "running", "ledger", "done", "publish", "record",
     "fail_publish", "fail_record"}

State == [outcome : FailureOutcome \cup {"running", "paused", "complete"},
          done : 0..N]

Summary == [failure : Failure \cup {None}, calls : [1..N -> 0..2]]

ASSUME AbsentAssumption == None \notin State \cup Summary \cup {"completed", "failed"}

TypeOK ==
    /\ SequenceTypeOK
    /\ pc \in {"idle"} \cup Step \cup Outcome
    /\ tonic \in Key \cup {None}
    /\ outputs \subseteq 1..Ledger
    /\ state \in State \cup {None}
    /\ summary \in Summary \cup {None}
    /\ step \in {"completed", "failed", None}
    /\ key \in Key \cup {None}

Init ==
    /\ SequenceInit
    /\ tonic = None
    /\ outputs = {}
    /\ state = None
    /\ summary = None
    /\ step = None
    /\ key = None

-----------------------------------------------------------------------------
IsComplete == summary # None /\ summary.failure = None

DrawnKey == Key                                        \* faulty: draws again

(* _load_or_select_tonal_center: the saved pitch class, or any.            *)
SelectedKey == IF tonic = None THEN Key ELSE {tonic}

(* An invocation begins, unless the saved summary says complete.           *)
Start ==
    /\ pc \in {"idle"} \cup Outcome
    /\ ~ IsComplete
    /\ Begin("spec")
    /\ key' \in SelectedKey
    /\ UNCHANGED <<tonic, outputs, state, summary, step>>

(* A complete phase is not invoked: its state and ledger are loaded.       *)
Reuse ==
    /\ pc \in {"idle"} \cup Outcome
    /\ IsComplete
    /\ Goto("complete")
    /\ key' = tonic
    /\ UNCHANGED <<tonic, outputs, state, summary, step>>

Crash ==
    /\ pc \in Step
    /\ Stop
    /\ key' = None
    /\ UNCHANGED <<tonic, outputs, state, summary, step>>

SaveSpec ==
    /\ pc = "spec"
    /\ tonic' = Written(tonic, key)
    /\ WritesOnce(tonic, key, "preflight")
    /\ UNCHANGED <<outputs, state, summary, step, key>>

(* The runner is asked whether it is ready whatever is left to do.         *)
Preflight ==
    /\ pc = "preflight"
    /\ \/ pc' = "pick" /\ UNCHANGED reason
       \/ /\ pc' = "fail_publish"
          /\ reason' = [outcome |-> "runner_failed", why |-> "preflight"]
    /\ UNCHANGED <<op, at, budget, fresh, tonic, outputs, state, summary, step, key>>

Perform ==
    /\ Operate
    /\ UNCHANGED <<tonic, outputs, state, summary, step, key>>

Pause ==
    /\ Pauses
    /\ state' = [outcome |-> "paused", done |-> at - 1]
    /\ Goto("paused")
    /\ UNCHANGED <<tonic, outputs, summary, step, key>>

SaveNewOutput ==                                       \* faulty: only new ones
    /\ pc = "save"
    /\ outputs' = IF fresh = 0 THEN outputs ELSE outputs \cup {at}
    /\ Goto("running")
    /\ UNCHANGED <<tonic, state, summary, step, key>>

(* The deterministic output of the accepted response, then the progress;   *)
(* the overall plan alone saves no progress.                               *)
SaveOutput ==
    /\ pc = "save"
    /\ outputs' = outputs \cup {at}
    /\ Goto("running")
    /\ UNCHANGED <<tonic, state, summary, step, key>>

SaveRunning ==
    /\ pc = "running"
    /\ state' = IF at = 1 THEN state ELSE [outcome |-> "running", done |-> at]
    /\ ProceedTo("ledger")
    /\ UNCHANGED <<tonic, outputs, summary, step, key>>

SaveLedger ==
    /\ pc = "ledger"
    /\ outputs' = outputs \cup {Ledger}
    /\ Goto("done")
    /\ UNCHANGED <<tonic, state, summary, step, key>>

SaveDone ==
    /\ pc = "done"
    /\ state' = [outcome |-> "complete", done |-> N]
    /\ Goto("publish")
    /\ UNCHANGED <<tonic, outputs, summary, step, key>>

PublishesAs(value, next) ==
    /\ summary' = Written(summary, value)
    /\ WritesOnce(summary, value, next)
    /\ UNCHANGED <<tonic, outputs, state, step, key>>

RecordsAs(value, outcome) ==
    /\ step' = Written(step, value)
    /\ WritesOnce(step, value, outcome)
    /\ UNCHANGED <<tonic, outputs, state, summary, key>>

Publish == pc = "publish" /\ PublishesAs([failure |-> None, calls |-> Calls], "record")

Record == pc = "record" /\ RecordsAs("completed", "complete")

(* _publish_failure; a failed overall plan leaves no phase-3 state.        *)
SaveFailState ==
    /\ pc = "fail"
    /\ state' = IF at = 1 THEN state
                ELSE [outcome |-> reason.outcome, done |-> at - 1]
    /\ Goto("fail_publish")
    /\ UNCHANGED <<tonic, outputs, summary, step, key>>

PublishFailure ==
    /\ pc = "fail_publish"
    /\ PublishesAs([failure |-> reason, calls |-> Calls], "fail_record")

RecordFailure == pc = "fail_record" /\ RecordsAs("failed", reason.outcome)

-----------------------------------------------------------------------------
Advance ==
    \/ SaveSpec
    \/ Preflight
    \/ Perform
    \/ Pause
    \/ SaveOutput
    \/ SaveRunning
    \/ SaveLedger
    \/ SaveDone
    \/ Publish
    \/ Record
    \/ SaveFailState
    \/ PublishFailure
    \/ RecordFailure

Next == Start \/ Reuse \/ Crash \/ Advance

Spec == Init /\ [][Next]_vars

(* A running invocation takes its next step; nobody has to start one.      *)
FairSpec == Spec /\ WF_vars(Advance)

-----------------------------------------------------------------------------
(* The summary that lets the public run skip the phase for good stands for *)
(* a whole phase: every operation accepted, every output saved, and the    *)
(* state the next stage loads is complete, whatever was interrupted.       *)
CompleteIsWhole ==
    /\ summary # None /\ summary.failure = None =>
          /\ outputs = 1..Ledger
          /\ state = [outcome |-> "complete", done |-> N]
          /\ summary.calls = Calls
    /\ state # None /\ state.outcome = "complete" =>
          \A i \in 1..N : Accepted(i) /\ i \in outputs

(* What an invocation reports is what the summary says, and it reports a   *)
(* conflict only when the summary of an earlier failure is in its way.     *)
ReportsWhatIsSaved ==
    /\ pc \in FailureOutcome =>
          summary # None /\ summary.failure # None /\ summary.failure.outcome = pc
    /\ pc = "complete" => summary # None /\ summary.failure = None
    /\ pc = "conflict" => summary # None /\ summary.failure # None

(* A resumed phase goes on in the tonal centre its first accepted answers  *)
(* were asked in, whenever the first invocation was interrupted.           *)
ResumesInItsKey ==
    pc \in Outcome \cup (Step \ {"spec"}) => key = tonic

(* Invocation and records fit together, whatever was stopped in between.   *)
InvocationFits == TypeOK /\ ReportsWhatIsSaved /\ ResumesInItsKey

(* Published records outlive every later invocation.                       *)
RecordsNeverRewritten ==
    [][/\ tonic # None => tonic' = tonic
       /\ outputs \subseteq outputs'
       /\ summary # None => summary' = summary
       /\ step # None => step' = step
       /\ \A i \in 1..N : Accepted(i) => op'[i] = op[i]]_vars

(* An invocation that is not stopped ends with an outcome.                 *)
InvocationEnds == pc = "spec" ~> pc \in {"idle"} \cup Outcome

(* A phase that was stopped after its last acceptance is finished by an    *)
(* invocation that is not stopped and finds its runner ready.              *)
AcceptedWorkIsFinished ==
    pc = "pick" /\ summary = None /\ (\A i \in 1..N : Accepted(i))
        ~> pc \in {"idle", "complete"}

-----------------------------------------------------------------------------
(* How the phase has ended for the public run: as its summary says.        *)
Ended ==
    IF summary = None THEN None
    ELSE IF summary.failure = None THEN "complete" ELSE "failed"

Tells ==
    CASE pc = "idle" -> "silent"
      [] pc \in Step -> "busy"
      [] pc = "complete" -> "complete"
      [] pc \in FailureOutcome -> "failed"
      [] OTHER -> "open"

Recorded == INSTANCE RecordedPhase WITH ending <- Ended, telling <- Tells

(* The phase ends for good at most once, and an invocation that reports    *)
(* the end reports the one that is saved.                                  *)
KeepsPhasePromise == Recorded!Spec
=============================================================================
