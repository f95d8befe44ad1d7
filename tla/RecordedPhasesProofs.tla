------------------------- MODULE RecordedPhasesProofs -------------------------
(***************************************************************************)
(* Theorems about the recorded phases of MCRecordedPhases, for every number*)
(* of operations and every set of tonal centres: first phase 3 (Phase3Run),*)
(* then what the others keep beside it.                                    *)
(***************************************************************************)
EXTENDS MCRecordedPhases, OperationSequenceProofs

Done == [outcome |-> "complete", done |-> N]

(* The last steps of an invocation that accepted everything.               *)
Closing == {"ledger", "done", "publish", "record"}

(* What the steps around the operations know of the saved files.           *)
StepOK ==
    /\ pc \in {"spec", "preflight"} => at = 1 /\ fresh = 0
    /\ pc \in Busy => 1..(at - 1) \subseteq outputs
    /\ pc = "running" => at \in outputs
    /\ pc \in Closing => \A i \in 1..N : Accepted(i) /\ i \in outputs
    /\ pc \in Closing \ {"ledger"} => Ledger \in outputs
    /\ pc \in {"publish", "record"} => state = Done
    /\ pc \in {"fail_publish", "fail_record"} => reason # None

(* The summary is published once, by the invocation that then ends.        *)
SummaryOK ==
    /\ pc \in Step \ {"record"} => ~ IsComplete
    /\ pc = "record" => IsComplete
    /\ pc = "fail_record" => summary # None /\ summary.failure = reason
    /\ step = "completed" => IsComplete
    /\ step = "failed" => summary # None /\ summary.failure # None

KeyOK ==
    /\ pc = "spec" => key \in SelectedKey
    /\ ResumesInItsKey

IInv ==
    /\ TypeOK
    /\ SInv
    /\ StepOK
    /\ SummaryOK
    /\ CompleteIsWhole
    /\ ReportsWhatIsSaved
    /\ KeyOK

LEMMA InitOK == Init => IInv
  <1>1. SUFFICES ASSUME Init PROVE IInv
    OBVIOUS
  <1>2. SInv
    BY <1>1, InitKeeps DEF Init
  <1>3. pc = "idle" /\ summary = None /\ state = None /\ step = None
    BY <1>1 DEF Init, SequenceInit
  <1>4. TypeOK
    BY <1>1, <1>2 DEF Init, SequenceInit, SInv, TypeOK
  <1>5. StepOK /\ KeyOK /\ ReportsWhatIsSaved
    BY <1>3 DEF StepOK, Busy, Closing, OperationStep, KeyOK, ResumesInItsKey, Step,
       Outcome, FailureOutcome, ReportsWhatIsSaved
  <1>6. SummaryOK /\ CompleteIsWhole
    BY <1>3, AbsentAssumption
       DEF SummaryOK, Step, OperationStep, IsComplete, CompleteIsWhole
  <1>7. QED BY <1>2, <1>4, <1>5, <1>6 DEF IInv

-----------------------------------------------------------------------------
(* A step between the first call and the summary: only outputs, the state  *)
(* and the operations change.                                              *)
LEMMA WorkStep ==
    ASSUME IInv, SInv', TypeOK', StepOK', UNCHANGED <<tonic, summary, step, key>>,
           pc \in Step \ {"spec", "record", "fail_record"},
           pc' \in (Step \cup {"paused"}) \ {"spec", "record", "fail_record"},
           state' # None /\ state'.outcome = "complete" =>
               \A i \in 1..N : Accepted(i)' /\ i \in outputs'
    PROVE  IInv'
  <1>1. ~ IsComplete
    BY DEF IInv, SummaryOK
  <1>2. SummaryOK'
    BY <1>1 DEF IInv, SummaryOK, IsComplete, Step
  <1>3. CompleteIsWhole'
    BY <1>1 DEF IsComplete, CompleteIsWhole
  <1>4. ReportsWhatIsSaved'
    BY DEF ReportsWhatIsSaved, Step, OperationStep, FailureOutcome
  <1>5. KeyOK'
    BY DEF IInv, KeyOK, ResumesInItsKey
  <1>6. QED BY <1>2, <1>3, <1>4, <1>5 DEF IInv

(* A step that saves the summary, the step record or nothing: the outputs, *)
(* the state and the operations stay.                                      *)
LEMMA EdgeStep ==
    ASSUME IInv, SInv', TypeOK', StepOK', SummaryOK', ReportsWhatIsSaved', KeyOK',
           UNCHANGED <<op, outputs, state>>,
           summary' = summary \/ summary'.failure # None
    PROVE  IInv'
  <1>1. CompleteIsWhole'
    BY DEF IInv, CompleteIsWhole, Calls, Accepted
  <1>2. QED BY <1>1 DEF IInv

-----------------------------------------------------------------------------
(* The steps around the work.                                              *)
LEMMA StartOK == ASSUME IInv, Start PROVE IInv'
  <1>1. /\ pc \in {"idle"} \cup Outcome /\ ~ IsComplete /\ pc' = "spec"
        /\ at' = 1 /\ fresh' = 0 /\ key' \in SelectedKey
        /\ UNCHANGED <<op, tonic, outputs, state, summary, step>>
    BY DEF Start, Begin
  <1>2. SInv'
    BY BeginKeeps DEF Start, IInv, Busy, OperationStep
  <1>3. TypeOK'
    BY <1>1, <1>2 DEF IInv, TypeOK, SInv, SelectedKey, Step
  <1>4. StepOK'
    BY <1>1 DEF StepOK, Busy, Closing, OperationStep
  <1>5. SummaryOK'
    BY <1>1 DEF IInv, SummaryOK, IsComplete
  <1>6. ReportsWhatIsSaved' /\ KeyOK'
    BY <1>1 DEF ReportsWhatIsSaved, FailureOutcome, KeyOK, ResumesInItsKey,
       SelectedKey, Outcome
  <1>7. QED BY <1>1, <1>2, <1>3, <1>4, <1>5, <1>6, EdgeStep

LEMMA ReuseOK == ASSUME IInv, Reuse PROVE IInv'
  <1>1. /\ IsComplete /\ pc' = "complete" /\ key' = tonic
        /\ UNCHANGED <<op, at, budget, fresh, reason, tonic, outputs, state, summary, step>>
    BY DEF Reuse, Goto
  <1>2. SInv'
    BY <1>1, LeaveKeeps DEF IInv, SInv, SequenceTypeOK, Busy, OperationStep
  <1>3. TypeOK'
    BY <1>1, <1>2 DEF IInv, TypeOK, SInv, Outcome
  <1>4. StepOK'
    BY <1>1 DEF StepOK, Busy, Closing, OperationStep
  <1>5. SummaryOK'
    BY <1>1 DEF IInv, SummaryOK, IsComplete, Step, OperationStep
  <1>6. ReportsWhatIsSaved' /\ KeyOK'
    BY <1>1 DEF ReportsWhatIsSaved, FailureOutcome, KeyOK, ResumesInItsKey, IsComplete
  <1>7. QED BY <1>1, <1>2, <1>3, <1>4, <1>5, <1>6, EdgeStep

LEMMA CrashOK == ASSUME IInv, Crash PROVE IInv'
  <1>1. /\ pc' = "idle" /\ key' = None
        /\ UNCHANGED <<op, tonic, outputs, state, summary, step>>
    BY DEF Crash, Stop
  <1>2. SInv'
    BY StopKeeps DEF Crash, IInv
  <1>3. TypeOK'
    BY <1>1, <1>2 DEF IInv, TypeOK, SInv
  <1>4. StepOK'
    BY <1>1 DEF StepOK, Busy, Closing, OperationStep
  <1>5. SummaryOK'
    BY <1>1 DEF IInv, SummaryOK, IsComplete, Step, OperationStep
  <1>6. ReportsWhatIsSaved' /\ KeyOK'
    BY <1>1 DEF ReportsWhatIsSaved, FailureOutcome, KeyOK, ResumesInItsKey, Outcome,
       Step, OperationStep
  <1>7. QED BY <1>1, <1>2, <1>3, <1>4, <1>5, <1>6, EdgeStep

LEMMA SaveSpecOK == ASSUME IInv, SaveSpec PROVE IInv'
  <1>1. /\ pc = "spec" /\ key \in SelectedKey /\ at = 1 /\ fresh = 0 /\ ~ IsComplete
        /\ key \in Key /\ None \notin Key
    BY KeyAssumption
       DEF SaveSpec, IInv, KeyOK, StepOK, SummaryOK, Step, TypeOK, SelectedKey
  <1>2. /\ tonic' = key /\ key' = key /\ pc' = "preflight"
        /\ UNCHANGED <<op, at, budget, fresh, reason, outputs, state, summary, step>>
    BY <1>1 DEF SaveSpec, WritesOnce, Written, Goto, SelectedKey
  <1>3. SInv'
    BY <1>2, LeaveKeeps DEF IInv, SInv, SequenceTypeOK, Busy, OperationStep
  <1>4. TypeOK'
    BY <1>1, <1>2, <1>3 DEF IInv, TypeOK, SInv, Step
  <1>5. StepOK'
    BY <1>1, <1>2 DEF StepOK, Busy, Closing, OperationStep
  <1>6. SummaryOK'
    BY <1>1, <1>2 DEF IInv, SummaryOK, IsComplete
  <1>7. ReportsWhatIsSaved' /\ KeyOK'
    BY <1>2 DEF ReportsWhatIsSaved, FailureOutcome, KeyOK, ResumesInItsKey
  <1>8. QED BY <1>2, <1>3, <1>4, <1>5, <1>6, <1>7, EdgeStep

LEMMA RecordOK == ASSUME IInv, Record PROVE IInv'
  <1>1. pc = "record" /\ IsComplete /\ key = tonic /\ step # "failed"
    BY DEF Record, IInv, SummaryOK, KeyOK, ResumesInItsKey, Step, IsComplete
  <1>2. step \in {None, "completed"}
    BY <1>1 DEF IInv, TypeOK
  <1>3. /\ step' = "completed" /\ pc' = "complete"
        /\ UNCHANGED <<op, at, budget, fresh, reason, tonic, outputs, state, summary, key>>
    BY <1>2 DEF Record, RecordsAs, WritesOnce, Written, Goto
  <1>4. SInv'
    BY <1>3, LeaveKeeps DEF IInv, SInv, SequenceTypeOK, Busy, OperationStep
  <1>5. TypeOK'
    BY <1>3, <1>4 DEF IInv, TypeOK, SInv, Outcome
  <1>6. StepOK'
    BY <1>3 DEF StepOK, Busy, Closing, OperationStep
  <1>7. SummaryOK'
    BY <1>1, <1>3 DEF IInv, SummaryOK, IsComplete, Step, OperationStep
  <1>8. ReportsWhatIsSaved' /\ KeyOK'
    BY <1>1, <1>3 DEF ReportsWhatIsSaved, FailureOutcome, KeyOK, ResumesInItsKey,
       IsComplete
  <1>9. QED BY <1>3, <1>4, <1>5, <1>6, <1>7, <1>8, EdgeStep

LEMMA RecordFailureOK == ASSUME IInv, RecordFailure PROVE IInv'
  <1>1. /\ pc = "fail_record" /\ ~ IsComplete /\ key = tonic /\ reason \in Failure
        /\ summary # None /\ summary.failure = reason /\ reason # None
    BY DEF RecordFailure, IInv, SummaryOK, StepOK, KeyOK, ResumesInItsKey, Step,
       TypeOK, SequenceTypeOK
  <1>2. step \in {None, "failed"}
    BY <1>1 DEF IInv, TypeOK, SummaryOK
  <1>3. /\ step' = "failed" /\ pc' = reason.outcome
        /\ UNCHANGED <<op, at, budget, fresh, reason, tonic, outputs, state, summary, key>>
    BY <1>2 DEF RecordFailure, RecordsAs, WritesOnce, Written, Goto
  <1>4. pc' \in FailureOutcome
    BY <1>1, <1>3 DEF Failure, FailureOutcome
  <1>5. SInv'
    BY <1>3, <1>4, LeaveKeeps
       DEF IInv, SInv, SequenceTypeOK, Busy, OperationStep, FailureOutcome
  <1>6. TypeOK'
    BY <1>3, <1>4, <1>5 DEF IInv, TypeOK, SInv, Outcome
  <1>7. StepOK'
    BY <1>3, <1>4 DEF StepOK, Busy, Closing, OperationStep, FailureOutcome
  <1>8. SummaryOK'
    BY <1>1, <1>3, <1>4 DEF SummaryOK, IsComplete, Step, OperationStep, FailureOutcome
  <1>9. ReportsWhatIsSaved' /\ KeyOK'
    BY <1>1, <1>3, <1>4
       DEF ReportsWhatIsSaved, FailureOutcome, KeyOK, ResumesInItsKey
  <1>10. QED BY <1>3, <1>5, <1>6, <1>7, <1>8, <1>9, EdgeStep

(* The summary is saved, unless that of an earlier failure is in the way.  *)
LEMMA PublishFailureOK == ASSUME IInv, PublishFailure PROVE IInv'
  <1> DEFINE new == [failure |-> reason, calls |-> Calls]
  <1>1. /\ pc = "fail_publish" /\ ~ IsComplete /\ key = tonic /\ reason \in Failure
        /\ reason # None
    BY DEF PublishFailure, IInv, SummaryOK, StepOK, KeyOK, ResumesInItsKey, Step,
       TypeOK, SequenceTypeOK
  <1>2. new \in Summary /\ new # None /\ new.failure = reason
    BY <1>1, AbsentAssumption DEF Summary, Calls, IInv, TypeOK, SequenceTypeOK, Stage
  <1>3. /\ UNCHANGED <<op, at, budget, fresh, reason, tonic, outputs, state, step, key>>
        /\ summary' = IF summary = None THEN new ELSE summary
        /\ pc' = IF summary \in {None, new} THEN "fail_record" ELSE "conflict"
    BY DEF PublishFailure, PublishesAs, WritesOnce, Written, Goto
  <1>4. SInv'
    BY <1>3, LeaveKeeps DEF IInv, SInv, SequenceTypeOK, Busy, OperationStep
  <1>5. TypeOK'
    BY <1>2, <1>3, <1>4 DEF IInv, TypeOK, SInv, Outcome, Step
  <1>6. StepOK'
    BY <1>1, <1>3 DEF StepOK, Busy, Closing, OperationStep
  <1>7. summary' # None /\ summary'.failure # None
    BY <1>1, <1>2, <1>3 DEF IsComplete
  <1>8. SummaryOK'
    BY <1>1, <1>2, <1>3, <1>7 DEF IInv, SummaryOK, IsComplete, Step
  <1>9. ReportsWhatIsSaved' /\ KeyOK'
    BY <1>1, <1>3, <1>7 DEF ReportsWhatIsSaved, FailureOutcome, KeyOK, ResumesInItsKey
  <1>10. QED BY <1>3, <1>4, <1>5, <1>6, <1>7, <1>8, <1>9, EdgeStep

LEMMA PublishOK == ASSUME IInv, Publish PROVE IInv'
  <1> DEFINE new == [failure |-> None, calls |-> Calls]
  <1>1. /\ pc = "publish" /\ ~ IsComplete /\ key = tonic
        /\ \A i \in 1..N : Accepted(i) /\ i \in outputs
        /\ Ledger \in outputs /\ state = Done
    BY DEF Publish, IInv, SummaryOK, StepOK, Closing, KeyOK, ResumesInItsKey, Step
  <1>2. new \in Summary /\ new # None /\ new.failure = None /\ new.calls = Calls
    BY AbsentAssumption DEF Summary, Calls, IInv, TypeOK, SequenceTypeOK, Stage
  <1>3. /\ UNCHANGED <<op, at, budget, fresh, reason, tonic, outputs, state, step, key>>
        /\ summary' = IF summary = None THEN new ELSE summary
        /\ pc' = IF summary \in {None, new} THEN "record" ELSE "conflict"
    BY DEF Publish, PublishesAs, WritesOnce, Written, Goto
  <1>4. SInv'
    BY <1>3, LeaveKeeps DEF IInv, SInv, SequenceTypeOK, Busy, OperationStep
  <1>5. TypeOK'
    BY <1>2, <1>3, <1>4 DEF IInv, TypeOK, SInv, Outcome, Step
  <1>6. StepOK'
    BY <1>1, <1>3 DEF StepOK, Busy, Closing, OperationStep, Accepted
  <1>7. CASE summary = None
    <2>1. summary' = new /\ pc' = "record"
      BY <1>3, <1>7
    <2>2. SummaryOK'
      BY <1>2, <1>3, <1>7, <2>1 DEF IInv, SummaryOK, IsComplete, Step
    <2>3. outputs = 1..Ledger
      <3>1. outputs \subseteq 1..Ledger
        BY DEF IInv, TypeOK
      <3>2. \A i \in 1..Ledger : i \in 1..N \/ i = Ledger
        BY SizeAssumption DEF Ledger
      <3>3. 1..Ledger \subseteq outputs
        BY <1>1, <3>2
      <3>4. QED BY <3>1, <3>3
    <2>4. CompleteIsWhole'
      BY <1>1, <1>2, <1>3, <2>1, <2>3
         DEF CompleteIsWhole, Calls, Done, Accepted
    <2>5. ReportsWhatIsSaved' /\ KeyOK'
      BY <1>1, <1>3, <2>1
         DEF ReportsWhatIsSaved, FailureOutcome, KeyOK, ResumesInItsKey
    <2>6. QED BY <1>4, <1>5, <1>6, <2>2, <2>4, <2>5 DEF IInv
  <1>8. CASE summary # None
    <2>1. summary' = summary /\ summary.failure # None /\ pc' = "conflict"
      BY <1>1, <1>2, <1>3, <1>8 DEF IsComplete
    <2>2. SummaryOK'
      BY <1>3, <1>8, <2>1 DEF IInv, SummaryOK, IsComplete, Step, OperationStep
    <2>3. ReportsWhatIsSaved' /\ KeyOK'
      BY <1>1, <1>3, <1>8, <2>1
         DEF ReportsWhatIsSaved, FailureOutcome, KeyOK, ResumesInItsKey
    <2>4. QED BY <1>3, <1>4, <1>5, <1>6, <2>1, <2>2, <2>3, EdgeStep
  <1>9. QED BY <1>7, <1>8

-----------------------------------------------------------------------------
(* The work between the first call and the summary.                        *)
LEMMA PreflightOK == ASSUME IInv, Preflight PROVE IInv'
  <1>1. /\ pc = "preflight" /\ at = 1 /\ fresh = 0
        /\ pc \in Step \ {"spec", "record", "fail_record"}
        /\ UNCHANGED <<op, at, budget, fresh, tonic, outputs, state, summary, step, key>>
    BY DEF Preflight, IInv, StepOK, Step
  <1>2. CASE pc' = "pick" /\ UNCHANGED reason
    <2>1. SInv'
      BY <1>1, <1>2, EnterKeeps DEF IInv
    <2>2. StepOK'
      BY <1>1, <1>2 DEF StepOK, Busy, Closing, OperationStep
    <2>3. TypeOK'
      BY <1>1, <1>2, <2>1 DEF IInv, TypeOK, SInv, Step, OperationStep
    <2>4. QED
      BY <1>1, <1>2, <2>1, <2>2, <2>3, WorkStep
         DEF IInv, CompleteIsWhole, Accepted, Step, OperationStep
  <1>3. CASE /\ pc' = "fail_publish"
             /\ reason' = [outcome |-> "runner_failed", why |-> "preflight"]
    <2>1. reason' \in Failure /\ reason' # None
      BY <1>3, NoneAssumption DEF Failure
    <2>2. SInv'
      BY <1>1, <1>3, <2>1, LeaveKeeps DEF IInv, Busy, OperationStep
    <2>3. StepOK'
      BY <1>1, <1>3, <2>1 DEF StepOK, Busy, Closing, OperationStep
    <2>4. TypeOK'
      BY <1>1, <1>3, <2>2 DEF IInv, TypeOK, SInv, Step
    <2>5. QED
      BY <1>1, <1>3, <2>2, <2>3, <2>4, WorkStep
         DEF IInv, CompleteIsWhole, Accepted, Step
  <1>4. QED BY <1>2, <1>3 DEF Preflight

LEMMA PerformOK == ASSUME IInv, Perform PROVE IInv'
  <1>1. SInv'
    BY OperateKeeps DEF Perform, IInv
  <1>2. /\ pc \in OperationStep \ {"save", "fail"}
        /\ pc' \in OperationStep
        /\ UNCHANGED <<at, budget, tonic, outputs, state, summary, step, key>>
    BY DEF Perform, Operate, Pick, Return, AskAgain, Judge, Accept, OperationStep, Fails
  <1>3. \A i \in 1..N : Accepted(i) => Accepted(i)'
    BY AcceptedStays DEF Perform, IInv, Accepted
  <1>4. StepOK'
    BY <1>2 DEF IInv, StepOK, Busy, Closing, OperationStep
  <1>5. TypeOK'
    BY <1>1, <1>2 DEF IInv, TypeOK, SInv, Step
  <1>6. state' # None /\ state'.outcome = "complete" =>
           \A i \in 1..N : Accepted(i)' /\ i \in outputs'
    BY <1>2, <1>3 DEF IInv, CompleteIsWhole
  <1>7. QED BY <1>1, <1>2, <1>4, <1>5, <1>6, WorkStep DEF Step, OperationStep

LEMMA PauseOK == ASSUME IInv, Pause PROVE IInv'
  <1>1. /\ pc = "pick" /\ pc' = "paused"
        /\ state' = [outcome |-> "paused", done |-> at - 1]
        /\ UNCHANGED <<op, at, budget, fresh, reason, tonic, outputs, summary, step, key>>
    BY DEF Pause, Pauses, Goto
  <1>2. at - 1 \in 0..N
    BY <1>1, SizeAssumption DEF IInv, SInv, PlaceOK, Busy, OperationStep
  <1>3. SInv'
    BY <1>1, LeaveKeeps DEF IInv, SInv, SequenceTypeOK, Busy, OperationStep
  <1>4. StepOK'
    BY <1>1 DEF StepOK, Busy, Closing, OperationStep
  <1>5. TypeOK'
    BY <1>1, <1>2, <1>3 DEF IInv, TypeOK, SInv, State, Outcome
  <1>6. QED BY <1>1, <1>3, <1>4, <1>5, WorkStep DEF Step, OperationStep

LEMMA SaveOutputOK == ASSUME IInv, SaveOutput PROVE IInv'
  <1>1. /\ pc = "save" /\ pc' = "running" /\ outputs' = outputs \cup {at}
        /\ UNCHANGED <<op, at, budget, fresh, reason, tonic, state, summary, step, key>>
    BY DEF SaveOutput, Goto
  <1>2. SInv'
    BY SaveKeeps DEF SaveOutput, IInv
  <1>3. at \in 1..N /\ at \in 1..Ledger
    BY <1>1, SizeAssumption DEF IInv, SInv, PlaceOK, Busy, OperationStep, Ledger
  <1>4. StepOK'
    BY <1>1 DEF IInv, StepOK, Busy, Closing, OperationStep
  <1>5. TypeOK'
    BY <1>1, <1>2, <1>3 DEF IInv, TypeOK, SInv, Step
  <1>6. QED
    BY <1>1, <1>2, <1>4, <1>5, WorkStep
       DEF IInv, CompleteIsWhole, Accepted, Step, OperationStep

LEMMA SaveRunningOK == ASSUME IInv, SaveRunning PROVE IInv'
  <1>1. /\ pc = "running" /\ N \in Nat \ {0} /\ at \in 1..N
        /\ 1..(at - 1) \subseteq outputs /\ at \in outputs
        /\ \A i \in 1..at : Accepted(i)
    BY SizeAssumption DEF SaveRunning, IInv, SInv, PlaceOK, StepOK, Busy
  <1>2. /\ state' = IF at = 1 THEN state ELSE [outcome |-> "running", done |-> at]
        /\ UNCHANGED <<op, budget, fresh, reason, tonic, outputs, summary, step, key>>
        /\ pc' \in {"ledger", "pick"}
        /\ at = N => pc' = "ledger" /\ at' = at
        /\ at # N => pc' = "pick" /\ at' = at + 1
    BY DEF SaveRunning, ProceedTo
  <1>3. SInv'
    BY ProceedKeeps DEF SaveRunning, IInv, Busy, OperationStep
  <1>4. 1..at \subseteq outputs
    BY <1>1
  <1>5. StepOK'
    <2>1. CASE at = N
      BY <2>1, <1>1, <1>2, <1>4 DEF StepOK, Busy, Closing, OperationStep, Accepted
    <2>2. CASE at # N
      <3>1. 1..(at' - 1) \subseteq outputs'
        BY <2>2, <1>1, <1>2, <1>4
      <3>2. QED BY <2>2, <3>1, <1>2 DEF StepOK, Busy, Closing, OperationStep
    <2>3. QED BY <2>1, <2>2
  <1>6. TypeOK'
    BY <1>1, <1>2, <1>3 DEF IInv, TypeOK, SInv, State, Step, OperationStep
  <1>7. state' # None /\ state'.outcome = "complete" =>
           \A i \in 1..N : Accepted(i)' /\ i \in outputs'
    BY <1>2 DEF IInv, CompleteIsWhole, Accepted
  <1>8. QED BY <1>1, <1>2, <1>3, <1>5, <1>6, <1>7, WorkStep DEF Step, OperationStep

LEMMA SaveLedgerOK == ASSUME IInv, SaveLedger PROVE IInv'
  <1>1. /\ pc = "ledger" /\ pc' = "done" /\ outputs' = outputs \cup {Ledger}
        /\ UNCHANGED <<op, at, budget, fresh, reason, tonic, state, summary, step, key>>
    BY DEF SaveLedger, Goto
  <1>2. SInv'
    BY <1>1, LeaveKeeps DEF IInv, SInv, SequenceTypeOK, Busy, OperationStep
  <1>3. Ledger \in 1..Ledger
    BY SizeAssumption DEF Ledger
  <1>4. StepOK'
    BY <1>1 DEF IInv, StepOK, Busy, Closing, OperationStep, Accepted
  <1>5. TypeOK'
    BY <1>1, <1>2, <1>3 DEF IInv, TypeOK, SInv, Step
  <1>6. QED
    BY <1>1, <1>2, <1>4, <1>5, WorkStep DEF IInv, CompleteIsWhole, Accepted, Step

LEMMA SaveDoneOK == ASSUME IInv, SaveDone PROVE IInv'
  <1>1. /\ pc = "done" /\ pc' = "publish" /\ state' = Done
        /\ UNCHANGED <<op, at, budget, fresh, reason, tonic, outputs, summary, step, key>>
    BY DEF SaveDone, Goto, Done
  <1>2. SInv'
    BY <1>1, LeaveKeeps DEF IInv, SInv, SequenceTypeOK, Busy, OperationStep
  <1>3. StepOK'
    BY <1>1 DEF IInv, StepOK, Busy, Closing, OperationStep, Accepted
  <1>4. TypeOK'
    BY <1>1, <1>2, SizeAssumption DEF IInv, TypeOK, SInv, Step, State, Done
  <1>5. \A i \in 1..N : Accepted(i)' /\ i \in outputs'
    BY <1>1 DEF IInv, StepOK, Closing, Accepted
  <1>6. QED BY <1>1, <1>2, <1>3, <1>4, <1>5, WorkStep DEF Step

LEMMA SaveFailStateOK == ASSUME IInv, SaveFailState PROVE IInv'
  <1>1. /\ pc = "fail" /\ pc' = "fail_publish"
        /\ state' = IF at = 1 THEN state
                    ELSE [outcome |-> reason.outcome, done |-> at - 1]
        /\ UNCHANGED <<op, at, budget, fresh, reason, tonic, outputs, summary, step, key>>
    BY DEF SaveFailState, Goto
  <1>2. /\ at - 1 \in 0..N
        /\ reason # None /\ reason.outcome \in FailureOutcome
    BY <1>1, SizeAssumption
       DEF IInv, SInv, SequenceTypeOK, PlaceOK, Busy, OperationStep, Failure,
           FailureOutcome
  <1>3. SInv'
    BY <1>1, LeaveKeeps DEF IInv, SInv, SequenceTypeOK, Busy, OperationStep
  <1>4. StepOK'
    BY <1>1, <1>2 DEF StepOK, Busy, Closing, OperationStep
  <1>5. TypeOK'
    BY <1>1, <1>2, <1>3 DEF IInv, TypeOK, SInv, State, Step
  <1>6. state' # None /\ state'.outcome = "complete" =>
           \A i \in 1..N : Accepted(i)' /\ i \in outputs'
    BY <1>1, <1>2 DEF IInv, CompleteIsWhole, Accepted, FailureOutcome
  <1>7. QED BY <1>1, <1>3, <1>4, <1>5, <1>6, WorkStep DEF Step, OperationStep

-----------------------------------------------------------------------------
LEMMA NextOK == IInv /\ [Next]_vars => IInv'
  <1>1. SUFFICES ASSUME IInv, [Next]_vars PROVE IInv'
    OBVIOUS
  <1>2. CASE Start BY <1>1, <1>2, StartOK
  <1>3. CASE Reuse BY <1>1, <1>3, ReuseOK
  <1>4. CASE Crash BY <1>1, <1>4, CrashOK
  <1>5. CASE SaveSpec BY <1>1, <1>5, SaveSpecOK
  <1>6. CASE Preflight BY <1>1, <1>6, PreflightOK
  <1>7. CASE Perform BY <1>1, <1>7, PerformOK
  <1>8. CASE Pause BY <1>1, <1>8, PauseOK
  <1>9. CASE SaveOutput BY <1>1, <1>9, SaveOutputOK
  <1>10. CASE SaveRunning BY <1>1, <1>10, SaveRunningOK
  <1>11. CASE SaveLedger BY <1>1, <1>11, SaveLedgerOK
  <1>12. CASE SaveDone BY <1>1, <1>12, SaveDoneOK
  <1>13. CASE Publish BY <1>1, <1>13, PublishOK
  <1>14. CASE Record BY <1>1, <1>14, RecordOK
  <1>15. CASE SaveFailState BY <1>1, <1>15, SaveFailStateOK
  <1>16. CASE PublishFailure BY <1>1, <1>16, PublishFailureOK
  <1>17. CASE RecordFailure BY <1>1, <1>17, RecordFailureOK
  <1>18. CASE UNCHANGED vars
    <2>1. UNCHANGED <<op, pc, at, budget, fresh, reason, tonic, outputs, state,
                      summary, step, key>>
      BY <1>18 DEF vars, sequence
    <2>2. SInv' /\ TypeOK'
      BY <1>1, <2>1 DEF IInv, TypeOK, SInv, SequenceTypeOK, OperationsInOrder,
         PlaceOK, Accepted
    <2>3. StepOK' /\ SummaryOK' /\ CompleteIsWhole'
      BY <1>1, <2>1 DEF IInv, StepOK, SummaryOK, IsComplete, CompleteIsWhole, Calls,
         Accepted
    <2>4. ReportsWhatIsSaved' /\ KeyOK'
      BY <1>1, <2>1 DEF IInv, ReportsWhatIsSaved, KeyOK, ResumesInItsKey, SelectedKey
    <2>5. QED BY <2>2, <2>3, <2>4 DEF IInv
  <1>19. QED
    BY <1>1, <1>2, <1>3, <1>4, <1>5, <1>6, <1>7, <1>8, <1>9, <1>10, <1>11, <1>12,
       <1>13, <1>14, <1>15, <1>16, <1>17, <1>18 DEF Next, Advance

LEMMA Invariant == Spec => []IInv
  BY InitOK, NextOK, PTL DEF Spec

(* Every variable keeps its type, for any number of operations.            *)
THEOREM TypeCorrect == Spec => []TypeOK
  <1>1. IInv => TypeOK
    BY DEF IInv
  <1>2. QED BY <1>1, Invariant, PTL

(* The summary that lets the public run skip the phase stands for a whole  *)
(* phase, however the run was interrupted.                                 *)
THEOREM CompleteWhole == Spec => []CompleteIsWhole
  <1>1. IInv => CompleteIsWhole
    BY DEF IInv
  <1>2. QED BY <1>1, Invariant, PTL

(* What an invocation reports is what the published summary says.          *)
THEOREM ReportsSaved == Spec => []ReportsWhatIsSaved
  <1>1. IInv => ReportsWhatIsSaved
    BY DEF IInv
  <1>2. QED BY <1>1, Invariant, PTL

(* Every invocation works in the tonal centre that was drawn first.        *)
THEOREM ResumesInKey == Spec => []ResumesInItsKey
  <1>1. IInv => ResumesInItsKey
    BY DEF IInv, KeyOK
  <1>2. QED BY <1>1, Invariant, PTL

(* Every invocation goes on in the key that was drawn and reports what is  *)
(* saved.                                                                  *)
THEOREM InvocationsFit == Spec => []InvocationFits
  <1>1. InvocationFits <=> TypeOK /\ ReportsWhatIsSaved /\ ResumesInItsKey
    BY DEF InvocationFits
  <1>2. QED BY <1>1, TypeCorrect, ReportsSaved, ResumesInKey, PTL

(* A harmony is only asked for when the plan and all earlier harmonies are *)
(* accepted.                                                               *)
THEOREM InOrder == Spec => []OperationsInOrder
  <1>1. IInv => OperationsInOrder
    BY DEF IInv, SInv
  <1>2. QED BY <1>1, Invariant, PTL

(* No step changes the operations but a step of an operation.              *)
LEMMA OthersKeepOperations ==
    ASSUME [Next]_vars PROVE Perform \/ op' = op
  BY DEF Next, Advance, Start, Begin, Reuse, Crash, Stop, SaveSpec, Preflight, Pause,
     SaveOutput, SaveRunning, SaveLedger, SaveDone, Publish, PublishesAs, Record,
     RecordsAs, SaveFailState, PublishFailure, RecordFailure, WritesOnce, Goto,
     ProceedTo, vars, sequence

(* Published records outlive every later step.                             *)
THEOREM NeverRewritten == Spec => RecordsNeverRewritten
  <1>1. ASSUME IInv, [Next]_vars
        PROVE  [/\ tonic # None => tonic' = tonic
                /\ outputs \subseteq outputs'
                /\ summary # None => summary' = summary
                /\ step # None => step' = step
                /\ \A i \in 1..N : Accepted(i) => op'[i] = op[i]]_vars
    <2>1. \A i \in 1..N : Accepted(i) => op'[i] = op[i]
      BY <1>1, OthersKeepOperations, AcceptedStays DEF Perform, IInv
    <2>2. /\ tonic # None => tonic' = tonic
          /\ outputs \subseteq outputs'
          /\ summary # None => summary' = summary
          /\ step # None => step' = step
      BY <1>1 DEF Next, Advance, Start, Reuse, Crash, SaveSpec, Preflight, Perform,
         Pause, SaveOutput, SaveRunning, SaveLedger, SaveDone, Publish, PublishesAs,
         Record, RecordsAs, SaveFailState, PublishFailure, RecordFailure, Written,
         vars
    <2>3. QED BY <2>1, <2>2
  <1>2. QED BY <1>1, Invariant, PTL DEF Spec, RecordsNeverRewritten

(* The model is never asked while an earlier call failed or has no known   *)
(* end.                                                                    *)
THEOREM NoCallAfterFailure == Spec => NoCallAfterFailedCall
  <1>1. ASSUME IInv, [Next]_vars
        PROVE  [(\E i \in 1..N : op'[i].calls > op[i].calls) =>
                  \A i \in 1..N : op[i].last \notin {"open", "failed", "lost"}]_sequence
    <2>1. CASE Perform
      BY <1>1, <2>1, CallsAreAllowed DEF Perform, IInv
    <2>2. CASE op' = op
      BY <1>1, <2>2 DEF IInv, TypeOK, SequenceTypeOK, Stage
    <2>3. QED BY <1>1, <2>1, <2>2, OthersKeepOperations
  <1>2. QED BY <1>1, Invariant, PTL DEF Spec, NoCallAfterFailedCall

-----------------------------------------------------------------------------
(* Phase3Run implements RecordedPhase: the summary is the ending.          *)

LEMMA CompletionTold == pc = "complete" => Tells = "complete"
  BY DEF Tells, Step, OperationStep, FailureOutcome

(* An end that is told, good or bad, is the one that is saved.             *)
LEMMA TellsWhatEnded ==
    IInv => /\ pc \in Step <=> Tells = "busy"
            /\ pc = "idle" => Tells = "silent"
            /\ pc \in Outcome => Tells \in {"open"} \cup ({Ended} \cap Recorded!Ending)
  <1> SUFFICES ASSUME IInv
               PROVE  /\ pc \in Step <=> Tells = "busy"
                      /\ pc = "idle" => Tells = "silent"
                      /\ pc \in Outcome =>
                            Tells \in {"open"} \cup ({Ended} \cap Recorded!Ending)
    OBVIOUS
  <1>1. pc \in {"idle"} \cup Step \cup Outcome
    BY DEF IInv, TypeOK
  <1>2. CASE pc = "idle"
    BY <1>2 DEF Tells, Step, OperationStep, Outcome, FailureOutcome
  <1>3. CASE pc \in Step
    BY <1>3 DEF Tells, Step, OperationStep, Outcome, FailureOutcome
  <1>4. CASE pc = "complete"
    <2>1. Tells = "complete"
      BY <1>4 DEF Tells, Step, OperationStep, FailureOutcome
    <2>2. Ended = "complete"
      BY <1>4 DEF Ended, IInv, ReportsWhatIsSaved, IsComplete
    <2>3. QED
      BY <1>4, <2>1, <2>2 DEF Recorded!Ending, Step, OperationStep
  <1>5. CASE pc \in FailureOutcome
    <2>1. summary # None /\ summary.failure # None
      BY <1>5 DEF IInv, ReportsWhatIsSaved, Outcome, FailureOutcome
    <2>2. Tells = "failed" /\ Ended = "failed"
      BY <1>5, <2>1 DEF Tells, Step, OperationStep, Ended, FailureOutcome
    <2>3. QED
      BY <1>5, <2>2 DEF Recorded!Ending, Step, OperationStep, FailureOutcome
  <1>6. CASE pc \in {"paused", "conflict"}
    BY <1>6 DEF Tells, Step, OperationStep, FailureOutcome
  <1>7. QED BY <1>1, <1>2, <1>3, <1>4, <1>5, <1>6 DEF Outcome

LEMMA TellsNext ==
    IInv' => /\ pc' \in Step <=> Tells' = "busy"
             /\ pc' = "idle" => Tells' = "silent"
             /\ pc' \in Outcome => Tells' \in {"open"} \cup ({Ended'} \cap Recorded!Ending)
  <1>1. (IInv => /\ pc \in Step <=> Tells = "busy"
                 /\ pc = "idle" => Tells = "silent"
                 /\ pc \in Outcome =>
                       Tells \in {"open"} \cup ({Ended} \cap Recorded!Ending))'
    BY TellsWhatEnded, PTL
  <1>2. QED BY <1>1 DEF Step, OperationStep, Outcome, FailureOutcome, Recorded!Ending

(* The step of an invocation under way is the work of the promise, as long *)
(* as it leaves a summary that is there alone.                             *)
LEMMA StepIsWork ==
    ASSUME IInv, IInv', pc \in Step, summary = None \/ summary' = summary
    PROVE  Recorded!Work
  <1>1. Tells = "busy"
    BY TellsWhatEnded
  <1>2. Ended' \in (IF Ended = None THEN Recorded!Ending \cup {None} ELSE {Ended})
    <2>1. summary = None => Ended = None
      BY DEF Ended
    <2>2. Ended' \in Recorded!Ending \cup {None}
      BY DEF Ended, Recorded!Ending
    <2>3. summary' = summary => Ended' = Ended
      BY DEF Ended
    <2>4. QED BY <2>1, <2>2, <2>3
  <1>3. Tells' \in {"busy", "silent", "open"} \cup ({Ended'} \cap Recorded!Ending)
    <2>1. pc' \in {"idle"} \cup Step \cup Outcome
      BY DEF IInv, TypeOK
    <2>2. QED BY <2>1, TellsNext DEF Recorded!Ending
  <1>4. QED BY <1>1, <1>2, <1>3 DEF Recorded!Work, Recorded!Ending

(* The phase ends for good at most once, and the end that an invocation    *)
(* reports is the one that is saved, for any number of operations.         *)
THEOREM PromiseKept == Spec => KeepsPhasePromise
  <1>1. Init => Recorded!Init
    BY InitOK, TellsWhatEnded DEF Init, SequenceInit, Recorded!Init, Ended
  <1>2. ASSUME IInv, IInv', [Next]_vars
        PROVE  [Recorded!Next]_Recorded!vars
    <2>1. CASE Start \/ Reuse
      <3>1. pc \in {"idle"} \cup Outcome /\ summary' = summary
        BY <2>1 DEF Start, Reuse
      <3>2. Tells # "busy"
        BY <1>2, <3>1, TellsWhatEnded DEF Step, OperationStep, Outcome, FailureOutcome
      <3>3. CASE Start
        <4>1. Tells' = "busy"
          BY <1>2, <3>3, TellsNext DEF Start, Begin, Step
        <4>2. QED BY <3>1, <3>2, <4>1 DEF Recorded!Next, Recorded!Begin, Ended
      <3>4. CASE Reuse
        <4>1. IsComplete /\ pc' = "complete"
          BY <3>4 DEF Reuse, Goto
        <4>2. Ended = "complete"
          BY <4>1 DEF Ended, IsComplete
        <4>3. (pc = "complete" => Tells = "complete")'
          BY CompletionTold, PTL
        <4>4. Tells' = "complete"
          BY <4>1, <4>3
        <4>5. Ended' = Ended
          BY <3>1 DEF Ended
        <4>6. QED BY <3>2, <4>2, <4>4, <4>5 DEF Recorded!Next, Recorded!Begin
      <3>5. QED BY <2>1, <3>3, <3>4
    <2>2. CASE Crash \/ Advance
      <3>1. pc \in Step
        BY <2>2 DEF Crash, Advance, SaveSpec, Preflight, Perform, Operate, Pick, Return,
           AskAgain, Judge, Accept, Pause, Pauses, SaveOutput, SaveRunning, SaveLedger,
           SaveDone, Publish, Record, SaveFailState, PublishFailure, RecordFailure,
           Step, OperationStep
      <3>2. summary = None \/ summary' = summary
        BY <2>2 DEF Crash, Advance, SaveSpec, Preflight, Perform, Pause, SaveOutput,
           SaveRunning, SaveLedger, SaveDone, Publish, PublishesAs, Record, RecordsAs,
           SaveFailState, PublishFailure, RecordFailure, Written
      <3>3. QED BY <1>2, <3>1, <3>2, StepIsWork DEF Recorded!Next
    <2>3. CASE UNCHANGED vars
      <3>1. pc' = pc /\ summary' = summary
        BY <2>3 DEF vars, sequence
      <3>2. QED BY <3>1 DEF Ended, Tells, Recorded!vars
    <2>4. QED BY <1>2, <2>1, <2>2, <2>3 DEF Next
  <1>3. QED BY <1>1, <1>2, Invariant, PTL DEF Spec, KeepsPhasePromise, Recorded!Spec

-----------------------------------------------------------------------------
(* The score run beside the others.                                        *)
StepsS == INSTANCE OperationSequenceProofs WITH
    op <- opS, pc <- pcS, at <- atS, budget <- budgetS, fresh <- freshS,
    reason <- reasonS

SameNamesS ==
    /\ Score!SequenceTypeOK <=> StepsS!SequenceTypeOK
    /\ Score!OperationStep = StepsS!OperationStep
    /\ Score!FailureOutcome = StepsS!FailureOutcome
    /\ Score!Stage = StepsS!Stage
    /\ Score!Failure = Failure /\ StepsS!Failure = Failure
    /\ Score!OperationsInOrder <=> StepsS!OperationsInOrder
    /\ \A i \in 1..N : Score!Accepted(i) <=> StepsS!Accepted(i)

LEMMA SameTypesS == SameNamesS
  BY DEF SameNamesS, Score!SequenceTypeOK, StepsS!SequenceTypeOK, Score!Stage,
     StepsS!Stage, Score!Last, StepsS!Last, Score!Failure, StepsS!Failure, Failure,
     Score!OperationStep, StepsS!OperationStep, Score!FailureOutcome,
     StepsS!FailureOutcome, Score!Accepted, StepsS!Accepted, Score!OperationsInOrder,
     StepsS!OperationsInOrder

LEMMA SameTypesSNext == SameNamesS'
  BY SameTypesS, PTL

(* The actions of OperationSequence under either name.                     *)
DoSameS ==
    /\ Score!SequenceInit <=> StepsS!SequenceInit
    /\ Score!Operate <=> StepsS!Operate
    /\ Score!Stop <=> StepsS!Stop
    /\ \A next : Score!Begin(next) <=> StepsS!Begin(next)
    /\ \A next : Score!Goto(next) <=> StepsS!Goto(next)
    /\ \A last : Score!ProceedTo(last) <=> StepsS!ProceedTo(last)

LEMMA SameActionsS == DoSameS
  BY DEF DoSameS, Score!Operate, StepsS!Operate, Score!Pick, StepsS!Pick, Score!Return,
     StepsS!Return, Score!AskAgain, StepsS!AskAgain, Score!Judge, StepsS!Judge,
     Score!Accept, StepsS!Accept, Score!Pauses, StepsS!Pauses, Score!Accepted,
     StepsS!Accepted, Score!Fails, StepsS!Fails, Score!IsDead, StepsS!IsDead,
     Score!MayAsk, StepsS!MayAsk, Score!AfterAsk, StepsS!AfterAsk, Score!AfterCall,
     StepsS!AfterCall, Score!AfterVerdict, StepsS!AfterVerdict, Score!AfterAccept,
     StepsS!AfterAccept, Score!SavedFailure, StepsS!SavedFailure, Score!LiveFailure,
     StepsS!LiveFailure, Score!SequenceInit, StepsS!SequenceInit, Score!Untouched,
     StepsS!Untouched, Score!Stop, StepsS!Stop, Score!Begin, StepsS!Begin, Score!Goto,
     StepsS!Goto, Score!ProceedTo, StepsS!ProceedTo

(* What the steps around the operations know of the saved files.           *)
StepOKS ==
    /\ pcS \in {"gate", "open", "preflight"} => atS = 1 /\ freshS = 0
    /\ pcS \in StepsS!Busy \cup {"fail"} => 1..(atS - 1) \subseteq groupsS
    /\ pcS = "running" => atS \in groupsS
    /\ pcS \in {"assemble", "publish", "invalid"} => groupsS = 1..N
    /\ pcS = "publish" => soundS
    /\ pcS \in Score!Step \ {"gate", "open"} => ~ outputsS

(* The files of the run against the acceptances they came from.            *)
FilesOKS ==
    /\ \A i \in groupsS : StepsS!Accepted(i)
    /\ outputsS => soundS /\ groupsS = 1..N
    /\ progressS # None => 1..progressS.done \subseteq groupsS

IInvS ==
    /\ Score!TypeOK
    /\ StepsS!SInv
    /\ FilesOKS
    /\ StepOKS

LEMMA ScoreInitOK == Score!Init => IInvS
  <1> USE SizeAssumption, NoneAssumption, SameTypesS, SameTypesSNext, SameActionsS
      DEF SameNamesS, DoSameS
  <1>1. SUFFICES ASSUME Score!Init PROVE IInvS
    OBVIOUS
  <1>2. StepsS!SInv
    BY <1>1, StepsS!InitKeeps DEF Score!Init
  <1>3. Score!TypeOK
    BY <1>1, <1>2 DEF Score!Init, Score!SequenceInit, StepsS!SequenceInit, StepsS!SInv,
       Score!TypeOK
  <1>4. FilesOKS
    BY <1>1 DEF Score!Init, FilesOKS
  <1>5. StepOKS
    BY <1>1 DEF Score!Init, Score!SequenceInit, StepsS!SequenceInit, StepOKS,
       StepsS!Busy, Score!Step, Score!OperationStep, StepsS!OperationStep
  <1>6. QED BY <1>2, <1>3, <1>4, <1>5 DEF IInvS

(* A step that changes no saved file.                                      *)
LEMMA ScoreQuietStep ==
    ASSUME IInvS, StepsS!SInv', UNCHANGED <<opS, Score!saved>>, StepOKS',
           pcS' \in {"idle"} \cup Score!Step \cup Score!Outcome
    PROVE  IInvS'
  BY SizeAssumption, NoneAssumption, SameTypesS, SameTypesSNext, SameActionsS
     DEF SameNamesS, DoSameS, IInvS, Score!saved, Score!Accepted, StepsS!Accepted,
         FilesOKS, Score!TypeOK, StepsS!SInv

-----------------------------------------------------------------------------
(* The actions that change no saved file.                                  *)
LEMMA ScoreStartOK == ASSUME IInvS, Score!Start PROVE IInvS'
  <1> USE SizeAssumption, NoneAssumption, SameTypesS, SameTypesSNext, SameActionsS
      DEF SameNamesS, DoSameS
  <1>1. StepsS!SInv'
    BY StepsS!BeginKeeps DEF Score!Start, IInvS, StepsS!Busy, Score!OperationStep,
       StepsS!OperationStep
  <1>2. StepOKS'
    BY DEF Score!Start, Score!Begin, StepsS!Begin, StepOKS, StepsS!Busy, Score!Step,
       Score!OperationStep, StepsS!OperationStep
  <1>3. QED
    BY <1>1, <1>2, ScoreQuietStep DEF Score!Start, Score!Begin, StepsS!Begin, Score!Step

LEMMA ScoreCrashOK == ASSUME IInvS, Score!Crash PROVE IInvS'
  <1> USE SizeAssumption, NoneAssumption, SameTypesS, SameTypesSNext, SameActionsS
      DEF SameNamesS, DoSameS
  <1>1. StepsS!SInv'
    BY StepsS!StopKeeps DEF Score!Crash, IInvS
  <1>2. StepOKS'
    BY DEF Score!Crash, Score!Stop, StepsS!Stop, StepOKS, StepsS!Busy, Score!Step,
       Score!OperationStep, StepsS!OperationStep
  <1>3. QED
    BY <1>1, <1>2, ScoreQuietStep DEF Score!Crash, Score!Stop, StepsS!Stop

LEMMA ScoreGateOK == ASSUME IInvS, Score!Gate PROVE IInvS'
  <1> USE SizeAssumption, NoneAssumption, SameTypesS, SameTypesSNext, SameActionsS
      DEF SameNamesS, DoSameS
  <1>1. pcS' \in {"lineage", "open"} /\ pcS' \notin StepsS!Busy
        /\ UNCHANGED <<opS, atS, budgetS, freshS, reasonS, Score!saved>>
    BY DEF Score!Gate, Score!Goto, StepsS!Goto, StepsS!Busy, Score!OperationStep,
       StepsS!OperationStep
  <1>2. StepsS!SInv'
    BY <1>1, StepsS!LeaveKeeps DEF IInvS, StepsS!SInv, Score!SequenceTypeOK,
       StepsS!SequenceTypeOK
  <1>3. StepOKS'
    BY <1>1 DEF Score!Gate, IInvS, StepOKS, StepsS!Busy, Score!Step, Score!OperationStep,
       StepsS!OperationStep
  <1>4. QED
    BY <1>1, <1>2, <1>3, ScoreQuietStep DEF Score!Step, Score!Outcome

LEMMA ScoreOpenOK == ASSUME IInvS, Score!Open PROVE IInvS'
  <1> USE SizeAssumption, NoneAssumption, SameTypesS, SameTypesSNext, SameActionsS
      DEF SameNamesS, DoSameS
  <1>1. /\ pcS' = IF outputsS THEN "complete" ELSE IF Score!HasWork THEN "preflight" ELSE "pick"
        /\ UNCHANGED <<opS, atS, budgetS, freshS, reasonS, Score!saved>>
    BY DEF Score!Open, Score!Goto, StepsS!Goto
  <1>2. atS = 1 /\ freshS = 0
    BY DEF Score!Open, IInvS, StepOKS
  <1>3. StepsS!SInv'
    <2>1. CASE pcS' = "pick"
      BY <2>1, <1>1, <1>2, StepsS!EnterKeeps DEF IInvS
    <2>2. CASE pcS' # "pick"
      BY <2>2, <1>1, StepsS!LeaveKeeps DEF IInvS, StepsS!SInv, Score!SequenceTypeOK,
         StepsS!SequenceTypeOK, StepsS!Busy, Score!OperationStep, StepsS!OperationStep
    <2>3. QED BY <2>1, <2>2
  <1>4. StepOKS'
    BY <1>1, <1>2 DEF StepOKS, StepsS!Busy, Score!Step, Score!OperationStep,
       StepsS!OperationStep, Score!saved
  <1>5. QED
    BY <1>1, <1>3, <1>4, ScoreQuietStep DEF Score!Step, Score!Outcome,
       Score!OperationStep, StepsS!OperationStep

LEMMA ScoreAssembleOK == ASSUME IInvS, Score!Assemble PROVE IInvS'
  <1> USE SizeAssumption, NoneAssumption, SameTypesS, SameTypesSNext, SameActionsS
      DEF SameNamesS, DoSameS
  <1>1. /\ pcS' = IF soundS /\ groupsS = 1..N THEN "publish" ELSE "invalid"
        /\ UNCHANGED <<opS, atS, budgetS, freshS, reasonS, Score!saved>>
    BY DEF Score!Assemble, Score!Goto, StepsS!Goto
  <1>2. StepsS!SInv'
    BY <1>1, StepsS!LeaveKeeps DEF IInvS, StepsS!SInv, Score!SequenceTypeOK,
       StepsS!SequenceTypeOK, StepsS!Busy, Score!OperationStep, StepsS!OperationStep
  <1>3. StepOKS'
    BY <1>1 DEF Score!Assemble, IInvS, StepOKS, StepsS!Busy, Score!Step,
       Score!OperationStep, StepsS!OperationStep, Score!saved
  <1>4. QED
    BY <1>1, <1>2, <1>3, ScoreQuietStep DEF Score!Step, Score!Outcome

-----------------------------------------------------------------------------
(* The actions that save.                                                  *)
LEMMA ScorePreflightOK == ASSUME IInvS, Score!Preflight PROVE IInvS'
  <1> USE SizeAssumption, NoneAssumption, SameTypesS, SameTypesSNext, SameActionsS
      DEF SameNamesS, DoSameS
  <1>1. atS = 1 /\ freshS = 0 /\ ~ outputsS
    BY DEF Score!Preflight, IInvS, StepOKS, Score!Step, Score!OperationStep,
       StepsS!OperationStep
  <1>2. CASE pcS' = "pick" /\ UNCHANGED <<reasonS, progressS>>
    <2>1. StepsS!SInv'
      BY <1>1, <1>2, StepsS!EnterKeeps DEF Score!Preflight, IInvS
    <2>2. StepOKS'
      BY <1>1, <1>2 DEF Score!Preflight, StepOKS, StepsS!Busy, Score!Step,
         Score!OperationStep, StepsS!OperationStep
    <2>3. QED
      BY <1>2, <2>1, <2>2, ScoreQuietStep DEF Score!Preflight, Score!saved, Score!Step,
         Score!OperationStep, StepsS!OperationStep
  <1>3. CASE /\ pcS' = "fail_notice"
             /\ reasonS' = [outcome |-> "runner_failed", why |-> "preflight"]
             /\ progressS' = Score!Untold
    <2>1. StepsS!SInv'
      BY <1>3, StepsS!LeaveKeeps DEF Score!Preflight, IInvS, StepsS!Busy,
         Score!OperationStep, StepsS!OperationStep, Score!Failure, StepsS!Failure
    <2>2. StepOKS'
      BY <1>1, <1>3 DEF Score!Preflight, StepOKS, StepsS!Busy, Score!Step,
         Score!OperationStep, StepsS!OperationStep
    <2>3. FilesOKS'
      BY <1>3 DEF Score!Preflight, IInvS, FilesOKS, Score!Untold, Score!Accepted,
         StepsS!Accepted
    <2>4. Score!TypeOK'
      BY <1>3, <2>1 DEF Score!Preflight, IInvS, Score!TypeOK, StepsS!SInv, Score!Step
    <2>5. QED BY <2>1, <2>2, <2>3, <2>4 DEF IInvS
  <1>4. QED BY <1>2, <1>3 DEF Score!Preflight

LEMMA ScorePerformOK == ASSUME IInvS, Score!Perform PROVE IInvS'
  <1> USE SizeAssumption, NoneAssumption, SameTypesS, SameTypesSNext, SameActionsS
      DEF SameNamesS, DoSameS
  <1>1. StepsS!SInv'
    BY StepsS!OperateKeeps DEF Score!Perform, IInvS
  <1>2. /\ pcS \in StepsS!OperationStep \ {"save", "fail"}
        /\ pcS' \in StepsS!OperationStep
        /\ UNCHANGED <<atS, budgetS, Score!saved>>
    BY DEF Score!Perform, Score!Operate, StepsS!Operate, Score!Pick, StepsS!Pick,
       Score!Return, StepsS!Return, Score!AskAgain, StepsS!AskAgain, Score!Judge,
       StepsS!Judge, Score!Accept, StepsS!Accept, Score!OperationStep,
       StepsS!OperationStep, Score!Fails, StepsS!Fails
  <1>3. \A i \in 1..N : StepsS!Accepted(i) => StepsS!Accepted(i)'
    BY StepsS!AcceptedStays DEF Score!Perform, IInvS, Score!Accepted, StepsS!Accepted
  <1>4. FilesOKS'
    BY <1>2, <1>3 DEF IInvS, FilesOKS, Score!TypeOK, Score!saved
  <1>5. StepOKS'
    BY <1>2 DEF IInvS, StepOKS, StepsS!Busy, Score!Step, Score!OperationStep,
       StepsS!OperationStep, Score!saved
  <1>6. Score!TypeOK'
    BY <1>1, <1>2 DEF IInvS, Score!TypeOK, StepsS!SInv, Score!Step, Score!saved
  <1>7. QED BY <1>1, <1>4, <1>5, <1>6 DEF IInvS

LEMMA ScoreReportsOK ==
    ASSUME IInvS, StepsS!SInv', StepOKS', UNCHANGED opS,
           pcS' \in {"idle"} \cup Score!Step \cup Score!Outcome,
           NEW outcome \in Score!Outcome \cup {"running"}, NEW done \in 0..N,
           1..done \subseteq groupsS, Score!Reports(outcome, done)
    PROVE  IInvS'
  <1> USE SizeAssumption, NoneAssumption, SameTypesS, SameTypesSNext, SameActionsS
      DEF SameNamesS, DoSameS
  <1>1. FilesOKS'
    BY DEF Score!Reports, IInvS, FilesOKS, Score!Accepted, StepsS!Accepted
  <1>2. Score!TypeOK'
    BY DEF Score!Reports, IInvS, Score!TypeOK, StepsS!SInv, Score!Progress
  <1>3. QED BY <1>1, <1>2 DEF IInvS

LEMMA ScorePauseOK == ASSUME IInvS, Score!Pause PROVE IInvS'
  <1> USE SizeAssumption, NoneAssumption, SameTypesS, SameTypesSNext, SameActionsS
      DEF SameNamesS, DoSameS
  <1>1. /\ pcS = "pick" /\ pcS' = "paused"
        /\ UNCHANGED <<opS, atS, budgetS, freshS, reasonS, groupsS, noticeS, outputsS,
           soundS>>
        /\ Score!Reports("paused", atS - 1)
    BY DEF Score!Pause, Score!Pauses, StepsS!Pauses, Score!Goto, StepsS!Goto,
       Score!Reports
  <1>2. atS - 1 \in 0..N /\ 1..(atS - 1) \subseteq groupsS
    BY <1>1, SizeAssumption DEF IInvS, StepsS!SInv, StepsS!PlaceOK, StepOKS, StepsS!Busy,
       Score!OperationStep, StepsS!OperationStep
  <1>3. StepsS!SInv'
    BY <1>1, StepsS!LeaveKeeps DEF IInvS, StepsS!SInv, Score!SequenceTypeOK,
       StepsS!SequenceTypeOK, StepsS!Busy, Score!OperationStep, StepsS!OperationStep
  <1>4. StepOKS'
    BY <1>1 DEF StepOKS, StepsS!Busy, Score!Step, Score!OperationStep,
       StepsS!OperationStep
  <1>5. QED BY <1>1, <1>2, <1>3, <1>4, ScoreReportsOK DEF Score!Outcome

LEMMA ScoreSaveGroupOK == ASSUME IInvS, Score!SaveGroup PROVE IInvS'
  <1> USE SizeAssumption, NoneAssumption, SameTypesS, SameTypesSNext, SameActionsS
      DEF SameNamesS, DoSameS
  <1>1. /\ pcS = "save" /\ pcS' = "running" /\ groupsS' = groupsS \cup {atS}
        /\ UNCHANGED <<opS, atS, budgetS, freshS, reasonS, progressS, noticeS, outputsS,
           soundS>>
    BY DEF Score!SaveGroup, Score!Goto, StepsS!Goto
  <1>2. StepsS!SInv'
    BY StepsS!SaveKeeps DEF Score!SaveGroup, IInvS
  <1>3. atS \in 1..N /\ StepsS!Accepted(atS) /\ ~ outputsS
    BY <1>1 DEF IInvS, StepsS!SInv, StepsS!PlaceOK, StepOKS, StepsS!Busy, Score!Step,
       Score!OperationStep, StepsS!OperationStep
  <1>4. FilesOKS'
    BY <1>1, <1>3 DEF IInvS, FilesOKS, Score!Accepted, StepsS!Accepted
  <1>5. StepOKS'
    BY <1>1, <1>3 DEF IInvS, StepOKS, StepsS!Busy, Score!Step, Score!OperationStep,
       StepsS!OperationStep
  <1>6. Score!TypeOK'
    BY <1>1, <1>2, <1>3 DEF IInvS, Score!TypeOK, StepsS!SInv, Score!Step
  <1>7. QED BY <1>2, <1>4, <1>5, <1>6 DEF IInvS

LEMMA ScoreSaveRunningOK == ASSUME IInvS, Score!SaveRunning PROVE IInvS'
  <1> USE SizeAssumption, NoneAssumption, SameTypesS, SameTypesSNext, SameActionsS
      DEF SameNamesS, DoSameS
  <1>1. /\ N \in Nat \ {0} /\ atS \in 1..N /\ pcS = "running" /\ ~ outputsS
        /\ 1..(atS - 1) \subseteq groupsS /\ atS \in groupsS
    BY SizeAssumption DEF Score!SaveRunning, IInvS, StepsS!SInv, StepsS!PlaceOK, StepOKS,
       StepsS!Busy, Score!Step, Score!OperationStep, StepsS!OperationStep
  <1>2. StepsS!SInv'
    BY StepsS!ProceedKeeps DEF Score!SaveRunning, IInvS, StepsS!Busy,
       Score!OperationStep, StepsS!OperationStep
  <1>3. 1..atS \subseteq groupsS
    BY <1>1
  <1>4. pcS' \in {"assemble", "pick"} /\ UNCHANGED <<opS, groupsS, outputsS, soundS>>
    BY DEF Score!SaveRunning, Score!ProceedTo, StepsS!ProceedTo, Score!Reports
  <1>5. StepOKS'
    <2>1. CASE atS = N
      <3>1. groupsS = 1..N
        BY <2>1, <1>3 DEF IInvS, Score!TypeOK
      <3>2. QED BY <2>1, <3>1, <1>1, <1>4 DEF Score!SaveRunning, Score!ProceedTo,
                   StepsS!ProceedTo, StepOKS, StepsS!Busy, Score!Step,
                   Score!OperationStep, StepsS!OperationStep
    <2>2. CASE atS # N
      <3>1. pcS' = "pick" /\ atS' = atS + 1
        BY <2>2 DEF Score!SaveRunning, Score!ProceedTo, StepsS!ProceedTo
      <3>2. 1..(atS' - 1) \subseteq groupsS
        BY <3>1, <1>1, <1>3
      <3>3. QED BY <3>1, <3>2, <1>1, <1>4 DEF StepOKS, StepsS!Busy, Score!Step,
                   Score!OperationStep, StepsS!OperationStep
    <2>3. QED BY <2>1, <2>2
  <1>6. QED
    BY <1>1, <1>2, <1>3, <1>4, <1>5, ScoreReportsOK
       DEF Score!SaveRunning, Score!Step, Score!OperationStep, StepsS!OperationStep

LEMMA ScorePublishOK == ASSUME IInvS, Score!Publish PROVE IInvS'
  <1> USE SizeAssumption, NoneAssumption, SameTypesS, SameTypesSNext, SameActionsS
      DEF SameNamesS, DoSameS
  <1>1. /\ pcS = "publish" /\ pcS' = "complete" /\ outputsS' = TRUE
        /\ UNCHANGED <<opS, atS, budgetS, freshS, reasonS, groupsS, progressS, noticeS,
           soundS>>
    BY DEF Score!Publish, Score!Goto, StepsS!Goto
  <1>2. StepsS!SInv'
    BY <1>1, StepsS!LeaveKeeps DEF IInvS, StepsS!SInv, Score!SequenceTypeOK,
       StepsS!SequenceTypeOK, StepsS!Busy, Score!OperationStep, StepsS!OperationStep
  <1>3. FilesOKS'
    BY <1>1 DEF IInvS, FilesOKS, StepOKS, Score!Accepted, StepsS!Accepted
  <1>4. StepOKS'
    BY <1>1 DEF StepOKS, StepsS!Busy, Score!Step, Score!OperationStep,
       StepsS!OperationStep
  <1>5. Score!TypeOK'
    BY <1>1, <1>2 DEF IInvS, Score!TypeOK, StepsS!SInv, Score!Outcome
  <1>6. QED BY <1>2, <1>3, <1>4, <1>5 DEF IInvS

LEMMA ScoreSaveFailStateOK == ASSUME IInvS, Score!SaveFailState PROVE IInvS'
  <1> USE SizeAssumption, NoneAssumption, SameTypesS, SameTypesSNext, SameActionsS
      DEF SameNamesS, DoSameS
  <1>1. /\ pcS' = "fail_notice" /\ ~ outputsS
        /\ UNCHANGED <<opS, atS, budgetS, freshS, reasonS, groupsS, noticeS, outputsS,
           soundS>>
    BY DEF Score!SaveFailState, Score!Reports, Score!Goto, StepsS!Goto, IInvS, StepOKS,
       Score!Step, Score!OperationStep, StepsS!OperationStep
  <1>2. StepsS!SInv'
    BY <1>1, StepsS!LeaveKeeps DEF IInvS, StepsS!SInv, Score!SequenceTypeOK,
       StepsS!SequenceTypeOK, StepsS!Busy, Score!OperationStep, StepsS!OperationStep
  <1>3. StepOKS'
    BY <1>1 DEF StepOKS, StepsS!Busy, Score!Step, Score!OperationStep,
       StepsS!OperationStep
  <1>4. CASE pcS = "fail" /\ Score!Reports(reasonS.outcome, atS - 1)
    <2>1. atS - 1 \in 0..N /\ 1..(atS - 1) \subseteq groupsS
      BY <1>4, SizeAssumption DEF IInvS, StepsS!SInv, StepsS!PlaceOK, StepOKS,
         StepsS!Busy, Score!OperationStep, StepsS!OperationStep
    <2>2. reasonS.outcome \in Score!Outcome
      BY <1>4 DEF IInvS, StepsS!SInv, StepsS!PlaceOK, Score!SequenceTypeOK,
         StepsS!SequenceTypeOK, Score!Failure, StepsS!Failure, Score!Outcome,
         Score!FailureOutcome, StepsS!FailureOutcome
    <2>3. QED BY <1>1, <1>2, <1>3, <1>4, <2>1, <2>2, ScoreReportsOK DEF Score!Step
  <1>5. CASE pcS = "invalid" /\ Score!Reports("persisted_state_invalid", N)
    <2>1. N \in 0..N /\ 1..N \subseteq groupsS
      BY <1>5, SizeAssumption DEF IInvS, StepOKS
    <2>2. QED BY <1>1, <1>2, <1>3, <1>5, <2>1, ScoreReportsOK
                 DEF Score!Step, Score!Outcome
  <1>6. QED BY <1>4, <1>5 DEF Score!SaveFailState

LEMMA ScoreSaveNoticeOK == ASSUME IInvS, Score!SaveNotice PROVE IInvS'
  <1> USE SizeAssumption, NoneAssumption, SameTypesS, SameTypesSNext, SameActionsS
      DEF SameNamesS, DoSameS
  <1>1. Score!Failed \in StepsS!FailureOutcome \cup {"persisted_state_invalid"}
    BY DEF Score!Failed, IInvS, StepsS!SInv, Score!SequenceTypeOK, StepsS!SequenceTypeOK,
       Score!Failure, StepsS!Failure, Score!FailureOutcome, StepsS!FailureOutcome
  <1>2. /\ pcS' = Score!Failed /\ noticeS' = Score!Failed
        /\ UNCHANGED <<opS, atS, budgetS, freshS, reasonS, groupsS, progressS, outputsS,
           soundS>>
    BY DEF Score!SaveNotice, Score!Goto, StepsS!Goto
  <1>3. StepsS!SInv'
    BY <1>1, <1>2, StepsS!LeaveKeeps DEF IInvS, StepsS!SInv, Score!SequenceTypeOK,
       StepsS!SequenceTypeOK, StepsS!Busy, Score!OperationStep, StepsS!OperationStep,
       Score!FailureOutcome, StepsS!FailureOutcome
  <1>4. StepOKS'
    BY <1>1, <1>2 DEF StepOKS, StepsS!Busy, Score!Step, Score!OperationStep,
       StepsS!OperationStep, Score!FailureOutcome, StepsS!FailureOutcome
  <1>5. FilesOKS'
    BY <1>2 DEF IInvS, FilesOKS, Score!Accepted, StepsS!Accepted
  <1>6. Score!TypeOK'
    BY <1>1, <1>2, <1>3 DEF IInvS, Score!TypeOK, StepsS!SInv, Score!Outcome
  <1>7. QED BY <1>3, <1>4, <1>5, <1>6 DEF IInvS

-----------------------------------------------------------------------------
LEMMA ScoreNextOK == IInvS /\ [Score!Next]_(Score!vars) => IInvS'
  <1> USE SizeAssumption, NoneAssumption, SameTypesS, SameTypesSNext, SameActionsS
      DEF SameNamesS, DoSameS
  <1>1. SUFFICES ASSUME IInvS, [Score!Next]_(Score!vars) PROVE IInvS'
    OBVIOUS
  <1>2. CASE Score!Start BY <1>1, <1>2, ScoreStartOK
  <1>3. CASE Score!Crash BY <1>1, <1>3, ScoreCrashOK
  <1>4. CASE Score!Gate BY <1>1, <1>4, ScoreGateOK
  <1>5. CASE Score!Open BY <1>1, <1>5, ScoreOpenOK
  <1>6. CASE Score!Preflight BY <1>1, <1>6, ScorePreflightOK
  <1>7. CASE Score!Perform BY <1>1, <1>7, ScorePerformOK
  <1>8. CASE Score!Pause BY <1>1, <1>8, ScorePauseOK
  <1>9. CASE Score!SaveGroup BY <1>1, <1>9, ScoreSaveGroupOK
  <1>10. CASE Score!SaveRunning BY <1>1, <1>10, ScoreSaveRunningOK
  <1>11. CASE Score!Assemble BY <1>1, <1>11, ScoreAssembleOK
  <1>12. CASE Score!Publish BY <1>1, <1>12, ScorePublishOK
  <1>13. CASE Score!SaveFailState BY <1>1, <1>13, ScoreSaveFailStateOK
  <1>14. CASE Score!SaveNotice BY <1>1, <1>14, ScoreSaveNoticeOK
  <1>15. CASE UNCHANGED Score!vars
    BY <1>1, <1>15 DEF Score!vars, Score!sequence, IInvS, Score!TypeOK, StepsS!SInv,
       Score!SequenceTypeOK, StepsS!SequenceTypeOK, Score!OperationsInOrder,
       StepsS!OperationsInOrder, StepsS!PlaceOK, Score!Accepted, StepsS!Accepted,
       FilesOKS, StepOKS
  <1>16. QED
    BY <1>1, <1>2, <1>3, <1>4, <1>5, <1>6, <1>7, <1>8, <1>9, <1>10, <1>11, <1>12,
       <1>13, <1>14, <1>15 DEF Score!Next, Score!Advance

LEMMA ScoreInvariant == Score!Spec => []IInvS
  BY ScoreInitOK, ScoreNextOK, PTL DEF Score!Spec

(* Every variable keeps its type, for any number of work groups.           *)
THEOREM ScoreTypeCorrect == Score!Spec => []Score!TypeOK
  <1> USE SizeAssumption, NoneAssumption, SameTypesS, SameTypesSNext, SameActionsS
      DEF SameNamesS, DoSameS
  <1>1. IInvS => Score!TypeOK
    BY DEF IInvS
  <1>2. QED BY <1>1, ScoreInvariant, PTL

(* The directory that one rename publishes always stands for a whole score,*)
(* whatever was stopped while it was made.                                 *)
THEOREM ScoreOutputsWhole == Score!Spec => []Score!OutputsAreWhole
  <1> USE SizeAssumption, NoneAssumption, SameTypesS, SameTypesSNext, SameActionsS
      DEF SameNamesS, DoSameS
  <1>1. IInvS => Score!OutputsAreWhole
    BY DEF IInvS, FilesOKS, Score!OutputsAreWhole, Score!TypeOK
  <1>2. QED BY <1>1, ScoreInvariant, PTL

(* Saved progress never claims a group that is not saved and accepted.     *)
THEOREM ScoreProgressBacked == Score!Spec => []Score!ProgressIsBacked
  <1> USE SizeAssumption, NoneAssumption, SameTypesS, SameTypesSNext, SameActionsS
      DEF SameNamesS, DoSameS
  <1>1. IInvS => Score!ProgressIsBacked
    BY DEF IInvS, FilesOKS, Score!ProgressIsBacked, Score!Accepted, StepsS!Accepted
  <1>2. QED BY <1>1, ScoreInvariant, PTL

(* A group is only asked for when all it builds on are accepted.           *)
THEOREM ScoreInOrder == Score!Spec => []Score!OperationsInOrder
  <1> USE SizeAssumption, NoneAssumption, SameTypesS, SameTypesSNext, SameActionsS
      DEF SameNamesS, DoSameS
  <1>1. IInvS => Score!OperationsInOrder
    BY DEF IInvS, StepsS!SInv
  <1>2. QED BY <1>1, ScoreInvariant, PTL

(* Nothing that was published or accepted is changed by a later step.      *)
THEOREM ScoreFinal == Score!Spec => Score!PublishedIsFinal
  <1> USE SizeAssumption, NoneAssumption, SameTypesS, SameTypesSNext, SameActionsS
      DEF SameNamesS, DoSameS
  <1>1. ASSUME IInvS, [Score!Next]_(Score!vars)
        PROVE  [/\ outputsS => outputsS' /\ opS' = opS /\ progressS' = progressS
                /\ groupsS \subseteq groupsS'
                /\ \A i \in 1..N : Score!Accepted(i) => opS'[i] = opS[i]]_(Score!vars)
    <2>1. outputsS => pcS \notin Score!Step \ {"gate", "open"}
      BY <1>1 DEF IInvS, StepOKS
    <2>2. CASE Score!Perform
      <3>1. pcS \in Score!Step \ {"gate", "open"} /\ UNCHANGED Score!saved
        BY <2>2 DEF Score!Perform, Score!Operate, StepsS!Operate, Score!Pick,
           StepsS!Pick, Score!Return, StepsS!Return, Score!AskAgain, StepsS!AskAgain,
           Score!Judge, StepsS!Judge, Score!Accept, StepsS!Accept, Score!Step,
           Score!OperationStep, StepsS!OperationStep
      <3>2. \A i \in 1..N : Score!Accepted(i) => opS'[i] = opS[i]
        BY <1>1, <2>2, StepsS!AcceptedStays DEF Score!Perform, IInvS, Score!Accepted,
           StepsS!Accepted
      <3>3. QED BY <2>1, <3>1, <3>2 DEF Score!saved
    <2>3. CASE Score!Start \/ Score!Crash \/ Score!Gate \/ Score!Open \/ Score!Assemble
      BY <2>3 DEF Score!Start, Score!Begin, StepsS!Begin, Score!Crash, Score!Stop,
         StepsS!Stop, Score!Gate, Score!Open, Score!Assemble, Score!Goto, StepsS!Goto,
         Score!saved
    <2>4. CASE \/ Score!Preflight \/ Score!Pause \/ Score!SaveGroup \/ Score!SaveRunning \/ Score!Publish
               \/ Score!SaveFailState \/ Score!SaveNotice
      <3>1. pcS \in Score!Step \ {"gate", "open"}
        BY <2>4 DEF Score!Preflight, Score!Pause, Score!Pauses, StepsS!Pauses,
           Score!SaveGroup, Score!SaveRunning, Score!Publish, Score!SaveFailState,
           Score!SaveNotice, Score!Step, Score!OperationStep, StepsS!OperationStep
      <3>2. UNCHANGED opS /\ groupsS \subseteq groupsS'
        BY <2>4 DEF Score!Preflight, Score!Pause, Score!SaveGroup, Score!SaveRunning,
           Score!Publish, Score!SaveFailState, Score!SaveNotice, Score!Reports,
           Score!Goto, StepsS!Goto, Score!ProceedTo, StepsS!ProceedTo
      <3>3. QED BY <2>1, <3>1, <3>2
    <2>5. CASE UNCHANGED Score!vars
      BY <2>5
    <2>6. QED BY <1>1, <2>2, <2>3, <2>4, <2>5 DEF Score!Next, Score!Advance
  <1>2. QED BY <1>1, ScoreInvariant, PTL DEF Score!Spec, Score!PublishedIsFinal

(* The model is never asked while an earlier call failed or has no known   *)
(* end.                                                                    *)
THEOREM ScoreNoCallAfterFailure == Score!Spec => Score!NoCallAfterFailedCall
  <1> USE SizeAssumption, NoneAssumption, SameTypesS, SameTypesSNext, SameActionsS
      DEF SameNamesS, DoSameS
  <1>1. ASSUME IInvS, [Score!Next]_(Score!vars)
        PROVE  [(\E i \in 1..N : opS'[i].calls > opS[i].calls) =>
                  \A i \in 1..N : opS[i].last \notin {"open", "failed",
                     "lost"}]_(Score!sequence)
    <2>1. CASE Score!Perform
      BY <1>1, <2>1, StepsS!CallsAreAllowed DEF Score!Perform, IInvS
    <2>2. CASE opS' = opS
      BY <1>1, <2>2 DEF IInvS, Score!TypeOK, Score!SequenceTypeOK, StepsS!SequenceTypeOK,
         Score!Stage, StepsS!Stage
    <2>3. Score!Perform \/ opS' = opS
      BY <1>1 DEF Score!Next, Score!Advance, Score!Start, Score!Begin, StepsS!Begin,
         Score!Crash, Score!Stop, StepsS!Stop, Score!Gate, Score!Open, Score!Assemble,
         Score!Preflight, Score!Pause, Score!SaveGroup, Score!SaveRunning, Score!Publish,
         Score!SaveFailState, Score!SaveNotice, Score!Reports, Score!Goto, StepsS!Goto,
         Score!ProceedTo, StepsS!ProceedTo, Score!vars, Score!sequence
    <2>4. QED BY <2>1, <2>2, <2>3
  <1>2. QED BY <1>1, ScoreInvariant, PTL DEF Score!Spec, Score!NoCallAfterFailedCall,
               StepsS!NoCallAfterFailedCall

-----------------------------------------------------------------------------
(* ScoreRun implements RecordedPhase: the outputs are the good ending, and *)
(* there is no bad one.                                                    *)

CompletionIsSavedS == pcS = "complete" => outputsS

TInvS == Score!TypeOK /\ CompletionIsSavedS

LEMMA ScoreOutputsStay ==
    ASSUME [Score!Next]_(Score!vars) PROVE outputsS => outputsS'
  BY SizeAssumption, NoneAssumption, SameTypesS, SameTypesSNext, SameActionsS
     DEF SameNamesS, DoSameS, Score!Next, Score!Advance, Score!Start, Score!Crash,
         Score!Gate, Score!Open, Score!Preflight, Score!Perform, Score!Pause,
         Score!SaveGroup, Score!SaveRunning, Score!Assemble, Score!Publish,
         Score!SaveFailState, Score!SaveNotice, Score!Reports, Score!saved, Score!vars

(* Only outputs that were found or have just been published are reported.  *)
LEMMA ScoreCompletionSaved == Score!Spec => []TInvS
  <1> USE SizeAssumption, NoneAssumption, SameTypesS, SameTypesSNext, SameActionsS
      DEF SameNamesS, DoSameS
  <1>1. Score!Init => CompletionIsSavedS
    BY DEF Score!Init, Score!SequenceInit, StepsS!SequenceInit, CompletionIsSavedS
  <1>2. ASSUME IInvS, IInvS', CompletionIsSavedS, [Score!Next]_(Score!vars)
        PROVE  CompletionIsSavedS'
    <2>1. pcS' = "complete" => Score!Open \/ Score!Publish \/ pcS = "complete"
      <3>1. CASE Score!Perform
        BY <3>1 DEF Score!Perform, Score!Operate, StepsS!Operate, Score!Pick,
           StepsS!Pick, Score!Return, StepsS!Return, Score!AskAgain, StepsS!AskAgain,
           Score!Judge, StepsS!Judge, Score!Accept, StepsS!Accept, Score!Fails,
           StepsS!Fails
      <3>2. CASE \/ Score!Start \/ Score!Crash \/ Score!Gate \/ Score!Preflight \/ Score!Pause \/ Score!SaveGroup
                 \/ Score!SaveRunning \/ Score!Assemble
        BY <3>2 DEF Score!Start, Score!Begin, StepsS!Begin, Score!Crash, Score!Stop,
           StepsS!Stop, Score!Gate, Score!Preflight, Score!Pause, Score!SaveGroup,
           Score!SaveRunning, Score!Assemble, Score!Goto, StepsS!Goto, Score!ProceedTo,
           StepsS!ProceedTo
      <3>3. CASE Score!SaveFailState
        BY <1>2, <3>3 DEF Score!SaveFailState, Score!Goto, StepsS!Goto
      <3>4. CASE Score!SaveNotice
        <4>1. reasonS # None => reasonS.outcome # "complete"
          BY <1>2 DEF IInvS, StepsS!SInv, Score!SequenceTypeOK, StepsS!SequenceTypeOK,
             Score!Failure, StepsS!Failure
        <4>2. QED BY <3>4, <4>1 DEF Score!SaveNotice, Score!Failed, Score!Goto,
                     StepsS!Goto
      <3>5. CASE UNCHANGED Score!vars
        BY <3>5 DEF Score!vars, Score!sequence
      <3>6. QED BY <1>2, <3>1, <3>2, <3>3, <3>4, <3>5 DEF Score!Next, Score!Advance
    <2>2. Score!Open /\ pcS' = "complete" => outputsS
      BY DEF Score!Open, Score!Goto, StepsS!Goto
    <2>3. Score!Publish => outputsS'
      BY DEF Score!Publish
    <2>4. QED BY <1>2, <2>1, <2>2, <2>3, ScoreOutputsStay DEF CompletionIsSavedS
  <1>3. IInvS => Score!TypeOK
    BY DEF IInvS
  <1>4. QED BY <1>1, <1>2, <1>3, ScoreInvariant, PTL DEF Score!Spec, TInvS

(* An end that is told is the one that is saved.                           *)
TellsOKS ==
    /\ pcS \in Score!Step <=> Score!Tells = "busy"
    /\ pcS = "idle" => Score!Tells = "silent"
    /\ pcS \in Score!Outcome =>
          Score!Tells \in {"open"} \cup ({Score!Ended} \cap Score!Recorded!Ending)

LEMMA ScoreTellsWhatEnded == TInvS => TellsOKS
  <1>. SUFFICES ASSUME TInvS PROVE TellsOKS
    OBVIOUS
  <1>1. pcS \in {"idle"} \cup Score!Step \cup Score!Outcome
    BY DEF TInvS, Score!TypeOK
  <1>2. CASE pcS = "complete"
    <2>1. Score!Tells = "complete" /\ Score!Ended = "complete"
      BY <1>2 DEF Score!Tells, Score!Step, Score!OperationStep, Score!Ended, TInvS,
         CompletionIsSavedS
    <2>2. QED BY <1>2, <2>1 DEF TellsOKS, Score!Recorded!Ending, Score!Step,
                 Score!OperationStep
  <1>3. CASE pcS # "complete"
    BY <1>1, <1>3 DEF TellsOKS, Score!Tells, Score!Step, Score!OperationStep,
       Score!Outcome, Score!FailureOutcome
  <1>4. QED BY <1>2, <1>3

LEMMA ScoreTellsNext == TInvS' => TellsOKS'
  BY ScoreTellsWhatEnded, PTL

(* The score run ends for good at most once, and an invocation that        *)
(* reports the end finds it saved, for any number of groups.               *)
THEOREM ScorePromiseKept == Score!Spec => Score!KeepsPhasePromise
  <1> USE SizeAssumption, NoneAssumption, SameTypesS, SameTypesSNext, SameActionsS
      DEF SameNamesS, DoSameS
  <1>1. Score!Init => Score!Recorded!Init
    <2>1. ASSUME Score!Init PROVE Score!Ended = None /\ Score!Tells = "silent"
      <3>1. IInvS /\ ~ outputsS /\ pcS = "idle"
        BY <2>1, ScoreInitOK DEF Score!Init, Score!SequenceInit, StepsS!SequenceInit
      <3>2. TInvS
        BY <3>1 DEF IInvS, TInvS, CompletionIsSavedS
      <3>3. QED BY <3>1, <3>2, ScoreTellsWhatEnded DEF TellsOKS, Score!Ended
    <2>2. QED BY <2>1 DEF Score!Recorded!Init
  <1>2. ASSUME TInvS, TInvS', [Score!Next]_(Score!vars)
        PROVE  [Score!Recorded!Next]_(Score!Recorded!vars)
    <2>1. CASE Score!Start
      <3>1. /\ pcS \in {"idle"} \cup Score!Outcome
            /\ pcS' = "gate" /\ outputsS' = outputsS
        BY <2>1 DEF Score!Start, Score!Begin, StepsS!Begin, Score!saved
      <3>2. Score!Tells # "busy"
        BY <1>2, <3>1, ScoreTellsWhatEnded DEF TellsOKS, Score!Step, Score!OperationStep,
           StepsS!OperationStep, Score!Outcome, Score!FailureOutcome,
           StepsS!FailureOutcome
      <3>3. Score!Tells' = "busy"
        BY <1>2, <3>1, ScoreTellsNext DEF TellsOKS, Score!Step
      <3>4. Score!Ended' = Score!Ended
        BY <3>1 DEF Score!Ended
      <3>5. QED BY <3>2, <3>3, <3>4 DEF Score!Recorded!Next, Score!Recorded!Begin
    <2>2. CASE Score!Crash \/ Score!Advance
      <3>1. pcS \in Score!Step
        BY <2>2 DEF Score!Crash, Score!Advance, Score!Gate, Score!Open, Score!Preflight,
           Score!Perform, Score!Operate, StepsS!Operate, Score!Pick, StepsS!Pick,
           Score!Return, StepsS!Return, Score!AskAgain, StepsS!AskAgain, Score!Judge,
           StepsS!Judge, Score!Accept, StepsS!Accept, Score!Pause, Score!Pauses,
           StepsS!Pauses, Score!SaveGroup, Score!SaveRunning, Score!Assemble,
           Score!Publish, Score!SaveFailState, Score!SaveNotice, Score!Step,
           Score!OperationStep, StepsS!OperationStep
      <3>2. Score!Tells = "busy"
        BY <1>2, <3>1, ScoreTellsWhatEnded DEF TellsOKS
      <3>3. Score!Ended' \in (IF Score!Ended = None THEN Score!Recorded!Ending \cup {None}
                             ELSE {Score!Ended})
        BY <1>2, ScoreOutputsStay DEF Score!Ended, Score!Recorded!Ending
      <3>4. Score!Tells' \in {"busy", "silent", "open"}
                            \cup ({Score!Ended'} \cap Score!Recorded!Ending)
        <4>1. pcS' \in {"idle"} \cup Score!Step \cup Score!Outcome
          BY <1>2 DEF TInvS, Score!TypeOK
        <4>2. QED BY <1>2, <4>1, ScoreTellsNext DEF TellsOKS, Score!Recorded!Ending
      <3>5. QED BY <3>2, <3>3, <3>4 DEF Score!Recorded!Next, Score!Recorded!Work,
                   Score!Recorded!Ending
    <2>3. CASE UNCHANGED Score!vars
      <3>1. pcS' = pcS /\ outputsS' = outputsS
        BY <2>3 DEF Score!vars, Score!sequence, Score!saved
      <3>2. QED BY <3>1 DEF Score!Ended, Score!Tells, Score!Recorded!vars
    <2>4. QED BY <1>2, <2>1, <2>2, <2>3 DEF Score!Next
  <1>3. QED
    BY <1>1, <1>2, ScoreCompletionSaved, PTL DEF Score!Spec, Score!KeepsPhasePromise,
       Score!Recorded!Spec

LEMMA ScoreMoves ==
    ASSUME [RunCompilation \/ RunPhase3 \/ RunScore \/ RunLayer]_phases
    PROVE  [Score!Next]_(Score!vars)
  BY DEF RunCompilation, RunPhase3, RunScore, RunLayer, phases, score, Score!vars,
     Score!sequence

LEMMA ScoreRuns == PhasesSpec => Score!Spec
  <1>1. PhasesInit => Score!Init
    BY DEF PhasesInit
  <1>2. [RunCompilation \/ RunPhase3 \/ RunScore \/ RunLayer]_phases =>
          [Score!Next]_(Score!vars)
    BY ScoreMoves
  <1>3. QED BY <1>1, <1>2, PTL DEF PhasesSpec, Score!Spec

(* Outputs stand for a whole score, and groups and progress for accepted   *)
(* operations, whichever invocation wrote them last (realize_score).       *)
THEOREM ScoreBacked == PhasesSpec => []ScoreIsBacked
  BY ScoreRuns, ScoreTypeCorrect, ScoreOutputsWhole, ScoreProgressBacked, PTL
     DEF ScoreIsBacked

-----------------------------------------------------------------------------
(* The compilation beside the others.                                      *)
Steps2 == INSTANCE OperationSequenceProofs WITH
    op <- op2, pc <- pc2, at <- at2, budget <- budget2, fresh <- fresh2,
    reason <- reason2

AllAccepted2 == \A i \in 1..N : Steps2!Accepted(i)

Failed2 == summary2 # None /\ summary2.failure # None

(* What the steps of the compilation know of its files.                    *)
StepOK2 ==
    /\ pc2 \in Compilation!Step => ~ bundle2
    /\ pc2 \in {"request", "preflight", "folder", "spec"} => at2 = 1 /\ fresh2 = 0
    /\ pc2 \in Steps2!Busy /\ at2 > 1 => "indexed" \in outputs2
    /\ pc2 = "fail" => Steps2!IsDead(op2[at2])
    /\ pc2 = "fail_record" => Failed2 /\ summary2.failure = reason2
    /\ pc2 \in {"ledger", "script", "publish", "record", "bundle"} =>
          "indexed" \in outputs2 /\ AllAccepted2
    /\ pc2 \in {"script", "publish", "record", "bundle"} => "ledger" \in outputs2
    /\ pc2 \in {"publish", "record", "bundle"} => "script" \in outputs2
    /\ pc2 \in {"record", "bundle"} => Compilation!IsComplete
    /\ pc2 = "bundle" => step2 = "completed"
    /\ pc2 = "complete" => bundle2

(* What the summary says stays true: a success of the accepted responses,  *)
(* a failure of a dead operation, which no invocation passes.              *)
SummaryOK2 ==
    /\ Compilation!IsComplete => summary2.calls = Steps2!Calls /\ AllAccepted2
    /\ Failed2 => (\E d \in 1..N : Steps2!FirstDead(d)) /\ pc2 \notin {"call", "judge", "accept"}
    /\ step2 = "completed" => Compilation!IsComplete
    /\ step2 = "failed" => Failed2

CInv ==
    /\ Compilation!TypeOK
    /\ Steps2!SInv
    /\ StepOK2
    /\ SummaryOK2
    /\ Compilation!BundleIsWhole
    /\ Compilation!ConflictMeansDead

(* The actions of OperationSequence under either name.                     *)
LEMMA SameOperate2 == Compilation!Operate <=> Steps2!Operate
  BY DEF Compilation!Operate, Steps2!Operate, Compilation!Pick, Steps2!Pick,
     Compilation!Return, Steps2!Return, Compilation!AskAgain, Steps2!AskAgain,
     Compilation!Judge, Steps2!Judge, Compilation!Accept, Steps2!Accept,
     Compilation!Pauses, Steps2!Pauses, Compilation!Accepted, Steps2!Accepted,
     Compilation!Fails, Steps2!Fails, Compilation!IsDead, Steps2!IsDead,
     Compilation!MayAsk, Steps2!MayAsk, Compilation!AfterAsk, Steps2!AfterAsk,
     Compilation!AfterCall, Steps2!AfterCall, Compilation!AfterVerdict,
     Steps2!AfterVerdict, Compilation!AfterAccept, Steps2!AfterAccept,
     Compilation!SavedFailure, Steps2!SavedFailure, Compilation!LiveFailure,
     Steps2!LiveFailure

SameNames2 ==
    /\ Compilation!SequenceTypeOK <=> Steps2!SequenceTypeOK
    /\ Compilation!OperationStep = Steps2!OperationStep
    /\ Compilation!Calls = Steps2!Calls
    /\ Compilation!Failure = Failure /\ Steps2!Failure = Failure
    /\ \A i \in 1..N : Compilation!Accepted(i) <=> Steps2!Accepted(i)
    /\ \A i \in 1..N : Compilation!IsDead(op2[i]) <=> Steps2!IsDead(op2[i])

LEMMA SameTypes2 == SameNames2
  BY DEF SameNames2, Compilation!SequenceTypeOK, Steps2!SequenceTypeOK, Compilation!Stage, Steps2!Stage,
     Compilation!Last, Steps2!Last, Compilation!Failure, Steps2!Failure, Failure,
     Compilation!OperationStep, Steps2!OperationStep, Compilation!Calls, Steps2!Calls,
     Compilation!Accepted, Steps2!Accepted, Compilation!IsDead, Steps2!IsDead

LEMMA SameTypes2Next == SameNames2'
  BY SameTypes2, PTL

LEMMA Absent2 == None \notin Compilation!Summary \cup {"completed", "failed"}
  BY AbsentAssumption DEF Compilation!Summary, Summary, Compilation!Failure, Failure

LEMMA CInitOK == Compilation!Init => CInv
  <1>1. SUFFICES ASSUME Compilation!Init PROVE CInv
    OBVIOUS
  <1>2. Steps2!SequenceInit
    BY <1>1 DEF Compilation!Init, Compilation!SequenceInit, Steps2!SequenceInit,
       Compilation!Untouched, Steps2!Untouched
  <1>3. None \notin Steps2!Failure
    BY NoneAssumption, SameTypes2 DEF SameNames2
  <1>4. Steps2!SInv
    BY <1>2, <1>3, SizeAssumption, Steps2!InitKeeps
  <1>5. pc2 = "idle" /\ summary2 = None /\ step2 = None /\ outputs2 = {} /\ bundle2 = FALSE
        /\ folder2 = None
    BY <1>1 DEF Compilation!Init, Compilation!SequenceInit
  <1>6. Compilation!TypeOK
    BY <1>4, <1>5, SameTypes2 DEF SameNames2, Compilation!TypeOK, Steps2!SInv
  <1>7. StepOK2 /\ Compilation!BundleIsWhole /\ Compilation!ConflictMeansDead
    BY <1>5 DEF StepOK2, Steps2!Busy, Steps2!OperationStep, Compilation!BundleIsWhole,
       Compilation!ConflictMeansDead, Compilation!Step, Compilation!OperationStep
  <1>8. SummaryOK2
    BY <1>5, Absent2 DEF SummaryOK2, Failed2, Compilation!IsComplete
  <1>9. QED BY <1>4, <1>6, <1>7, <1>8 DEF CInv

(* A step that leaves the operations, the summary, the step record and the *)
(* bundle as they are.                                                     *)
LEMMA QuietStep2 ==
    ASSUME CInv, Steps2!SInv', StepOK2', UNCHANGED <<op2, summary2, step2, bundle2>>,
           outputs2 \subseteq outputs2', outputs2' \subseteq Compilation!Output,
           folder2' \in {None, "bare", "ready"},
           pc2' \in {"idle"} \cup Compilation!Step \cup Compilation!Outcome,
           pc2' \notin {"call", "judge", "accept", "conflict", "unbundled"}
    PROVE  CInv'
  <1>1. Compilation!TypeOK'
    BY SameTypes2Next DEF CInv, Compilation!TypeOK, SameNames2, Steps2!SInv
  <1>2. SummaryOK2'
    BY DEF CInv, SummaryOK2, Failed2, AllAccepted2, Steps2!FirstDead, Steps2!Accepted,
       Steps2!Calls, Compilation!IsComplete
  <1>3. Compilation!BundleIsWhole' /\ Compilation!ConflictMeansDead'
    BY DEF CInv, Compilation!BundleIsWhole, Compilation!ConflictMeansDead,
       Compilation!IsComplete, Compilation!Calls, Compilation!Accepted
  <1>4. QED BY <1>1, <1>2, <1>3 DEF CInv

(* The steps of an invocation before its operations and at its end.        *)
LEMMA CompilationStarts ==
    ASSUME CInv, Compilation!Start \/ Compilation!Reuse \/ Compilation!Crash
    PROVE  CInv'
  <1>1. CASE Compilation!Start
    <2>1. Steps2!Begin("request") /\ pc2' = "request" /\ at2' = 1 /\ fresh2' = 0
          /\ UNCHANGED <<op2, folder2, outputs2, summary2, step2, bundle2>> /\ ~ bundle2
      BY <1>1 DEF Compilation!Start, Compilation!Begin, Steps2!Begin, Compilation!saved
    <2>2. Steps2!SInv'
      BY <2>1, Steps2!BeginKeeps, SizeAssumption, NoneAssumption, SameTypes2
         DEF CInv, SameNames2, Steps2!Busy, Steps2!OperationStep
    <2>3. StepOK2'
      BY <2>1 DEF StepOK2, Steps2!Busy, Steps2!OperationStep
    <2>4. QED BY <2>1, <2>2, <2>3, QuietStep2 DEF CInv, Compilation!TypeOK, Compilation!Step
  <1>2. CASE Compilation!Reuse
    <2>1. pc2' = "complete"
          /\ UNCHANGED <<op2, at2, budget2, fresh2, reason2>>
          /\ UNCHANGED <<folder2, outputs2, summary2, step2, bundle2>> /\ bundle2
      BY <1>2 DEF Compilation!Reuse, Compilation!Goto, Compilation!saved
    <2>2. Steps2!SInv'
      BY <2>1, Steps2!LeaveKeeps, SizeAssumption, NoneAssumption, SameTypes2
         DEF CInv, SameNames2, Steps2!SInv, Steps2!SequenceTypeOK, Steps2!Busy,
             Steps2!OperationStep
    <2>3. StepOK2'
      BY <2>1 DEF StepOK2, Steps2!Busy, Steps2!OperationStep, Compilation!Step,
         Compilation!OperationStep
    <2>4. QED BY <2>1, <2>2, <2>3, QuietStep2 DEF CInv, Compilation!TypeOK, Compilation!Outcome
  <1>3. CASE Compilation!Crash
    <2>1. Steps2!Stop /\ pc2' = "idle"
          /\ UNCHANGED <<op2, folder2, outputs2, summary2, step2, bundle2>>
      BY <1>3 DEF Compilation!Crash, Compilation!Stop, Steps2!Stop, Compilation!saved
    <2>2. Steps2!SInv'
      BY <2>1, Steps2!StopKeeps, SizeAssumption, NoneAssumption, SameTypes2
         DEF CInv, SameNames2
    <2>3. StepOK2'
      BY <2>1 DEF StepOK2, Steps2!Busy, Steps2!OperationStep, Compilation!Step,
         Compilation!OperationStep
    <2>4. QED BY <2>1, <2>2, <2>3, QuietStep2 DEF CInv, Compilation!TypeOK
  <1>4. QED BY <1>1, <1>2, <1>3

LEMMA CompilationPrepares ==
    ASSUME CInv, \/ Compilation!CheckRequest \/ Compilation!Preflight
                 \/ Compilation!MakeFolder
    PROVE  CInv'
  <1>1. /\ pc2 \in {"request", "preflight", "folder"}
        /\ pc2' \in {"request_invalid", "preflight", "folder", "runner_failed", "spec"}
        /\ folder2' \in {None, "bare", "ready"}
        /\ UNCHANGED <<op2, at2, budget2, fresh2, reason2>>
        /\ UNCHANGED <<outputs2, summary2, step2, bundle2>>
    BY DEF Compilation!CheckRequest, Compilation!Preflight, Compilation!MakeFolder,
       Compilation!Goto, Compilation!saved, Compilation!Written, CInv, Compilation!TypeOK
  <1>2. at2 = 1 /\ fresh2 = 0 /\ ~ bundle2
    BY <1>1 DEF CInv, StepOK2, Compilation!Step
  <1>3. Steps2!SInv'
    BY <1>1, Steps2!LeaveKeeps, SizeAssumption, NoneAssumption, SameTypes2
       DEF CInv, SameNames2, Steps2!SInv, Steps2!SequenceTypeOK, Steps2!Busy,
           Steps2!OperationStep
  <1>4. StepOK2'
    BY <1>1, <1>2 DEF StepOK2, Steps2!Busy, Steps2!OperationStep
  <1>5. QED BY <1>1, <1>3, <1>4, QuietStep2 DEF CInv, Compilation!TypeOK, Compilation!Step,
            Compilation!Outcome, Compilation!FailureOutcome

LEMMA CompilationEnters == ASSUME CInv, Compilation!SaveSpec PROVE CInv'
  <1>1. /\ pc2 = "spec" /\ pc2' = "pick" /\ folder2' = "ready"
        /\ UNCHANGED <<op2, at2, budget2, fresh2, reason2>>
        /\ UNCHANGED <<outputs2, summary2, step2, bundle2>>
    BY DEF Compilation!SaveSpec, Compilation!Goto
  <1>2. at2 = 1 /\ fresh2 = 0 /\ ~ bundle2
    BY <1>1 DEF CInv, StepOK2, Compilation!Step
  <1>3. Steps2!SInv'
    BY <1>1, <1>2, Steps2!EnterKeeps, SizeAssumption, NoneAssumption, SameTypes2
       DEF CInv, SameNames2
  <1>4. StepOK2'
    BY <1>1, <1>2 DEF StepOK2
  <1>5. QED BY <1>1, <1>3, <1>4, QuietStep2 DEF CInv, Compilation!TypeOK, Compilation!Step,
            Compilation!OperationStep

LEMMA CompilationPauses == ASSUME CInv, Compilation!Pause PROVE CInv'
  <1>1. /\ pc2' = "paused"
        /\ UNCHANGED <<op2, at2, budget2, fresh2, reason2>>
        /\ UNCHANGED <<folder2, outputs2, summary2, step2, bundle2>>
    BY DEF Compilation!Pause, Compilation!Goto, Compilation!saved
  <1>2. Steps2!SInv'
    BY <1>1, Steps2!LeaveKeeps, SizeAssumption, NoneAssumption, SameTypes2
       DEF CInv, SameNames2, Steps2!SInv, Steps2!SequenceTypeOK, Steps2!Busy,
           Steps2!OperationStep
  <1>3. StepOK2'
    BY <1>1 DEF StepOK2, Steps2!Busy, Steps2!OperationStep, Compilation!Step,
       Compilation!OperationStep
  <1>4. QED BY <1>1, <1>2, <1>3, QuietStep2 DEF CInv, Compilation!TypeOK, Compilation!Outcome

(* An operation moves only while no failure is published.                  *)
LEMMA CompilationPerforms == ASSUME CInv, Compilation!Perform PROVE CInv'
  <1> USE SizeAssumption, NoneAssumption, SameTypes2 DEF SameNames2
  <1>1. Steps2!Operate /\ Steps2!SInv
        /\ UNCHANGED <<folder2, outputs2, summary2, step2, bundle2>>
    BY SameOperate2 DEF Compilation!Perform, Compilation!saved, CInv
  <1>2. Steps2!SInv'
    BY <1>1, Steps2!OperateKeeps
  <1>3. /\ pc2 \in {"pick", "call", "judge", "accept"}
        /\ pc2' \in {"call", "judge", "accept", "save", "fail"}
        /\ at2' = at2
        /\ pc2' = "fail" => Steps2!IsDead(op2'[at2])
    BY <1>1, Steps2!OperateGoes
  <1>4. \A i \in 1..N : Steps2!Accepted(i) => op2'[i] = op2[i]
    BY <1>1, Steps2!AcceptedStays
  <1>5. ~ bundle2 /\ (at2 > 1 => "indexed" \in outputs2)
    BY <1>3 DEF CInv, StepOK2, Compilation!Step, Compilation!OperationStep, Steps2!Busy,
       Steps2!OperationStep
  <1>6. StepOK2'
    BY <1>1, <1>3, <1>5 DEF StepOK2
  <1>7. Failed2 => op2' = op2 /\ pc2' \in {"save", "fail"}
    <2>1. SUFFICES ASSUME Failed2 PROVE op2' = op2 /\ pc2' \in {"save", "fail"}
      OBVIOUS
    <2>2. PICK d \in 1..N : Steps2!FirstDead(d)
      BY <2>1 DEF CInv, SummaryOK2
    <2>3. pc2 = "pick"
      BY <1>3, <2>1 DEF CInv, SummaryOK2
    <2>4. QED BY <1>1, <2>2, <2>3, Steps2!DeadIsNotPassed
  <1>8. Compilation!IsComplete => AllAccepted2' /\ Steps2!Calls' = Steps2!Calls
    BY <1>4 DEF CInv, SummaryOK2, AllAccepted2, Steps2!Accepted, Steps2!Calls
  <1>9. SummaryOK2'
    BY <1>1, <1>3, <1>7, <1>8 DEF CInv, SummaryOK2, Failed2, Compilation!IsComplete,
       Steps2!FirstDead, Steps2!Accepted
  <1>10. Compilation!TypeOK'
    BY <1>1, <1>2, <1>3, SameTypes2Next DEF CInv, Compilation!TypeOK, Steps2!SInv,
       Compilation!Step, Compilation!OperationStep
  <1>11. Compilation!BundleIsWhole' /\ Compilation!ConflictMeansDead'
    BY <1>1, <1>3, <1>5 DEF Compilation!BundleIsWhole, Compilation!ConflictMeansDead
  <1>12. QED BY <1>2, <1>6, <1>9, <1>10, <1>11 DEF CInv

LEMMA CompilationSaves == ASSUME CInv, Compilation!SaveIndexed PROVE CInv'
  <1> USE SizeAssumption, NoneAssumption, SameTypes2 DEF SameNames2
  <1>1. /\ pc2 = "save" /\ Steps2!ProceedTo("ledger")
        /\ outputs2' = IF at2 = 1 THEN outputs2 \cup {"indexed"} ELSE outputs2
        /\ UNCHANGED <<op2, folder2, summary2, step2, bundle2>>
    BY DEF Compilation!SaveIndexed, Compilation!ProceedTo, Steps2!ProceedTo
  <1>2. Steps2!SInv'
    BY <1>1, Steps2!ProceedKeeps DEF CInv, Steps2!Busy, Steps2!OperationStep
  <1>3. /\ at2 \in 1..N /\ Steps2!Accepted(at2)
        /\ \A i \in 1..(at2 - 1) : Steps2!Accepted(i)
        /\ ~ bundle2 /\ "indexed" \in outputs2'
    <2>1. /\ at2 \in 1..N /\ Steps2!Accepted(at2)
          /\ \A i \in 1..(at2 - 1) : Steps2!Accepted(i)
          /\ ~ bundle2 /\ (at2 > 1 => "indexed" \in outputs2)
      BY <1>1 DEF CInv, Steps2!SInv, Steps2!PlaceOK, StepOK2, Steps2!Busy,
         Steps2!OperationStep, Compilation!Step, Compilation!OperationStep
    <2>2. QED BY <1>1, <2>1
  <1>4. \/ pc2' = "ledger" /\ AllAccepted2
        \/ pc2' = "pick"
    BY <1>1, <1>3 DEF Steps2!ProceedTo, AllAccepted2
  <1>5. AllAccepted2 => AllAccepted2'
    BY <1>1 DEF AllAccepted2, Steps2!Accepted
  <1>6. StepOK2'
    BY <1>1, <1>3, <1>4, <1>5 DEF StepOK2
  <1>7. outputs2 \subseteq outputs2' /\ outputs2' \subseteq Compilation!Output
    BY <1>1 DEF CInv, Compilation!TypeOK, Compilation!Output
  <1>8. QED BY <1>1, <1>2, <1>4, <1>6, <1>7, QuietStep2 DEF CInv, Compilation!TypeOK,
            Compilation!Step, Compilation!OperationStep

LEMMA CompilationCloses ==
    ASSUME CInv, Compilation!SaveLedger \/ Compilation!SaveScript
    PROVE  CInv'
  <1>1. /\ pc2 \in {"ledger", "script"}
        /\ pc2' = IF pc2 = "ledger" THEN "script" ELSE "publish"
        /\ outputs2' = outputs2 \cup {pc2}
        /\ UNCHANGED <<op2, at2, budget2, fresh2, reason2>>
        /\ UNCHANGED <<folder2, summary2, step2, bundle2>>
    BY DEF Compilation!SaveLedger, Compilation!SaveScript, Compilation!Goto
  <1>2. AllAccepted2 /\ "indexed" \in outputs2 /\ ~ bundle2
        /\ (pc2 = "script" => "ledger" \in outputs2)
    BY <1>1 DEF CInv, StepOK2, Compilation!Step
  <1>3. Steps2!SInv'
    BY <1>1, Steps2!LeaveKeeps, SizeAssumption, NoneAssumption, SameTypes2
       DEF CInv, SameNames2, Steps2!SInv, Steps2!SequenceTypeOK, Steps2!Busy,
           Steps2!OperationStep
  <1>4. StepOK2'
    BY <1>1, <1>2 DEF StepOK2, AllAccepted2, Steps2!Accepted, Steps2!Busy,
       Steps2!OperationStep
  <1>5. outputs2 \subseteq outputs2' /\ outputs2' \subseteq Compilation!Output
    BY <1>1 DEF CInv, Compilation!TypeOK, Compilation!Output
  <1>6. QED BY <1>1, <1>3, <1>4, <1>5, QuietStep2 DEF CInv, Compilation!TypeOK, Compilation!Step

(* The summary of a success is the one an earlier invocation saved.        *)
LEMMA CompilationSucceeds == ASSUME CInv, Compilation!Publish PROVE CInv'
  <1> USE SizeAssumption, NoneAssumption, SameTypes2 DEF SameNames2
  <1> DEFINE value == [failure |-> None, calls |-> Compilation!Calls]
  <1>1. /\ pc2 = "publish"
        /\ summary2' = IF summary2 = None THEN value ELSE summary2
        /\ pc2' = IF summary2 \in {None, value} THEN "record" ELSE "conflict"
        /\ UNCHANGED <<op2, at2, budget2, fresh2, reason2>>
        /\ UNCHANGED <<folder2, outputs2, step2, bundle2>>
    BY DEF Compilation!Publish, Compilation!PublishesAs, Compilation!WritesOnce,
       Compilation!Written, Compilation!Goto
  <1>2. AllAccepted2 /\ ~ bundle2
        /\ {"indexed", "ledger", "script"} \subseteq outputs2
    BY <1>1 DEF CInv, StepOK2, Compilation!Step
  <1>3. ~ Failed2
    BY <1>2, Steps2!DeadIsNotAccepted DEF CInv, SummaryOK2, AllAccepted2, Steps2!FirstDead
  <1>4. value \in Compilation!Summary /\ value # None
    <2>1. Compilation!Calls \in [1..N -> 0..2]
      BY DEF CInv, Compilation!TypeOK, Compilation!SequenceTypeOK, Compilation!Stage,
         Compilation!Calls
    <2>2. QED BY <2>1, Absent2 DEF Compilation!Summary
  <1>5. summary2 \in {None, value}
    <2>1. SUFFICES ASSUME summary2 # None PROVE summary2 = value
      OBVIOUS
    <2>2. summary2 \in Compilation!Summary /\ summary2.failure = None
      BY <1>3, <2>1 DEF Failed2, CInv, Compilation!TypeOK
    <2>3. summary2.calls = Compilation!Calls
      BY <2>1, <2>2 DEF CInv, SummaryOK2, Compilation!IsComplete
    <2>4. QED BY <2>2, <2>3 DEF Compilation!Summary
  <1>6. summary2' = value /\ pc2' = "record"
    BY <1>1, <1>5
  <1>7. Compilation!IsComplete' /\ ~ Failed2'
    BY <1>4, <1>6 DEF Compilation!IsComplete, Failed2
  <1>8. Steps2!SInv'
    BY <1>1, <1>6, Steps2!LeaveKeeps
       DEF CInv, Steps2!SInv, Steps2!SequenceTypeOK, Steps2!Busy, Steps2!OperationStep
  <1>9. AllAccepted2' /\ summary2'.calls = Steps2!Calls'
    BY <1>1, <1>2, <1>6, SameTypes2Next DEF AllAccepted2, Steps2!Accepted, Steps2!Calls
  <1>10. StepOK2'
    BY <1>1, <1>2, <1>6, <1>7, <1>9 DEF StepOK2, Steps2!Busy, Steps2!OperationStep
  <1>11. SummaryOK2'
    <2>1. step2 # "failed"
      BY <1>3 DEF CInv, SummaryOK2
    <2>2. QED BY <1>1, <1>7, <1>9, <2>1 DEF SummaryOK2
  <1>12. Compilation!TypeOK'
    BY <1>1, <1>4, <1>6, <1>8, SameTypes2Next DEF CInv, Compilation!TypeOK, Steps2!SInv,
       Compilation!Step
  <1>13. Compilation!BundleIsWhole' /\ Compilation!ConflictMeansDead'
    BY <1>1, <1>2, <1>6 DEF Compilation!BundleIsWhole, Compilation!ConflictMeansDead
  <1>14. QED BY <1>8, <1>10, <1>11, <1>12, <1>13 DEF CInv

(* A failure is published of the dead operation the invocation is at.      *)
LEMMA CompilationFails == ASSUME CInv, Compilation!PublishFailure PROVE CInv'
  <1> USE SizeAssumption, NoneAssumption, SameTypes2 DEF SameNames2
  <1> DEFINE value == [failure |-> reason2, calls |-> Compilation!Calls]
  <1>1. /\ pc2 = "fail"
        /\ summary2' = IF summary2 = None THEN value ELSE summary2
        /\ pc2' = IF summary2 \in {None, value} THEN "fail_record" ELSE "conflict"
        /\ UNCHANGED <<op2, at2, budget2, fresh2, reason2>>
        /\ UNCHANGED <<folder2, outputs2, step2, bundle2>>
    BY DEF Compilation!PublishFailure, Compilation!PublishesAs, Compilation!WritesOnce,
       Compilation!Written, Compilation!Goto
  <1>2. /\ at2 \in 1..N /\ Steps2!FirstDead(at2) /\ ~ bundle2
        /\ reason2 # None /\ reason2 \in Failure
    BY <1>1 DEF CInv, StepOK2, Steps2!SInv, Steps2!SequenceTypeOK, Steps2!PlaceOK, Steps2!Busy,
       Steps2!OperationStep, Steps2!FirstDead, Compilation!Step, Compilation!OperationStep
  <1>3. ~ Compilation!IsComplete
    BY <1>2, Steps2!DeadIsNotAccepted DEF CInv, SummaryOK2, AllAccepted2, Steps2!FirstDead
  <1>4. value \in Compilation!Summary /\ value # None
    <2>1. Compilation!Calls \in [1..N -> 0..2]
      BY DEF CInv, Compilation!TypeOK, Compilation!SequenceTypeOK, Compilation!Stage,
         Compilation!Calls
    <2>2. QED BY <1>2, <2>1, Absent2 DEF Compilation!Summary
  <1>5. /\ summary2' # None /\ summary2'.failure # None
        /\ pc2' = "fail_record" => summary2'.failure = reason2'
    BY <1>1, <1>2, <1>3, <1>4 DEF Compilation!IsComplete
  <1>6. Steps2!SInv'
    BY <1>1, Steps2!LeaveKeeps
       DEF CInv, Steps2!SInv, Steps2!SequenceTypeOK, Steps2!Busy, Steps2!OperationStep
  <1>7. Steps2!FirstDead(at2)' /\ at2' \in 1..N
    BY <1>1, <1>2 DEF Steps2!FirstDead, Steps2!Accepted
  <1>8. StepOK2'
    BY <1>1, <1>2, <1>5 DEF StepOK2, Failed2, Steps2!Busy, Steps2!OperationStep
  <1>9. SummaryOK2'
    <2>1. step2 # "completed"
      BY <1>3 DEF CInv, SummaryOK2
    <2>2. ~ Compilation!IsComplete' /\ Failed2'
      BY <1>5 DEF Compilation!IsComplete, Failed2
    <2>3. \E d \in 1..N : Steps2!FirstDead(d)'
      BY <1>1, <1>2, <1>7
    <2>4. QED BY <1>1, <2>1, <2>2, <2>3 DEF SummaryOK2
  <1>10. Compilation!TypeOK'
    BY <1>1, <1>4, <1>6, SameTypes2Next DEF CInv, Compilation!TypeOK, Steps2!SInv,
       Compilation!Step, Compilation!Outcome
  <1>11. Compilation!ConflictMeansDead'
    <2>1. Steps2!IsDead(op2'[at2])
      BY <1>1, <1>2 DEF Steps2!FirstDead
    <2>2. Compilation!IsDead(op2'[at2])
      BY <1>1, <1>2, <2>1
    <2>3. QED BY <1>2, <2>2 DEF Compilation!ConflictMeansDead
  <1>12. Compilation!BundleIsWhole'
    BY <1>1, <1>2 DEF Compilation!BundleIsWhole
  <1>13. QED BY <1>6, <1>8, <1>9, <1>10, <1>11, <1>12 DEF CInv

(* The step record never disagrees with the summary.                       *)
LEMMA CompilationRecords ==
    ASSUME CInv, Compilation!Record \/ Compilation!RecordFailure
    PROVE  CInv'
  <1> USE SizeAssumption, NoneAssumption, SameTypes2 DEF SameNames2
  <1> DEFINE value == IF pc2 = "record" THEN "completed" ELSE "failed"
  <1>1. /\ pc2 \in {"record", "fail_record"}
        /\ step2' = IF step2 = None THEN value ELSE step2
        /\ pc2' = IF step2 \notin {None, value} THEN "conflict"
                  ELSE IF pc2 = "record" THEN "bundle" ELSE reason2.outcome
        /\ UNCHANGED <<op2, at2, budget2, fresh2, reason2>>
        /\ UNCHANGED <<folder2, outputs2, summary2, bundle2>>
    BY DEF Compilation!Record, Compilation!RecordFailure, Compilation!RecordsAs,
       Compilation!WritesOnce, Compilation!Written, Compilation!Goto
  <1>2. /\ pc2 = "record" => Compilation!IsComplete /\ AllAccepted2
                               /\ {"indexed", "ledger", "script"} \subseteq outputs2
        /\ pc2 = "fail_record" => Failed2 /\ summary2.failure = reason2
        /\ ~ bundle2
    BY <1>1 DEF CInv, StepOK2, Compilation!Step
  <1>3. step2 \in {None, value}
    BY <1>1, <1>2 DEF CInv, SummaryOK2, Compilation!TypeOK, Failed2, Compilation!IsComplete
  <1>4. step2' = value
    BY <1>1, <1>3
  <1>5. pc2' = IF pc2 = "record" THEN "bundle" ELSE reason2.outcome
    BY <1>1, <1>3
  <1>6. pc2 = "fail_record" => reason2 \in Failure
    BY <1>2 DEF Failed2, CInv, Steps2!SInv, Steps2!SequenceTypeOK
  <1>7. pc2' \in {"bundle"} \cup Compilation!FailureOutcome
    BY <1>1, <1>5, <1>6 DEF Failure, Compilation!FailureOutcome
  <1>8. Steps2!SInv'
    BY <1>1, <1>7, Steps2!LeaveKeeps
       DEF CInv, Steps2!SInv, Steps2!SequenceTypeOK, Steps2!Busy, Steps2!OperationStep,
           Compilation!FailureOutcome
  <1>9. StepOK2'
    <2>1. CASE pc2 = "record"
      BY <1>1, <1>2, <1>4, <1>5, <2>1
         DEF StepOK2, AllAccepted2, Steps2!Accepted, Compilation!IsComplete, Steps2!Busy,
             Steps2!OperationStep
    <2>2. CASE pc2 = "fail_record"
      BY <1>1, <1>2, <1>5, <1>6, <2>2
         DEF StepOK2, Steps2!Busy, Steps2!OperationStep, Compilation!FailureOutcome,
             Failure, Compilation!Step, Compilation!OperationStep
    <2>3. QED BY <1>1, <2>1, <2>2
  <1>10. SummaryOK2'
    <2>1. /\ Compilation!IsComplete' <=> Compilation!IsComplete
          /\ Failed2' <=> Failed2
          /\ AllAccepted2' <=> AllAccepted2
          /\ Steps2!Calls' = Steps2!Calls
          /\ \A d \in 1..N : Steps2!FirstDead(d)' <=> Steps2!FirstDead(d)
      BY <1>1 DEF Compilation!IsComplete, Failed2, AllAccepted2, Steps2!Accepted, Steps2!Calls,
         Steps2!FirstDead
    <2>2. pc2' \notin {"call", "judge", "accept"}
      BY <1>7 DEF Compilation!FailureOutcome
    <2>3. QED BY <1>1, <1>2, <1>4, <2>1, <2>2 DEF CInv, SummaryOK2
  <1>11. Compilation!TypeOK'
    BY <1>1, <1>4, <1>7, <1>8, SameTypes2Next DEF CInv, Compilation!TypeOK, Steps2!SInv,
       Compilation!Step, Compilation!Outcome
  <1>12. Compilation!BundleIsWhole' /\ Compilation!ConflictMeansDead'
    BY <1>1, <1>2, <1>7 DEF Compilation!BundleIsWhole, Compilation!ConflictMeansDead,
       Compilation!FailureOutcome
  <1>13. QED BY <1>8, <1>9, <1>10, <1>11, <1>12 DEF CInv

LEMMA CompilationBundles == ASSUME CInv, Compilation!Bundle PROVE CInv'
  <1> USE SizeAssumption, NoneAssumption, SameTypes2 DEF SameNames2
  <1>1. /\ pc2 = "bundle" /\ Compilation!IsComplete /\ AllAccepted2
        /\ {"indexed", "ledger", "script"} \subseteq outputs2
        /\ step2 = "completed"
    BY DEF Compilation!Bundle, CInv, StepOK2
  <1>2. /\ bundle2' = TRUE /\ pc2' = "complete"
        /\ UNCHANGED <<op2, at2, budget2, fresh2, reason2>>
        /\ UNCHANGED <<folder2, outputs2, summary2, step2>>
    BY <1>1 DEF Compilation!Bundle, Compilation!Goto
  <1>3. Steps2!SInv'
    BY <1>2, Steps2!LeaveKeeps
       DEF CInv, Steps2!SInv, Steps2!SequenceTypeOK, Steps2!Busy, Steps2!OperationStep
  <1>4. StepOK2'
    BY <1>2 DEF StepOK2, Steps2!Busy, Steps2!OperationStep, Compilation!Step,
       Compilation!OperationStep
  <1>5. SummaryOK2'
    BY <1>2 DEF CInv, SummaryOK2, Failed2, AllAccepted2, Steps2!FirstDead, Steps2!Accepted,
       Steps2!Calls, Compilation!IsComplete
  <1>6. Compilation!TypeOK'
    BY <1>2, <1>3, SameTypes2Next DEF CInv, Compilation!TypeOK, Steps2!SInv,
       Compilation!Outcome
  <1>7. Compilation!BundleIsWhole'
    <2>1. outputs2 = Compilation!Output
      BY <1>1 DEF CInv, Compilation!TypeOK, Compilation!Output
    <2>2. summary2.calls = Compilation!Calls
      BY <1>1 DEF CInv, SummaryOK2
    <2>3. \A i \in 1..N : Compilation!Accepted(i)
      BY <1>1 DEF AllAccepted2
    <2>4. QED BY <1>1, <1>2, <2>1, <2>2, <2>3
              DEF Compilation!BundleIsWhole, Compilation!IsComplete, Compilation!Calls,
                  Compilation!Accepted
  <1>8. Compilation!ConflictMeansDead'
    BY <1>2 DEF Compilation!ConflictMeansDead
  <1>9. QED BY <1>3, <1>4, <1>5, <1>6, <1>7, <1>8 DEF CInv

LEMMA CompilationNextOK == ASSUME CInv, Compilation!Next PROVE CInv'
  BY CompilationStarts, CompilationPrepares, CompilationEnters, CompilationPauses,
     CompilationPerforms, CompilationSaves, CompilationCloses, CompilationSucceeds,
     CompilationFails, CompilationRecords, CompilationBundles
     DEF Compilation!Next, Compilation!Advance

LEMMA CompilationRests == ASSUME CInv, UNCHANGED compilation PROVE CInv'
  BY SameTypes2, SameTypes2Next
     DEF compilation, CInv, SameNames2, Steps2!SInv, Steps2!SequenceTypeOK, Steps2!StageOK,
         Steps2!OperationsInOrder, Steps2!Accepted, Steps2!PlaceOK, Steps2!MayAsk,
         StepOK2, AllAccepted2, Failed2, SummaryOK2, Steps2!FirstDead, Steps2!Calls,
         Compilation!TypeOK, Compilation!IsComplete, Compilation!BundleIsWhole,
         Compilation!ConflictMeansDead, Compilation!Calls, Compilation!Accepted

LEMMA CompilationInvariant == PhasesSpec => []CInv
  <1>1. PhasesInit => CInv
    BY CInitOK DEF PhasesInit
  <1>2. CInv /\ [RunCompilation \/ RunPhase3 \/ RunScore \/ RunLayer]_phases => CInv'
    BY CompilationNextOK, CompilationRests
       DEF RunCompilation, RunPhase3, RunScore, RunLayer, phases
  <1>3. QED BY <1>1, <1>2, PTL DEF PhasesSpec

(* What the public run is told of the compilation.                         *)
TellsOK2 ==
    /\ pc2 \in Compilation!Step <=> Compilation!Tells = "busy"
    /\ pc2 = "idle" => Compilation!Tells = "silent"
    /\ pc2 \in Compilation!Outcome =>
          Compilation!Tells \in {"open"} \cup ({Compilation!Ended} \cap {"complete", "failed"})
    /\ pc2 = "complete" => Compilation!Tells = "complete" /\ Compilation!Ended = "complete"

LEMMA CompilationTells == CInv => TellsOK2
  <1> SUFFICES ASSUME CInv PROVE TellsOK2
    OBVIOUS
  <1> USE DEF Compilation!Tells, Compilation!Step, Compilation!OperationStep,
              Compilation!FailureOutcome
  <1>1. pc2 \in {"idle"} \cup Compilation!Step \cup Compilation!Outcome
    BY DEF CInv, Compilation!TypeOK
  <1>2. CASE pc2 = "idle"
    BY <1>2 DEF TellsOK2, Compilation!Outcome
  <1>3. CASE pc2 \in Compilation!Step
    BY <1>3 DEF TellsOK2, Compilation!Outcome
  <1>4. CASE pc2 = "complete"
    <2>1. Compilation!Ended = "complete"
      BY <1>4 DEF CInv, StepOK2, Compilation!Ended
    <2>2. QED BY <1>4, <2>1 DEF TellsOK2, Compilation!Outcome
  <1>5. CASE pc2 \in Compilation!Outcome \ {"complete"}
    BY <1>5 DEF TellsOK2, Compilation!Outcome
  <1>6. QED BY <1>1, <1>2, <1>3, <1>4, <1>5

LEMMA CompilationTellsNext == CInv' => TellsOK2'
  BY CompilationTells, PTL

LEMMA CompilationKeepsPromise == PhasesSpec => Compilation!KeepsPhasePromise
  <1>1. PhasesInit => Compilation!Recorded!Init
    <2>1. Compilation!Init => pc2 = "idle" /\ Compilation!Ended = None
      BY DEF Compilation!Init, Compilation!SequenceInit, Compilation!Ended
    <2>2. QED BY <2>1, CInitOK, CompilationTells DEF TellsOK2, PhasesInit,
                 Compilation!Recorded!Init
  <1>2. ASSUME CInv, CInv', Compilation!Next
        PROVE  Compilation!Recorded!Next
    <2>1. TellsOK2 /\ TellsOK2'
      BY <1>2, CompilationTells, CompilationTellsNext
    <2>2. CASE Compilation!Start
      <3>1. /\ pc2 \in {"idle"} \cup Compilation!Outcome /\ pc2' \in Compilation!Step
            /\ UNCHANGED <<summary2, bundle2>>
        BY <2>2 DEF Compilation!Start, Compilation!Begin, Compilation!saved, Compilation!Step
      <3>2. Compilation!Tells # "busy" /\ Compilation!Tells' = "busy"
        BY <2>1, <3>1 DEF TellsOK2, Compilation!Step, Compilation!OperationStep,
           Compilation!Outcome, Compilation!FailureOutcome
      <3>3. Compilation!Ended' = Compilation!Ended
        BY <3>1 DEF Compilation!Ended
      <3>4. QED BY <3>2, <3>3 DEF Compilation!Recorded!Next, Compilation!Recorded!Begin
    <2>3. CASE Compilation!Reuse
      <3>1. /\ pc2 \in {"idle"} \cup Compilation!Outcome /\ pc2' = "complete"
            /\ UNCHANGED <<summary2, bundle2>>
        BY <2>3 DEF Compilation!Reuse, Compilation!Goto, Compilation!saved
      <3>2. Compilation!Tells # "busy"
        BY <2>1, <3>1 DEF TellsOK2, Compilation!Step, Compilation!OperationStep,
           Compilation!Outcome, Compilation!FailureOutcome
      <3>3. Compilation!Ended' = Compilation!Ended
        BY <3>1 DEF Compilation!Ended
      <3>4. Compilation!Tells' = "complete" /\ Compilation!Ended' = "complete"
        BY <2>1, <3>1 DEF TellsOK2
      <3>5. QED BY <3>2, <3>3, <3>4 DEF Compilation!Recorded!Next, Compilation!Recorded!Begin
    <2>4. CASE Compilation!Crash \/ Compilation!Advance
      <3>1. pc2 \in Compilation!Step
        BY <2>4 DEF Compilation!Crash, Compilation!Advance, Compilation!CheckRequest,
           Compilation!Preflight, Compilation!MakeFolder, Compilation!SaveSpec,
           Compilation!Perform, Compilation!Operate, Compilation!Pick, Compilation!Return,
           Compilation!AskAgain, Compilation!Judge, Compilation!Accept, Compilation!Pause,
           Compilation!Pauses, Compilation!SaveIndexed, Compilation!SaveLedger,
           Compilation!SaveScript, Compilation!Publish, Compilation!Record,
           Compilation!PublishFailure, Compilation!RecordFailure, Compilation!Bundle,
           Compilation!Step, Compilation!OperationStep
      <3>2. /\ summary2 = None \/ summary2' = summary2
            /\ bundle2' = bundle2 \/ Compilation!IsComplete
        <4>1. CASE Compilation!Bundle
          BY <1>2, <4>1 DEF Compilation!Bundle, CInv, Compilation!TypeOK
        <4>2. CASE ~ Compilation!Bundle
          BY <2>4, <4>2 DEF Compilation!Crash, Compilation!Advance, Compilation!CheckRequest,
             Compilation!Preflight, Compilation!MakeFolder, Compilation!SaveSpec,
             Compilation!Perform, Compilation!Pause, Compilation!SaveIndexed,
             Compilation!SaveLedger, Compilation!SaveScript, Compilation!Publish,
             Compilation!Record, Compilation!PublishesAs, Compilation!RecordsAs,
             Compilation!PublishFailure, Compilation!RecordFailure, Compilation!saved,
             Compilation!Written
        <4>3. QED BY <4>1, <4>2
      <3>3. Compilation!Tells = "busy"
        BY <2>1, <3>1 DEF TellsOK2
      <3>4. ~ bundle2
        BY <1>2, <3>1 DEF CInv, StepOK2
      <3>5. Compilation!Ended' \in IF Compilation!Ended = None
                                   THEN {"complete", "failed", None} ELSE {Compilation!Ended}
        BY <3>2, <3>4 DEF Compilation!Ended, Compilation!IsComplete
      <3>6. Compilation!Tells' \in {"busy", "silent", "open"}
                                   \cup ({Compilation!Ended'} \cap {"complete", "failed"})
        <4>1. pc2' \in {"idle"} \cup Compilation!Step \cup Compilation!Outcome
          BY <1>2 DEF CInv, Compilation!TypeOK
        <4>2. QED BY <2>1, <4>1 DEF TellsOK2
      <3>7. QED BY <3>3, <3>5, <3>6 DEF Compilation!Recorded!Next, Compilation!Recorded!Work,
                   Compilation!Recorded!Ending
    <2>5. QED BY <1>2, <2>2, <2>3, <2>4 DEF Compilation!Next
  <1>3. ASSUME UNCHANGED compilation PROVE UNCHANGED Compilation!Recorded!vars
    BY <1>3 DEF compilation, Compilation!Recorded!vars, Compilation!Ended, Compilation!Tells
  <1>4. CInv /\ CInv' /\ [RunCompilation \/ RunPhase3 \/ RunScore \/ RunLayer]_phases =>
          [Compilation!Recorded!Next]_Compilation!Recorded!vars
    BY <1>2, <1>3 DEF RunCompilation, RunPhase3, RunScore, RunLayer, phases
  <1>5. QED BY <1>1, <1>4, CompilationInvariant, PTL
            DEF PhasesSpec, Compilation!KeepsPhasePromise, Compilation!Recorded!Spec

-----------------------------------------------------------------------------
(* Phase 3 beside the others.                                              *)
LEMMA Phase3Runs == PhasesSpec => Spec
  <1>1. [RunCompilation \/ RunPhase3 \/ RunScore \/ RunLayer]_phases => [Next]_vars
    BY DEF RunCompilation, RunPhase3, RunScore, RunLayer, phases
  <1>2. QED BY <1>1, PTL DEF PhasesSpec, PhasesInit, Spec

-----------------------------------------------------------------------------
(* The older phases 4 and 5 beside the others.  They also report failures  *)
(* that no operation has; for the operations each of these is some failure.*)
ReasonL ==
    IF reasonL \in Failure \cup {None} THEN reasonL
    ELSE [outcome |-> "runner_failed", why |-> "live"]

StepsL == INSTANCE OperationSequenceProofs WITH
    op <- opL, pc <- pcL, at <- atL, budget <- budgetL, fresh <- freshL,
    reason <- ReasonL

AllAcceptedL == \A i \in 1..N : StepsL!Accepted(i)

CompleteL == summaryL # None /\ summaryL.failure = None

FailedL == summaryL # None /\ summaryL.failure # None

Previewed == layerL = "foreground" => representableL

TypeOKL ==
    /\ pcL \in {"idle"} \cup Layer!Step \cup Layer!Outcome
    /\ reasonL \in Layer!LayerFailure \cup {None}
    /\ layerL \in {"foreground", "accompaniment"}
    /\ sourceL \in [1..N -> 0..N] /\ \A i \in 1..N : sourceL[i] < i
    /\ outputsL \subseteq 1..Layer!Ledger
    /\ summaryL \in Layer!Summary \cup {None}

(* What the steps of an invocation know: also a comparison comes before    *)
(* the operation, and the notes of all earlier ones are saved.             *)
StepOKL ==
    /\ pcL = "preflight" => atL = 1 /\ freshL = 0
    /\ pcL = "compare" =>
          atL \in 1..N /\ freshL < atL /\ \A i \in 1..(atL - 1) : StepsL!Accepted(i)
    /\ pcL \in StepsL!Busy \cup {"compare"} => 1..(atL - 1) \subseteq outputsL
    /\ pcL = "running" => atL \in outputsL
    /\ pcL = "preview" => atL = N /\ layerL = "foreground"
    /\ pcL \in {"preview", "ledger", "done", "publish", "record"} =>
          AllAcceptedL /\ 1..N \subseteq outputsL
    /\ pcL \in {"ledger", "done", "publish", "record"} => Previewed
    /\ pcL \in {"done", "publish", "record"} => Layer!Ledger \in outputsL
    /\ pcL \in {"publish", "record", "complete"} => stateL = Done
    /\ pcL \in {"fail", "fail_publish", "fail_record"} => reasonL # None
    /\ pcL \in {"record", "complete"} => CompleteL
    /\ pcL = "fail_record" => summaryL # None /\ summaryL.failure = reasonL
    /\ pcL \in Layer!FailedAs => FailedL

(* What a summary that says complete stands for stays as it is, however    *)
(* often the layer is gone through again.                                  *)
SummaryOKL ==
    CompleteL =>
        /\ AllAcceptedL
        /\ outputsL = 1..Layer!Ledger
        /\ summaryL.calls = StepsL!Calls
        /\ stateL.outcome \in {"running", "complete"}
        /\ pcL # "fail"
        /\ Previewed

LInv == TypeOKL /\ StepsL!SInv /\ StepOKL /\ SummaryOKL

LEMMA FailedAsAre ==
    Layer!FailedAs = {"runner_failed", "interrupted", "content_invalid",
                      "unrepresentable", "request_invalid"}
  <1>1. \A f \in Layer!LayerFailure :
          f.outcome \in {"runner_failed", "interrupted", "content_invalid",
                         "unrepresentable", "request_invalid"}
    BY DEF Layer!LayerFailure, Layer!Failure
  <1>2. ASSUME NEW o \in {"runner_failed", "interrupted", "content_invalid"}
        PROVE  o \in Layer!FailedAs
    <2>1. [outcome |-> o, why |-> "live"] \in Layer!LayerFailure
      BY DEF Layer!LayerFailure, Layer!Failure
    <2>2. QED BY <2>1 DEF Layer!FailedAs
  <1>3. "unrepresentable" \in Layer!FailedAs /\ "request_invalid" \in Layer!FailedAs
    <2>1. /\ [outcome |-> "unrepresentable", why |-> "preview"] \in Layer!LayerFailure
          /\ [outcome |-> "request_invalid", why |-> "source"] \in Layer!LayerFailure
      BY DEF Layer!LayerFailure
    <2>2. QED BY <2>1 DEF Layer!FailedAs
  <1>4. QED BY <1>1, <1>2, <1>3 DEF Layer!FailedAs

(* The places of a layer do not overlap.                                   *)
PlacesApart ==
    /\ Layer!FailedAs \cap (Layer!Step \cup {"idle", "paused", "conflict", "complete"}) = {}
    /\ StepsL!Busy \subseteq Layer!Step
    /\ Layer!OperationStep = StepsL!OperationStep

LEMMA PlacesAreApart == PlacesApart
  BY FailedAsAre DEF PlacesApart, Layer!Step, Layer!OperationStep, StepsL!Busy,
     StepsL!OperationStep

SameNamesL ==
    /\ Layer!Calls = StepsL!Calls
    /\ StepsL!Failure = Failure /\ Layer!Failure = Failure
    /\ \A i \in 1..N : Layer!Accepted(i) <=> StepsL!Accepted(i)

LEMMA SameTypesL == SameNamesL
  BY DEF SameNamesL, Layer!Calls, StepsL!Calls, StepsL!Failure, Layer!Failure, Failure,
     Layer!Accepted, StepsL!Accepted

LEMMA SameTypesLNext == SameNamesL'
  BY SameTypesL, PTL

(* Whatever the layer reports stands for a failure, or for none.           *)
LEMMA ReasonsL ==
    /\ ReasonL \in Failure \cup {None}
    /\ ReasonL = None <=> reasonL = None
  BY NoneAssumption DEF ReasonL, Failure

LEMMA ReasonsLNext ==
    /\ ReasonL' \in Failure \cup {None}
    /\ ReasonL' = None <=> reasonL' = None
  BY NoneAssumption DEF ReasonL, Failure

(* The actions of OperationSequence under either name.                     *)
LEMMA OperateL == ASSUME Layer!Operate PROVE StepsL!Operate
  <1>1. ASSUME NEW s PROVE StepsL!SavedFailure(s) \in Failure /\ StepsL!LiveFailure(s) \in Failure
    BY DEF StepsL!SavedFailure, StepsL!LiveFailure, Failure
  <1>2. ASSUME NEW s, Layer!Fails(Layer!SavedFailure(s))
        PROVE  StepsL!Fails(StepsL!SavedFailure(s))
    <2>1. reasonL' = StepsL!SavedFailure(s) /\ pcL' = "fail"
      BY <1>2 DEF Layer!Fails, Layer!SavedFailure, StepsL!SavedFailure
    <2>2. ReasonL' = reasonL'
      BY <2>1, <1>1 DEF ReasonL, Failure
    <2>3. QED BY <2>1, <2>2 DEF StepsL!Fails
  <1>3. ASSUME NEW s, Layer!Fails(Layer!LiveFailure(s))
        PROVE  StepsL!Fails(StepsL!LiveFailure(s))
    <2>1. reasonL' = StepsL!LiveFailure(s) /\ pcL' = "fail"
      BY <1>3 DEF Layer!Fails, Layer!LiveFailure, StepsL!LiveFailure
    <2>2. ReasonL' = reasonL'
      BY <2>1, <1>1 DEF ReasonL, Failure
    <2>3. QED BY <2>1, <2>2 DEF StepsL!Fails
  <1>4. UNCHANGED reasonL => UNCHANGED ReasonL
    BY DEF ReasonL, Failure
  <1>5. /\ \A i : Layer!Accepted(i) <=> StepsL!Accepted(i)
        /\ \A s : Layer!IsDead(s) <=> StepsL!IsDead(s)
        /\ \A s : Layer!MayAsk(s) <=> StepsL!MayAsk(s)
        /\ \A s : Layer!AfterAsk(s) = StepsL!AfterAsk(s)
        /\ \A s : Layer!AfterCall(s) = StepsL!AfterCall(s)
        /\ \A s : Layer!AfterVerdict(s) = StepsL!AfterVerdict(s)
        /\ \A s : Layer!AfterAccept(s) = StepsL!AfterAccept(s)
        /\ Layer!Pauses <=> StepsL!Pauses
    BY DEF Layer!Accepted, StepsL!Accepted, Layer!IsDead, StepsL!IsDead, Layer!MayAsk,
       StepsL!MayAsk, Layer!AfterAsk, StepsL!AfterAsk, Layer!AfterCall, StepsL!AfterCall,
       Layer!AfterVerdict, StepsL!AfterVerdict, Layer!AfterAccept, StepsL!AfterAccept,
       Layer!Pauses, StepsL!Pauses
  <1>6. Layer!Pick => StepsL!Pick
    BY <1>2, <1>4, <1>5 DEF Layer!Pick, StepsL!Pick
  <1>7. Layer!Return => StepsL!Return
    BY <1>3, <1>4, <1>5 DEF Layer!Return, StepsL!Return
  <1>8. Layer!AskAgain => StepsL!AskAgain
    BY <1>4, <1>5 DEF Layer!AskAgain, StepsL!AskAgain
  <1>9. Layer!Judge => StepsL!Judge
    BY <1>3, <1>4, <1>5 DEF Layer!Judge, StepsL!Judge
  <1>10. Layer!Accept => StepsL!Accept
    BY <1>4, <1>5 DEF Layer!Accept, StepsL!Accept
  <1>11. QED BY <1>6, <1>7, <1>8, <1>9, <1>10 DEF Layer!Operate, StepsL!Operate

LEMMA LInitOK == Layer!Init => LInv
  <1> SUFFICES ASSUME Layer!Init PROVE LInv
    OBVIOUS
  <1>1. StepsL!SequenceInit
    BY DEF Layer!Init, Layer!SequenceInit, StepsL!SequenceInit, Layer!Untouched,
       StepsL!Untouched, ReasonL
  <1>2. StepsL!SInv
    BY <1>1, SizeAssumption, NoneAssumption, SameTypesL, StepsL!InitKeeps DEF SameNamesL
  <1>3. pcL = "idle" /\ summaryL = None /\ outputsL = {} /\ reasonL = None
    BY DEF Layer!Init, Layer!SequenceInit
  <1>4. TypeOKL
    BY <1>3 DEF TypeOKL, Layer!Init
  <1>5. StepOKL
    BY <1>3, PlacesAreApart DEF StepOKL, PlacesApart, StepsL!Busy, StepsL!OperationStep
  <1>6. QED BY <1>2, <1>3, <1>4, <1>5 DEF LInv, SummaryOKL, CompleteL

(* A step that leaves the operations and the summary as they are.          *)
LEMMA QuietStepL ==
    ASSUME LInv, StepsL!SInv', StepOKL',
           UNCHANGED <<opL, layerL, sourceL, representableL, summaryL>>,
           outputsL \subseteq outputsL', outputsL' \subseteq 1..Layer!Ledger,
           CompleteL => stateL' = stateL \/ stateL'.outcome \in {"running", "complete"},
           CompleteL => pcL' # "fail",
           pcL' \in {"idle"} \cup Layer!Step \cup Layer!Outcome,
           reasonL' \in Layer!LayerFailure \cup {None}
    PROVE  LInv'
  <1>1. TypeOKL'
    BY DEF LInv, TypeOKL, Layer!Ledger
  <1>2. SummaryOKL'
    BY DEF LInv, SummaryOKL, CompleteL, AllAcceptedL, StepsL!Accepted, StepsL!Calls,
       Previewed, Layer!Ledger
  <1>3. QED BY <1>1, <1>2 DEF LInv

LEMMA LayerStarts == ASSUME LInv, Layer!Start \/ Layer!Crash PROVE LInv'
  <1> USE SizeAssumption, NoneAssumption, SameTypesL DEF SameNamesL
  <1>1. CASE Layer!Start
    <2>1. /\ StepsL!Begin("preflight") /\ pcL' = "preflight" /\ atL' = 1 /\ freshL' = 0
          /\ reasonL' = None
          /\ UNCHANGED <<opL, layerL, sourceL, representableL, outputsL, stateL, summaryL>>
      BY <1>1 DEF Layer!Start, Layer!Begin, StepsL!Begin, Layer!phaseInput, ReasonL
    <2>2. StepsL!SInv'
      BY <2>1, StepsL!BeginKeeps DEF LInv, StepsL!Busy, StepsL!OperationStep
    <2>3. StepOKL'
      BY <2>1, PlacesAreApart DEF StepOKL, PlacesApart, StepsL!Busy, StepsL!OperationStep,
         Layer!Step
    <2>4. QED BY <2>1, <2>2, <2>3, QuietStepL DEF LInv, TypeOKL, Layer!Step
  <1>2. CASE Layer!Crash
    <2>1. /\ StepsL!Stop /\ pcL' = "idle" /\ reasonL' = None
          /\ UNCHANGED <<opL, layerL, sourceL, representableL, outputsL, stateL, summaryL>>
      BY <1>2 DEF Layer!Crash, Layer!Stop, StepsL!Stop, Layer!phaseInput, ReasonL
    <2>2. StepsL!SInv'
      BY <2>1, StepsL!StopKeeps DEF LInv
    <2>3. StepOKL'
      BY <2>1, PlacesAreApart DEF StepOKL, PlacesApart, StepsL!Busy, StepsL!OperationStep
    <2>4. QED BY <2>1, <2>2, <2>3, QuietStepL DEF LInv, TypeOKL
  <1>3. QED BY <1>1, <1>2

(* A runner that is not ready is a failure of the phase.                   *)
LEMMA LayerPreflights == ASSUME LInv, Layer!Preflight PROVE LInv'
  <1> USE SizeAssumption, NoneAssumption, SameTypesL DEF SameNamesL
  <1> DEFINE unready == [outcome |-> "runner_failed", why |-> "preflight"]
  <1>1. /\ pcL = "preflight"
        /\ \/ pcL' = "compare" /\ reasonL' = reasonL
           \/ pcL' = "fail_publish" /\ reasonL' = unready
        /\ UNCHANGED <<opL, atL, budgetL, freshL>>
        /\ UNCHANGED <<layerL, sourceL, representableL, outputsL, stateL, summaryL>>
    BY DEF Layer!Preflight, Layer!phaseInput
  <1>2. atL = 1 /\ freshL = 0
    BY <1>1 DEF LInv, StepOKL
  <1>3. unready \in Layer!LayerFailure /\ unready # None
    BY LayerAbsentAssumption DEF Layer!LayerFailure, Failure
  <1>4. reasonL' \in Layer!LayerFailure \cup {None}
    BY <1>1, <1>3 DEF LInv, TypeOKL
  <1>5. StepsL!SInv'
    BY <1>1, ReasonsLNext, StepsL!LeaveKeeps DEF LInv, StepsL!Busy, StepsL!OperationStep
  <1>6. StepOKL'
    BY <1>1, <1>2, <1>3, PlacesAreApart
       DEF StepOKL, PlacesApart, StepsL!Busy, StepsL!OperationStep, Layer!Step
  <1>7. QED BY <1>1, <1>4, <1>5, <1>6, QuietStepL DEF LInv, TypeOKL, Layer!Step

LEMMA LayerPauses == ASSUME LInv, Layer!Pause PROVE LInv'
  <1> USE SizeAssumption, NoneAssumption, SameTypesL DEF SameNamesL
  <1>1. /\ pcL = "compare" /\ ~ StepsL!Accepted(atL) /\ pcL' = "paused"
        /\ UNCHANGED <<opL, atL, budgetL, freshL, reasonL>>
        /\ UNCHANGED <<layerL, sourceL, representableL, outputsL, summaryL>>
    BY DEF Layer!Pause, Layer!HasSpent, Layer!Goto, Layer!phaseInput, Layer!Accepted,
       StepsL!Accepted
  <1>2. ~ CompleteL
    BY <1>1 DEF LInv, StepOKL, SummaryOKL, AllAcceptedL
  <1>3. StepsL!SInv'
    BY <1>1, ReasonsLNext, StepsL!LeaveKeeps DEF LInv, StepsL!Busy, StepsL!OperationStep
  <1>4. StepOKL'
    BY <1>1, PlacesAreApart
       DEF StepOKL, PlacesApart, StepsL!Busy, StepsL!OperationStep
  <1>5. QED BY <1>1, <1>2, <1>3, <1>4, QuietStepL DEF LInv, TypeOKL, Layer!Outcome

(* What an operation is compared with comes before it.                     *)
LEMMA LayerCompares == ASSUME LInv, Layer!Compare PROVE LInv'
  <1> USE SizeAssumption, NoneAssumption, SameTypesL DEF SameNamesL
  <1>1. pcL = "compare" /\ atL \in 1..N /\ freshL < atL
        /\ \A i \in 1..(atL - 1) : StepsL!Accepted(i)
        /\ 1..(atL - 1) \subseteq outputsL
    BY DEF Layer!Compare, LInv, StepOKL
  <1>2. sourceL[atL] < atL
    BY <1>1 DEF LInv, TypeOKL
  <1>3. /\ pcL' = "pick"
        /\ UNCHANGED <<opL, atL, budgetL, freshL, reasonL>>
        /\ UNCHANGED <<layerL, sourceL, representableL, outputsL, stateL, summaryL>>
    BY <1>2 DEF Layer!Compare, Layer!phaseInput
  <1>4. StepsL!SInv'
    <2>1. StepsL!PlaceOK'
      BY <1>1, <1>3 DEF StepsL!PlaceOK, StepsL!Busy, StepsL!OperationStep, StepsL!Accepted
    <2>2. QED BY <1>3, <2>1, ReasonsLNext
              DEF LInv, StepsL!SInv, StepsL!SequenceTypeOK, StepsL!OperationsInOrder,
                  StepsL!Accepted
  <1>5. StepOKL'
    BY <1>1, <1>3, PlacesAreApart DEF StepOKL, PlacesApart, Layer!Step, Layer!OperationStep
  <1>6. QED BY <1>3, <1>4, <1>5, QuietStepL DEF LInv, TypeOKL, Layer!Step, Layer!OperationStep

LEMMA LayerPerforms == ASSUME LInv, Layer!Perform PROVE LInv'
  <1> USE SizeAssumption, NoneAssumption, SameTypesL DEF SameNamesL
  <1>1. /\ StepsL!Operate /\ StepsL!SInv
        /\ UNCHANGED <<layerL, sourceL, representableL, outputsL, stateL, summaryL>>
    BY OperateL DEF Layer!Perform, Layer!phaseInput, LInv
  <1>2. StepsL!SInv'
    BY <1>1, StepsL!OperateKeeps
  <1>3. /\ pcL \in {"pick", "call", "judge", "accept"}
        /\ pcL' \in {"call", "judge", "accept", "save", "fail"}
        /\ atL' = atL /\ atL \in 1..N
    BY <1>1, StepsL!OperateGoes, StepsL!OperateTouches
  <1>4. 1..(atL - 1) \subseteq outputsL
    BY <1>3 DEF LInv, StepOKL, StepsL!Busy, StepsL!OperationStep
  <1>5. pcL' = "fail" => reasonL' # None
    BY <1>2, ReasonsLNext DEF StepsL!SInv, StepsL!PlaceOK
  <1>6. StepOKL'
    BY <1>1, <1>3, <1>4, <1>5, PlacesAreApart
       DEF StepOKL, PlacesApart, Layer!Step, Layer!OperationStep
  <1>7. reasonL' \in Layer!LayerFailure \cup {None}
    <2>1. reasonL' \in {reasonL} \cup Failure
      BY DEF Layer!Perform, Layer!Operate, Layer!Pick, Layer!Return, Layer!AskAgain,
         Layer!Judge, Layer!Accept, Layer!Fails, Layer!SavedFailure, Layer!LiveFailure, Failure
    <2>2. QED BY <2>1 DEF LInv, TypeOKL, Layer!LayerFailure
  <1>8. TypeOKL'
    BY <1>1, <1>3, <1>7 DEF LInv, TypeOKL, Layer!Step, Layer!OperationStep, Layer!Ledger
  <1>9. SummaryOKL'
    <2>1. SUFFICES ASSUME CompleteL PROVE SummaryOKL'
      BY <1>1 DEF SummaryOKL, CompleteL
    <2>2. AllAcceptedL
      BY <2>1 DEF LInv, SummaryOKL
    <2>3. opL' = opL
      BY <1>1, <1>3, <2>2, StepsL!OperateTouches DEF AllAcceptedL
    <2>4. pcL' # "fail"
      <3>1. pcL' = "fail" => StepsL!IsDead(opL'[atL])
        BY <1>1, StepsL!OperateGoes
      <3>2. ~ StepsL!IsDead(opL[atL])
        BY <1>3, <2>2 DEF AllAcceptedL, StepsL!Accepted, StepsL!IsDead
      <3>3. QED BY <2>3, <3>1, <3>2
    <2>5. QED BY <1>1, <2>1, <2>3, <2>4
              DEF LInv, SummaryOKL, CompleteL, AllAcceptedL, StepsL!Accepted, StepsL!Calls,
                  Previewed, Layer!Ledger
  <1>10. QED BY <1>2, <1>6, <1>8, <1>9 DEF LInv

LEMMA LayerSavesNotes == ASSUME LInv, Layer!SaveNotes PROVE LInv'
  <1> USE SizeAssumption, NoneAssumption, SameTypesL DEF SameNamesL
  <1>1. /\ pcL = "save" /\ StepsL!Goto("running")
        /\ outputsL' = outputsL \cup {atL}
        /\ pcL' = "running" /\ UNCHANGED <<opL, atL, reasonL>>
        /\ UNCHANGED <<layerL, sourceL, representableL, stateL, summaryL>>
    BY DEF Layer!SaveNotes, Layer!Goto, StepsL!Goto, Layer!phaseInput, ReasonL
  <1>2. StepsL!SInv'
    BY <1>1, StepsL!SaveKeeps DEF LInv
  <1>3. atL \in 1..N /\ 1..(atL - 1) \subseteq outputsL
    BY <1>1 DEF LInv, StepsL!SInv, StepsL!PlaceOK, StepOKL, StepsL!Busy, StepsL!OperationStep
  <1>4. StepOKL'
    BY <1>1, <1>3, PlacesAreApart DEF StepOKL, PlacesApart, Layer!Step
  <1>5. outputsL' \subseteq 1..Layer!Ledger
    BY <1>1, <1>3 DEF LInv, TypeOKL, Layer!Ledger
  <1>6. QED BY <1>1, <1>2, <1>4, <1>5, QuietStepL DEF LInv, TypeOKL, Layer!Step

(* The loop is left when all operations are accepted and their notes saved.*)
LEMMA LayerGoesOn == ASSUME LInv, Layer!SaveRunning PROVE LInv'
  <1> USE SizeAssumption, NoneAssumption, SameTypesL DEF SameNamesL
  <1> DEFINE last == IF layerL = "foreground" THEN "preview" ELSE "ledger"
  <1>1. /\ pcL = "running"
        /\ stateL' = [outcome |-> "running", done |-> atL]
        /\ IF atL = N THEN pcL' = last /\ atL' = atL ELSE pcL' = "compare" /\ atL' = atL + 1
        /\ UNCHANGED <<opL, budgetL, freshL, reasonL>>
        /\ UNCHANGED <<layerL, sourceL, representableL, outputsL, summaryL>>
    BY DEF Layer!SaveRunning, Layer!LeaveFor, Layer!phaseInput
  <1>2. /\ atL \in 1..N /\ freshL \in 0..N /\ freshL <= atL
        /\ \A i \in 1..atL : StepsL!Accepted(i)
        /\ 1..atL \subseteq outputsL
    <2>1. /\ atL \in 1..N /\ freshL \in 0..N /\ freshL <= atL /\ StepsL!Accepted(atL)
          /\ \A i \in 1..(atL - 1) : StepsL!Accepted(i)
          /\ 1..(atL - 1) \subseteq outputsL /\ atL \in outputsL
      BY <1>1 DEF LInv, StepsL!SInv, StepsL!SequenceTypeOK, StepsL!PlaceOK, StepOKL,
         StepsL!Busy, StepsL!OperationStep
    <2>2. 1..atL = 1..(atL - 1) \cup {atL}
      BY <2>1
    <2>3. QED BY <2>1, <2>2
  <1>3. pcL' \in {"preview", "ledger", "compare"} /\ atL' \in 1..N
    BY <1>1, <1>2
  <1>4. StepsL!SInv'
    <2>1. StepsL!PlaceOK'
      BY <1>3 DEF StepsL!PlaceOK, StepsL!Busy, StepsL!OperationStep
    <2>2. QED BY <1>1, <1>2, <1>3, <2>1, ReasonsLNext
              DEF LInv, StepsL!SInv, StepsL!SequenceTypeOK, StepsL!OperationsInOrder,
                  StepsL!Accepted
  <1>5. StepOKL'
    <2>1. CASE atL = N
      <3>1. /\ pcL' = last /\ atL' = N
            /\ AllAcceptedL /\ AllAcceptedL' /\ 1..N \subseteq outputsL'
        BY <1>1, <1>2, <2>1 DEF AllAcceptedL, StepsL!Accepted
      <3>2. CASE layerL = "foreground"
        BY <1>1, <3>1, <3>2, PlacesAreApart
           DEF StepOKL, PlacesApart, StepsL!Busy, StepsL!OperationStep, Layer!Step
      <3>3. CASE layerL # "foreground"
        BY <1>1, <3>1, <3>3, PlacesAreApart
           DEF StepOKL, PlacesApart, StepsL!Busy, StepsL!OperationStep, Layer!Step, Previewed
      <3>4. QED BY <3>2, <3>3
    <2>2. CASE atL # N
      <3>1. pcL' = "compare" /\ atL' = atL + 1 /\ atL' \in 1..N /\ freshL' < atL'
        BY <1>1, <1>2, <1>3, <2>2
      <3>2. (\A i \in 1..(atL' - 1) : StepsL!Accepted(i)') /\ 1..(atL' - 1) \subseteq outputsL'
        BY <1>1, <1>2, <3>1 DEF StepsL!Accepted
      <3>3. QED BY <3>1, <3>2, PlacesAreApart
                DEF StepOKL, PlacesApart, StepsL!Busy, StepsL!OperationStep, Layer!Step
    <2>3. QED BY <2>1, <2>2
  <1>6. QED BY <1>1, <1>3, <1>4, <1>5, QuietStepL DEF LInv, TypeOKL, Layer!Step, Layer!Ledger

(* An accepted foreground that has no preview is not published.            *)
LEMMA LayerPreviews == ASSUME LInv, Layer!WritePreview PROVE LInv'
  <1> USE SizeAssumption, NoneAssumption, SameTypesL DEF SameNamesL
  <1> DEFINE failure == [outcome |-> "unrepresentable", why |-> "preview"]
  <1>1. /\ pcL = "preview"
        /\ IF representableL THEN pcL' = "ledger" /\ reasonL' = reasonL
           ELSE pcL' = "fail" /\ reasonL' = failure
        /\ UNCHANGED <<opL, atL, budgetL, freshL>>
        /\ UNCHANGED <<layerL, sourceL, representableL, outputsL, stateL, summaryL>>
    BY DEF Layer!WritePreview, Layer!Fails, Layer!phaseInput
  <1>2. atL = N /\ layerL = "foreground" /\ AllAcceptedL /\ 1..N \subseteq outputsL
    BY <1>1 DEF LInv, StepOKL
  <1>3. failure \in Layer!LayerFailure /\ failure # None
    BY LayerAbsentAssumption DEF Layer!LayerFailure
  <1>4. reasonL' \in Layer!LayerFailure \cup {None}
    BY <1>1, <1>3 DEF LInv, TypeOKL
  <1>5. pcL' = "fail" => reasonL' # None /\ ~ representableL
    BY <1>1, <1>3
  <1>6. pcL' \in {"ledger", "fail"}
    BY <1>1
  <1>7. StepsL!SInv'
    <2>1. StepsL!PlaceOK'
      BY <1>1, <1>2, <1>5, <1>6, ReasonsLNext
         DEF StepsL!PlaceOK, StepsL!Busy, StepsL!OperationStep, AllAcceptedL, StepsL!Accepted
    <2>2. QED BY <1>1, <2>1, ReasonsLNext
              DEF LInv, StepsL!SInv, StepsL!SequenceTypeOK, StepsL!OperationsInOrder,
                  StepsL!Accepted
  <1>8. StepOKL'
    <2>1. AllAcceptedL' /\ 1..N \subseteq outputsL' /\ 1..(atL' - 1) \subseteq outputsL'
      BY <1>1, <1>2 DEF AllAcceptedL, StepsL!Accepted
    <2>2. QED BY <1>1, <1>2, <1>5, <1>6, <2>1, PlacesAreApart
              DEF StepOKL, PlacesApart, Layer!Step, Previewed, StepsL!Busy, StepsL!OperationStep
  <1>9. CompleteL => pcL' # "fail"
    BY <1>2, <1>5 DEF LInv, SummaryOKL, Previewed
  <1>10. QED BY <1>1, <1>4, <1>6, <1>7, <1>8, <1>9, QuietStepL
             DEF LInv, TypeOKL, Layer!Step, Layer!OperationStep

LEMMA LayerCloses == ASSUME LInv, Layer!SaveLedger \/ Layer!SaveDone PROVE LInv'
  <1> USE SizeAssumption, NoneAssumption, SameTypesL DEF SameNamesL
  <1>1. /\ pcL \in {"ledger", "done"}
        /\ pcL' = IF pcL = "ledger" THEN "done" ELSE "publish"
        /\ outputsL' = IF pcL = "ledger" THEN outputsL \cup {Layer!Ledger} ELSE outputsL
        /\ pcL = "ledger" => stateL' = stateL
        /\ pcL = "done" => stateL' = Done
        /\ UNCHANGED <<opL, atL, budgetL, freshL, reasonL>>
        /\ UNCHANGED <<layerL, sourceL, representableL, summaryL>>
    BY DEF Layer!SaveLedger, Layer!SaveDone, Layer!Goto, Layer!phaseInput, Done
  <1>2. AllAcceptedL /\ 1..N \subseteq outputsL /\ Previewed
        /\ (pcL = "done" => Layer!Ledger \in outputsL)
    BY <1>1 DEF LInv, StepOKL
  <1>3. pcL' \in {"done", "publish"} /\ pcL' \notin StepsL!Busy
    BY <1>1 DEF StepsL!Busy, StepsL!OperationStep
  <1>4. StepsL!SInv'
    BY <1>1, <1>3, ReasonsLNext, StepsL!LeaveKeeps DEF LInv
  <1>5. outputsL \subseteq outputsL' /\ outputsL' \subseteq 1..Layer!Ledger
        /\ Layer!Ledger \in outputsL'
    BY <1>1, <1>2 DEF LInv, TypeOKL, Layer!Ledger
  <1>6. AllAcceptedL' /\ Previewed' /\ 1..N \subseteq outputsL' /\ Layer!Ledger' = Layer!Ledger
    BY <1>1, <1>2, <1>5 DEF AllAcceptedL, StepsL!Accepted, Previewed, Layer!Ledger
  <1>7. StepOKL'
    BY <1>1, <1>3, <1>5, <1>6, PlacesAreApart DEF StepOKL, PlacesApart, Layer!Step
  <1>8. QED BY <1>1, <1>3, <1>4, <1>5, <1>7, QuietStepL DEF LInv, TypeOKL, Layer!Step, Done

LEMMA LayerFails == ASSUME LInv, Layer!SaveFailState PROVE LInv'
  <1> USE SizeAssumption, NoneAssumption, SameTypesL DEF SameNamesL
  <1>1. /\ pcL = "fail" /\ pcL' = "fail_publish"
        /\ UNCHANGED <<opL, atL, budgetL, freshL, reasonL>>
        /\ UNCHANGED <<layerL, sourceL, representableL, outputsL, summaryL>>
    BY DEF Layer!SaveFailState, Layer!Goto, Layer!phaseInput
  <1>2. ~ CompleteL /\ reasonL # None
    BY <1>1 DEF LInv, SummaryOKL, StepOKL
  <1>3. StepsL!SInv'
    BY <1>1, ReasonsLNext, StepsL!LeaveKeeps DEF LInv, StepsL!Busy, StepsL!OperationStep
  <1>4. StepOKL'
    BY <1>1, <1>2, PlacesAreApart
       DEF StepOKL, PlacesApart, StepsL!Busy, StepsL!OperationStep, Layer!Step
  <1>5. QED BY <1>1, <1>2, <1>3, <1>4, QuietStepL DEF LInv, TypeOKL, Layer!Step

(* The summary is written once: it says complete of what is complete then, *)
(* and what it says complete of stays so.                                  *)
LEMMA LayerPublishes == ASSUME LInv, Layer!Publish PROVE LInv'
  <1> USE SizeAssumption, NoneAssumption, SameTypesL DEF SameNamesL
  <1> DEFINE value == [failure |-> IF pcL = "publish" THEN None ELSE reasonL,
                       calls |-> Layer!Calls]
  <1>1. /\ pcL \in {"publish", "fail_publish"}
        /\ summaryL' = IF summaryL = None THEN value ELSE summaryL
        /\ pcL' = IF summaryL \notin {None, value} THEN "conflict"
                  ELSE IF pcL = "publish" THEN "record" ELSE "fail_record"
        /\ UNCHANGED <<opL, atL, budgetL, freshL, reasonL>>
        /\ UNCHANGED <<layerL, sourceL, representableL, outputsL, stateL>>
    BY DEF Layer!Publish, Layer!PublishesAs, Layer!WritesOnce, Layer!Written, Layer!Goto,
       Layer!phaseInput
  <1>2. /\ pcL = "publish" => /\ AllAcceptedL /\ 1..N \subseteq outputsL
                              /\ Layer!Ledger \in outputsL /\ Previewed /\ stateL = Done
        /\ pcL = "fail_publish" => reasonL # None
    BY <1>1 DEF LInv, StepOKL
  <1>3. value \in Layer!Summary /\ value # None
    <2>1. Layer!Calls \in [1..N -> 0..2]
      BY DEF LInv, StepsL!SInv, StepsL!SequenceTypeOK, StepsL!Stage, StepsL!Calls
    <2>2. value.failure \in Layer!LayerFailure \cup {None}
      BY DEF LInv, TypeOKL
    <2>3. QED BY <2>1, <2>2, LayerAbsentAssumption DEF Layer!Summary
  <1>4. pcL = "publish" => outputsL = 1..Layer!Ledger
    <2>1. outputsL \subseteq 1..Layer!Ledger
      BY DEF LInv, TypeOKL
    <2>2. 1..Layer!Ledger = 1..N \cup {Layer!Ledger}
      BY DEF Layer!Ledger
    <2>3. QED BY <1>2, <2>1, <2>2
  <1>5. pcL' \in {"conflict", "record", "fail_record"} /\ pcL' \notin StepsL!Busy
    BY <1>1 DEF StepsL!Busy, StepsL!OperationStep
  <1>6. StepsL!SInv'
    BY <1>1, <1>5, ReasonsLNext, StepsL!LeaveKeeps DEF LInv
  <1>7. /\ pcL' = "record" => pcL = "publish" /\ summaryL' = value
        /\ pcL' = "fail_record" => pcL = "fail_publish" /\ summaryL' = value
    BY <1>1
  <1>8. UNCHANGED <<AllAcceptedL, Previewed, Layer!Ledger, Layer!Calls, StepsL!Calls>>
    BY <1>1 DEF AllAcceptedL, StepsL!Accepted, Previewed, Layer!Ledger, Layer!Calls, StepsL!Calls
  <1>9. StepOKL'
    <2>1. pcL' = "record" => CompleteL'
      BY <1>3, <1>7 DEF CompleteL
    <2>2. pcL' = "fail_record" => summaryL' # None /\ summaryL'.failure = reasonL'
                                  /\ reasonL' # None
      BY <1>1, <1>2, <1>3, <1>7
    <2>3. pcL' = "record" => AllAcceptedL' /\ Previewed' /\ stateL' = Done
                             /\ 1..N \subseteq outputsL' /\ Layer!Ledger' \in outputsL'
      BY <1>1, <1>2, <1>7, <1>8
    <2>4. QED BY <1>5, <2>1, <2>2, <2>3, PlacesAreApart
              DEF StepOKL, PlacesApart, Layer!Step
  <1>10. TypeOKL'
    BY <1>1, <1>3, <1>5 DEF LInv, TypeOKL, Layer!Step, Layer!Outcome, Layer!Ledger
  <1>11. SummaryOKL'
    <2>1. SUFFICES ASSUME CompleteL' PROVE SummaryOKL'
      BY DEF SummaryOKL
    <2>2. CASE CompleteL
      BY <1>1, <1>5, <1>8, <2>2 DEF LInv, SummaryOKL, CompleteL
    <2>3. CASE ~ CompleteL
      <3>1. summaryL = None /\ summaryL' = value /\ pcL = "publish"
        BY <1>1, <1>2, <2>1, <2>3 DEF CompleteL
      <3>2. QED BY <1>1, <1>2, <1>4, <1>5, <1>8, <3>1 DEF SummaryOKL, Done
    <2>4. QED BY <2>2, <2>3
  <1>12. QED BY <1>6, <1>9, <1>10, <1>11 DEF LInv

LEMMA LayerRecords == ASSUME LInv, Layer!Record PROVE LInv'
  <1> USE SizeAssumption, NoneAssumption, SameTypesL DEF SameNamesL
  <1>1. /\ \/ pcL = "record" /\ pcL' \in {"complete", "conflict"}
           \/ pcL = "fail_record" /\ pcL' \in {reasonL.outcome, "conflict"}
        /\ UNCHANGED <<opL, atL, budgetL, freshL, reasonL>>
        /\ UNCHANGED <<layerL, sourceL, representableL, outputsL, stateL, summaryL>>
    BY DEF Layer!Record, Layer!RecordsAs, Layer!WritesOnce, Layer!Goto, Layer!phaseInput
  <1>2. /\ pcL = "record" => CompleteL /\ stateL = Done
        /\ pcL = "fail_record" => FailedL /\ reasonL \in Layer!LayerFailure
    BY DEF LInv, StepOKL, TypeOKL, FailedL
  <1>3. pcL = "fail_record" => reasonL.outcome \in Layer!FailedAs
    BY <1>2 DEF Layer!FailedAs
  <1>4. \/ pcL = "record" /\ pcL' = "complete"
        \/ pcL = "fail_record" /\ pcL' \in Layer!FailedAs
        \/ pcL' = "conflict"
    BY <1>1, <1>3
  <1>5. pcL' \notin StepsL!Busy /\ pcL' \notin Layer!Step /\ pcL' \in Layer!Outcome
        /\ pcL' # "fail"
    BY <1>4, PlacesAreApart
       DEF PlacesApart, Layer!Step, StepsL!OperationStep, StepsL!Busy, Layer!Outcome
  <1>6. StepsL!SInv'
    BY <1>1, <1>5, ReasonsLNext, StepsL!LeaveKeeps DEF LInv
  <1>7. StepOKL'
    <2>1. UNCHANGED <<CompleteL, FailedL, stateL>>
      BY <1>1 DEF CompleteL, FailedL
    <2>2. CASE pcL' \in Layer!FailedAs
      BY <1>1, <1>2, <1>4, <1>5, <2>1, <2>2, PlacesAreApart
         DEF StepOKL, PlacesApart, Layer!Step
    <2>3. CASE pcL' \in {"complete", "conflict"}
      BY <1>1, <1>2, <1>4, <1>5, <2>1, <2>3, PlacesAreApart
         DEF StepOKL, PlacesApart, Layer!Step
    <2>4. QED BY <1>4, <2>2, <2>3
  <1>8. outputsL \subseteq outputsL' /\ outputsL' \subseteq 1..Layer!Ledger
        /\ reasonL' \in Layer!LayerFailure \cup {None}
    BY <1>1 DEF LInv, TypeOKL
  <1>9. QED BY <1>1, <1>5, <1>6, <1>7, <1>8, QuietStepL

LEMMA LayerNextOK == ASSUME LInv, Layer!Next PROVE LInv'
  BY LayerStarts, LayerPreflights, LayerPauses, LayerCompares, LayerPerforms,
     LayerSavesNotes, LayerGoesOn, LayerPreviews, LayerCloses, LayerFails,
     LayerPublishes, LayerRecords
     DEF Layer!Next, Layer!Advance

LEMMA LayerRests == ASSUME LInv, UNCHANGED layers PROVE LInv'
  <1>1. UNCHANGED <<opL, pcL, atL, budgetL, freshL, reasonL>>
        /\ UNCHANGED <<layerL, sourceL, representableL, outputsL, stateL, summaryL>>
    BY DEF layers
  <1>2. StepsL!SInv'
    BY <1>1 DEF LInv, StepsL!SInv, StepsL!SequenceTypeOK, StepsL!OperationsInOrder,
       StepsL!Accepted, StepsL!PlaceOK, ReasonL
  <1>3. TypeOKL' /\ StepOKL' /\ SummaryOKL'
    BY <1>1 DEF LInv, TypeOKL, StepOKL, SummaryOKL, CompleteL, FailedL, Previewed,
       AllAcceptedL, StepsL!Accepted, StepsL!Calls, Layer!Ledger
  <1>4. QED BY <1>2, <1>3 DEF LInv

LEMMA LayerInvariant == PhasesSpec => []LInv
  <1>1. PhasesInit => LInv
    BY LInitOK DEF PhasesInit
  <1>2. LInv /\ [RunCompilation \/ RunPhase3 \/ RunScore \/ RunLayer]_phases => LInv'
    BY LayerNextOK, LayerRests
       DEF RunCompilation, RunPhase3, RunScore, RunLayer, phases
  <1>3. QED BY <1>1, <1>2, PTL DEF PhasesSpec

(* The bundle copies a whole compilation, a complete foreground or         *)
(* accompaniment is whole, and nothing was compared with what was not      *)
(* accepted (_compile_flow, realize_phase4, realize_phase5).               *)
THEOREM ResultsWhole == PhasesSpec => []ResultsAreWhole
  <1>1. LInv => Layer!LayerIsWhole
    BY SameTypesL DEF SameNamesL, LInv, SummaryOKL, StepOKL, CompleteL, AllAcceptedL, Done,
       Layer!LayerIsWhole
  <1>2. LInv => Layer!ComparesWithAccepted
    <2>1. SUFFICES ASSUME LInv, NEW i \in 1..N, opL[i].calls > 0, sourceL[i] > 0
                   PROVE  Layer!Accepted(sourceL[i])
      BY DEF Layer!ComparesWithAccepted
    <2>2. sourceL[i] \in 1..N /\ sourceL[i] < i
      BY <2>1, SizeAssumption DEF LInv, TypeOKL
    <2>3. QED BY <2>1, <2>2, SameTypesL DEF SameNamesL, LInv, StepsL!SInv,
                 StepsL!OperationsInOrder
  <1>3. CInv => /\ Compilation!TypeOK /\ Compilation!BundleIsWhole
                /\ Compilation!ConflictMeansDead
    BY DEF CInv
  <1>4. CInv /\ LInv => ResultsAreWhole
    BY <1>1, <1>2, <1>3 DEF ResultsAreWhole
  <1>5. QED BY CompilationInvariant, LayerInvariant, <1>4, PTL

(* What the public run is told of the layer.                               *)
TellsOKL ==
    /\ pcL \in Layer!Step <=> Layer!Tells = "busy"
    /\ pcL = "idle" => Layer!Tells = "silent"
    /\ pcL \in Layer!Outcome =>
          Layer!Tells \in {"open"} \cup ({Layer!Ended} \cap {"complete", "failed"})

LEMMA LayerTells == LInv => TellsOKL
  <1> SUFFICES ASSUME LInv PROVE TellsOKL
    OBVIOUS
  <1>1. pcL \in {"idle"} \cup Layer!Step \cup Layer!Outcome
    BY DEF LInv, TypeOKL
  <1>2. {"idle", "paused", "conflict", "complete"} \cap Layer!Step = {}
    BY DEF Layer!Step, Layer!OperationStep
  <1>3. CASE pcL = "idle"
    BY <1>2, <1>3, PlacesAreApart DEF TellsOKL, Layer!Tells, Layer!Outcome, PlacesApart
  <1>4. CASE pcL \in Layer!Step
    BY <1>2, <1>4, PlacesAreApart DEF TellsOKL, Layer!Tells, Layer!Outcome, PlacesApart
  <1>5. CASE pcL = "complete"
    <2>1. Layer!Ended = "complete"
      BY <1>5 DEF LInv, StepOKL, CompleteL, Layer!Ended
    <2>2. Layer!Tells = "complete"
      BY <1>2, <1>5, PlacesAreApart DEF Layer!Tells, PlacesApart
    <2>3. QED BY <1>2, <1>5, <2>1, <2>2 DEF TellsOKL
  <1>6. CASE pcL \in Layer!FailedAs
    <2>1. Layer!Ended = "failed"
      BY <1>6 DEF LInv, StepOKL, FailedL, Layer!Ended
    <2>2. pcL \notin Layer!Step \cup {"idle", "complete"}
      BY <1>6, PlacesAreApart DEF PlacesApart
    <2>3. Layer!Tells = "failed"
      BY <1>6, <2>2 DEF Layer!Tells
    <2>4. QED BY <2>1, <2>2, <2>3 DEF TellsOKL
  <1>7. CASE pcL \in {"paused", "conflict"}
    <2>1. pcL \notin Layer!FailedAs
      BY <1>7, PlacesAreApart DEF PlacesApart
    <2>2. QED BY <1>2, <1>7, <2>1 DEF TellsOKL, Layer!Tells
  <1>8. QED BY <1>1, <1>3, <1>4, <1>5, <1>6, <1>7 DEF Layer!Outcome

LEMMA LayerTellsNext == LInv' => TellsOKL'
  BY LayerTells, PTL

LEMMA LayerKeepsPromise == PhasesSpec => Layer!KeepsPhasePromise
  <1>1. PhasesInit => Layer!Recorded!Init
    <2>1. Layer!Init => pcL = "idle" /\ Layer!Ended = None
      BY DEF Layer!Init, Layer!SequenceInit, Layer!Ended
    <2>2. QED BY <2>1, LInitOK, LayerTells DEF TellsOKL, PhasesInit, Layer!Recorded!Init
  <1>2. ASSUME LInv, LInv', Layer!Next PROVE Layer!Recorded!Next
    <2>1. TellsOKL /\ TellsOKL'
      BY <1>2, LayerTells, LayerTellsNext
    <2>2. CASE Layer!Start
      <3>1. /\ pcL \in {"idle"} \cup Layer!Outcome /\ pcL' \in Layer!Step
            /\ summaryL' = summaryL
        BY <2>2 DEF Layer!Start, Layer!Begin, Layer!Step
      <3>2. Layer!Tells # "busy" /\ Layer!Tells' = "busy"
        BY <2>1, <3>1 DEF TellsOKL
      <3>3. Layer!Ended' = Layer!Ended
        BY <3>1 DEF Layer!Ended
      <3>4. QED BY <3>2, <3>3 DEF Layer!Recorded!Next, Layer!Recorded!Begin
    <2>3. CASE Layer!Crash \/ Layer!Advance
      <3>1. pcL \in Layer!Step
        BY <2>3 DEF Layer!Crash, Layer!Advance, Layer!Preflight, Layer!Pause, Layer!Compare,
           Layer!Perform, Layer!Operate, Layer!Pick, Layer!Return, Layer!AskAgain,
           Layer!Judge, Layer!Accept, Layer!SaveNotes, Layer!SaveRunning,
           Layer!WritePreview, Layer!SaveLedger, Layer!SaveDone, Layer!SaveFailState,
           Layer!Publish, Layer!Record, Layer!Step, Layer!OperationStep
      <3>2. summaryL = None \/ summaryL' = summaryL
        BY <2>3 DEF Layer!Crash, Layer!Advance, Layer!Preflight, Layer!Pause, Layer!Compare,
           Layer!Perform, Layer!SaveNotes, Layer!SaveRunning, Layer!WritePreview,
           Layer!SaveLedger, Layer!SaveDone, Layer!SaveFailState, Layer!Publish,
           Layer!Record, Layer!PublishesAs, Layer!RecordsAs, Layer!Written
      <3>3. Layer!Tells = "busy"
        BY <2>1, <3>1 DEF TellsOKL
      <3>4. Layer!Ended' \in IF Layer!Ended = None THEN {"complete", "failed", None}
                             ELSE {Layer!Ended}
        BY <3>2 DEF Layer!Ended
      <3>5. Layer!Tells' \in {"busy", "silent", "open"}
                             \cup ({Layer!Ended'} \cap {"complete", "failed"})
        <4>1. pcL' \in {"idle"} \cup Layer!Step \cup Layer!Outcome'
          BY <1>2 DEF LInv, TypeOKL, Layer!Step, Layer!Outcome, Layer!OperationStep
        <4>2. QED BY <2>1, <4>1 DEF TellsOKL
      <3>6. QED BY <3>3, <3>4, <3>5 DEF Layer!Recorded!Next, Layer!Recorded!Work,
                   Layer!Recorded!Ending
    <2>4. QED BY <1>2, <2>2, <2>3 DEF Layer!Next
  <1>3. ASSUME UNCHANGED layers PROVE UNCHANGED Layer!Recorded!vars
    BY <1>3 DEF layers, Layer!Recorded!vars, Layer!Ended, Layer!Tells
  <1>4. LInv /\ LInv' /\ [RunCompilation \/ RunPhase3 \/ RunScore \/ RunLayer]_phases =>
          [Layer!Recorded!Next]_Layer!Recorded!vars
    BY <1>2, <1>3 DEF RunCompilation, RunPhase3, RunScore, RunLayer, phases
  <1>5. QED BY <1>1, <1>4, LayerInvariant, PTL
            DEF PhasesSpec, Layer!KeepsPhasePromise, Layer!Recorded!Spec

(* Every recorded phase ends for good at most once, and reports the end    *)
(* that is saved.                                                          *)
THEOREM PromisesKept == PhasesSpec => KeepPhasePromises
  BY Phase3Runs, PromiseKept, CompilationKeepsPromise, ScoreRuns, ScorePromiseKept,
     LayerKeepsPromise, PTL DEF KeepPhasePromises

(* What is complete is whole, and an invocation works in its key, wherever *)
(* phase 3 runs beside the others.                                         *)
THEOREM Phase3StaysWhole == PhasesSpec => []CompleteIsWhole /\ []InvocationFits
  BY Phase3Runs, CompleteWhole, InvocationsFit, PTL
=============================================================================
