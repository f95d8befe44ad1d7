------------------------ MODULE PublicRealizationProofs ------------------------
(***************************************************************************)
(* Theorems about MCPublicRealization: about phase 7 (Phase7Run), for every*)
(* number of operations, and about what the public realization (PublicRun) *)
(* keeps in one output root, for every number of processes, requests and   *)
(* temporary files.                                                        *)
(***************************************************************************)
EXTENDS MCPublicRealization, OperationSequenceProofs

AllAccepted == \A i \in 1..N : Accepted(i)

(* The steps of an invocation that accepted every choice.                  *)
Closing == {"render", "outputs", "publish", "record", "load"}

(* What the steps around the operations know of the saved files.           *)
StepOK ==
    /\ pc = "preflight" => at = 1 /\ fresh = 0
    /\ pc \in Closing => AllAccepted
    /\ pc \in Closing \ {"render"} => verdict = None
    /\ pc \in Closing \ {"render", "outputs"} => outputs = Output
    /\ pc = "fail_publish" => reason # None \/ verdict # None
    /\ pc = "fail_record" =>
          /\ summary # None /\ summary.failure = Unfit
          /\ reason # None \/ verdict # None

(* The summary is published once, by the invocation that then ends.        *)
SummaryOK ==
    /\ pc \in Step \ {"record", "load"} => ~ IsComplete
    /\ pc \in {"record", "load"} => IsComplete
    /\ step = "completed" => IsComplete
    /\ step = "failed" => summary # None /\ summary.failure # None

IInv ==
    /\ TypeOK
    /\ SInv
    /\ StepOK
    /\ SummaryOK
    /\ CompleteIsWhole
    /\ ReportsWhatIsSaved

LEMMA InitOK == Init => IInv
  <1>1. SUFFICES ASSUME Init PROVE IInv
    OBVIOUS
  <1>2. SInv
    BY <1>1, InitKeeps DEF Init
  <1>3. pc = "idle" /\ summary = None /\ step = None /\ outputs = {}
    BY <1>1 DEF Init, SequenceInit
  <1>4. TypeOK
    BY <1>1, <1>2 DEF Init, SequenceInit, SInv, TypeOK
  <1>5. StepOK /\ ReportsWhatIsSaved
    BY <1>3 DEF StepOK, Closing, ReportsWhatIsSaved, Outcome, FailureOutcome, RenderOutcome
  <1>6. SummaryOK /\ CompleteIsWhole
    BY <1>3, AbsentAssumption
       DEF SummaryOK, Step, OperationStep, IsComplete, CompleteIsWhole
  <1>7. QED BY <1>2, <1>4, <1>5, <1>6 DEF IInv

(* A failure is reported under the name of an outcome, never as none.      *)
LEMMA UnfitIsFailure ==
    ASSUME IInv, reason # None \/ verdict # None
    PROVE  /\ Unfit \in Failure \cup Unrendered /\ Unfit # None
           /\ Unfit.outcome \in FailureOutcome \cup RenderOutcome
  <1>1. CASE reason # None
    BY <1>1, NoneAssumption
       DEF IInv, SInv, SequenceTypeOK, Unfit, Failure, FailureOutcome
  <1>2. CASE reason = None
    <2>1. Unfit = [outcome |-> verdict, why |-> "render"] /\ verdict \in RenderOutcome
      BY <1>2 DEF Unfit, IInv, TypeOK
    <2>2. Unfit \in Unrendered
      BY <2>1 DEF Unrendered
    <2>3. QED BY <2>1, <2>2, AbsentAssumption
  <1>3. QED BY <1>1, <1>2

-----------------------------------------------------------------------------
(* A step before the summary: it is not saved, and the invocation goes on. *)
LEMMA WorkStep ==
    ASSUME IInv, SInv', TypeOK', StepOK', UNCHANGED <<summary, step>>,
           pc \in Step \ {"record", "load"}, pc' \in Step \ {"record", "load"},
           outputs' # {} => verdict' = None /\ \A i \in 1..N : Accepted(i)'
    PROVE  IInv'
  <1>1. ~ IsComplete
    BY DEF IInv, SummaryOK
  <1>2. SummaryOK' /\ CompleteIsWhole'
    BY <1>1 DEF IInv, SummaryOK, CompleteIsWhole, IsComplete, Step, OperationStep
  <1>3. ReportsWhatIsSaved'
    BY DEF ReportsWhatIsSaved, Step, OperationStep, Outcome, FailureOutcome, RenderOutcome
  <1>4. QED BY <1>2, <1>3 DEF IInv

(* A step that saves the summary of a failure, the step record or nothing. *)
LEMMA EdgeStep ==
    ASSUME IInv, SInv', TypeOK', StepOK', SummaryOK', ReportsWhatIsSaved',
           UNCHANGED <<op, outputs, verdict>>, pc' # "unreadable",
           summary' = summary \/ summary'.failure # None
    PROVE  IInv'
  <1>1. CompleteIsWhole'
    BY DEF IInv, CompleteIsWhole, IsComplete, Calls, Accepted
  <1>2. QED BY <1>1 DEF IInv

-----------------------------------------------------------------------------
(* The steps around the work.                                              *)
LEMMA StartOK == ASSUME IInv, Start PROVE IInv'
  <1>1. /\ ~ IsComplete /\ pc' = "preflight" /\ at' = 1 /\ fresh' = 0
        /\ UNCHANGED <<op, outputs, summary, step, verdict>>
    BY DEF Start, Begin, saved
  <1>2. SInv'
    BY BeginKeeps DEF Start, IInv, Busy, OperationStep
  <1>3. TypeOK'
    BY <1>1, <1>2 DEF IInv, TypeOK, SInv, Step
  <1>4. StepOK'
    BY <1>1 DEF StepOK, Closing
  <1>5. SummaryOK' /\ ReportsWhatIsSaved'
    BY <1>1 DEF IInv, SummaryOK, IsComplete, ReportsWhatIsSaved, Outcome,
       FailureOutcome, RenderOutcome
  <1>6. QED BY <1>1, <1>2, <1>3, <1>4, <1>5, EdgeStep

LEMMA ReuseOK == ASSUME IInv, Reuse PROVE IInv'
  <1>1. /\ IsComplete /\ pc' = "load"
        /\ UNCHANGED <<op, at, budget, fresh, reason, outputs, summary, step, verdict>>
    BY DEF Reuse, Goto, saved
  <1>2. SInv'
    BY <1>1, LeaveKeeps DEF IInv, SInv, SequenceTypeOK, Busy, OperationStep
  <1>3. TypeOK'
    BY <1>1, <1>2 DEF IInv, TypeOK, SInv, Step
  <1>4. outputs = Output /\ verdict = None /\ AllAccepted
    BY <1>1 DEF IInv, CompleteIsWhole, Output, AllAccepted
  <1>5. StepOK'
    BY <1>1, <1>4 DEF StepOK, Closing, AllAccepted, Accepted
  <1>6. SummaryOK' /\ ReportsWhatIsSaved'
    BY <1>1 DEF IInv, SummaryOK, IsComplete, ReportsWhatIsSaved, Outcome,
       FailureOutcome, RenderOutcome
  <1>7. QED BY <1>1, <1>2, <1>3, <1>5, <1>6, EdgeStep

LEMMA CrashOK == ASSUME IInv, Crash PROVE IInv'
  <1>1. /\ pc' = "idle"
        /\ UNCHANGED <<op, outputs, summary, step, verdict>>
    BY DEF Crash, Stop, saved
  <1>2. SInv'
    BY StopKeeps DEF Crash, IInv
  <1>3. TypeOK'
    BY <1>1, <1>2 DEF IInv, TypeOK, SInv
  <1>4. StepOK'
    BY <1>1 DEF StepOK, Closing
  <1>5. SummaryOK' /\ ReportsWhatIsSaved'
    BY <1>1 DEF IInv, SummaryOK, IsComplete, ReportsWhatIsSaved, Outcome, Step,
       OperationStep, FailureOutcome, RenderOutcome
  <1>6. QED BY <1>1, <1>2, <1>3, <1>4, <1>5, EdgeStep

LEMMA LoadOK == ASSUME IInv, Load PROVE IInv'
  <1>1. /\ pc = "load" /\ IsComplete
        /\ outputs = Output /\ verdict = None /\ \A i \in 1..N : Accepted(i)
    BY DEF Load, IInv, SummaryOK, StepOK, Closing, AllAccepted
  <1>2. /\ pc' = "complete"
        /\ UNCHANGED <<op, at, budget, fresh, reason, outputs, summary, step, verdict>>
    BY <1>1 DEF Load, Goto, saved
  <1>3. SInv'
    BY <1>2, LeaveKeeps DEF IInv, SInv, SequenceTypeOK, Busy, OperationStep
  <1>4. TypeOK'
    BY <1>2, <1>3 DEF IInv, TypeOK, SInv, Outcome
  <1>5. StepOK'
    BY <1>2 DEF StepOK, Closing
  <1>6. SummaryOK' /\ ReportsWhatIsSaved'
    BY <1>1, <1>2 DEF IInv, SummaryOK, IsComplete, ReportsWhatIsSaved, Outcome, Step,
       OperationStep, FailureOutcome, RenderOutcome
  <1>7. QED BY <1>2, <1>3, <1>4, <1>5, <1>6, EdgeStep

LEMMA RecordOK == ASSUME IInv, Record PROVE IInv'
  <1>1. /\ pc = "record" /\ IsComplete /\ step # "failed"
        /\ outputs = Output /\ verdict = None /\ AllAccepted
    BY DEF Record, IInv, SummaryOK, StepOK, Closing, IsComplete
  <1>2. step \in {None, "completed"}
    BY <1>1 DEF IInv, TypeOK
  <1>3. /\ step' = "completed" /\ pc' = "load"
        /\ UNCHANGED <<op, at, budget, fresh, reason, outputs, summary, verdict>>
    BY <1>2 DEF Record, RecordsAs, WritesOnce, Written, Goto
  <1>4. SInv'
    BY <1>3, LeaveKeeps DEF IInv, SInv, SequenceTypeOK, Busy, OperationStep
  <1>5. TypeOK'
    BY <1>3, <1>4 DEF IInv, TypeOK, SInv, Step
  <1>6. StepOK'
    BY <1>1, <1>3 DEF StepOK, Closing, AllAccepted, Accepted
  <1>7. SummaryOK' /\ ReportsWhatIsSaved'
    BY <1>1, <1>3 DEF SummaryOK, IsComplete, ReportsWhatIsSaved, Outcome,
       FailureOutcome, RenderOutcome
  <1>8. QED BY <1>3, <1>4, <1>5, <1>6, <1>7, EdgeStep

LEMMA RecordFailureOK == ASSUME IInv, RecordFailure PROVE IInv'
  <1>1. /\ pc = "fail_record" /\ ~ IsComplete /\ (reason # None \/ verdict # None)
        /\ summary # None /\ summary.failure = Unfit
    BY DEF RecordFailure, IInv, SummaryOK, StepOK, Step
  <1>2. Unfit # None /\ Unfit.outcome \in FailureOutcome \cup RenderOutcome
    BY <1>1, UnfitIsFailure DEF RecordFailure, IInv, StepOK
  <1>3. step \in {None, "failed"}
    BY <1>1, <1>2 DEF IInv, TypeOK, SummaryOK, IsComplete
  <1>4. /\ step' = "failed" /\ pc' = Unfit.outcome
        /\ UNCHANGED <<op, at, budget, fresh, reason, outputs, summary, verdict>>
    BY <1>3 DEF RecordFailure, RecordsAs, WritesOnce, Written, Goto
  <1>5. SInv'
    BY <1>2, <1>4, LeaveKeeps DEF IInv, SInv, SequenceTypeOK, Busy, OperationStep,
       FailureOutcome, RenderOutcome
  <1>6. TypeOK'
    BY <1>2, <1>4, <1>5 DEF IInv, TypeOK, SInv, Outcome
  <1>7. StepOK'
    BY <1>2, <1>4 DEF StepOK, Closing, FailureOutcome, RenderOutcome
  <1>8. SummaryOK' /\ ReportsWhatIsSaved'
    BY <1>1, <1>2, <1>4 DEF SummaryOK, IsComplete, ReportsWhatIsSaved, Outcome, Step,
       OperationStep, FailureOutcome, RenderOutcome
  <1>9. pc' # "unreadable"
    BY <1>2, <1>4 DEF FailureOutcome, RenderOutcome
  <1>10. QED BY <1>4, <1>5, <1>6, <1>7, <1>8, <1>9, EdgeStep

(* The summary is saved, unless that of an earlier failure is in the way.  *)
LEMMA PublishFailureOK == ASSUME IInv, PublishFailure PROVE IInv'
  <1> DEFINE new == SummaryOf(Unfit)
  <1>1. /\ pc \in {"fail", "fail_publish"} /\ ~ IsComplete
        /\ reason # None \/ verdict # None
    BY DEF PublishFailure, IInv, SInv, PlaceOK, SummaryOK, StepOK, Step, OperationStep
  <1>2. Unfit \in Failure \cup Unrendered /\ Unfit # None
    BY <1>1, UnfitIsFailure
  <1>3. new \in Summary /\ new # None /\ new.failure = Unfit
    BY <1>2, AbsentAssumption
       DEF SummaryOf, Summary, Calls, IInv, TypeOK, SequenceTypeOK, Stage
  <1>4. /\ UNCHANGED <<op, at, budget, fresh, reason, outputs, step, verdict>>
        /\ summary' = IF summary = None THEN new ELSE summary
        /\ pc' = IF summary \in {None, new} THEN "fail_record" ELSE "conflict"
    BY DEF PublishFailure, PublishesAs, WritesOnce, Written, Goto
  <1>5. SInv'
    BY <1>4, LeaveKeeps DEF IInv, SInv, SequenceTypeOK, Busy, OperationStep
  <1>6. TypeOK'
    BY <1>3, <1>4, <1>5 DEF IInv, TypeOK, SInv, Outcome, Step
  <1>7. Unfit' = Unfit
    BY <1>4 DEF Unfit
  <1>8. StepOK'
    BY <1>1, <1>3, <1>4, <1>7 DEF StepOK, Closing
  <1>9. summary' # None /\ summary'.failure # None
    BY <1>1, <1>2, <1>3, <1>4 DEF IsComplete
  <1>10. SummaryOK' /\ ReportsWhatIsSaved'
    BY <1>1, <1>4, <1>9 DEF IInv, SummaryOK, IsComplete, Step, OperationStep,
       ReportsWhatIsSaved, Outcome, FailureOutcome, RenderOutcome
  <1>11. QED BY <1>4, <1>5, <1>6, <1>8, <1>9, <1>10, EdgeStep

LEMMA PublishOK == ASSUME IInv, Publish PROVE IInv'
  <1> DEFINE new == SummaryOf(None)
  <1>1. /\ pc = "publish" /\ ~ IsComplete /\ outputs = Output /\ verdict = None
        /\ AllAccepted
    BY DEF Publish, IInv, SummaryOK, StepOK, Closing, Step
  <1>2. new \in Summary /\ new # None /\ new.failure = None /\ new.calls = Calls
    BY AbsentAssumption
       DEF SummaryOf, Summary, Calls, IInv, TypeOK, SequenceTypeOK, Stage
  <1>3. /\ UNCHANGED <<op, at, budget, fresh, reason, outputs, step, verdict>>
        /\ summary' = IF summary = None THEN new ELSE summary
        /\ pc' = IF summary \in {None, new} THEN "record" ELSE "conflict"
    BY DEF Publish, PublishesAs, WritesOnce, Written, Goto
  <1>4. SInv'
    BY <1>3, LeaveKeeps DEF IInv, SInv, SequenceTypeOK, Busy, OperationStep
  <1>5. TypeOK'
    BY <1>2, <1>3, <1>4 DEF IInv, TypeOK, SInv, Outcome, Step
  <1>6. StepOK'
    BY <1>1, <1>3 DEF StepOK, Closing, AllAccepted, Accepted
  <1>7. CASE summary = None
    <2>1. summary' = new /\ pc' = "record"
      BY <1>3, <1>7
    <2>2. SummaryOK' /\ ReportsWhatIsSaved'
      BY <1>2, <1>3, <1>7, <2>1 DEF IInv, SummaryOK, IsComplete, ReportsWhatIsSaved,
         Outcome, FailureOutcome, RenderOutcome
    <2>3. CompleteIsWhole'
      BY <1>1, <1>2, <1>3, <2>1 DEF CompleteIsWhole, Calls, AllAccepted, Accepted
    <2>4. QED BY <1>4, <1>5, <1>6, <2>2, <2>3 DEF IInv
  <1>8. CASE summary # None
    <2>1. summary' = summary /\ summary.failure # None /\ pc' = "conflict"
      BY <1>1, <1>2, <1>3, <1>8 DEF IsComplete
    <2>2. SummaryOK' /\ ReportsWhatIsSaved'
      BY <1>3, <1>8, <2>1 DEF IInv, SummaryOK, IsComplete, Step, OperationStep,
         ReportsWhatIsSaved, Outcome, FailureOutcome, RenderOutcome
    <2>3. QED BY <1>3, <1>4, <1>5, <1>6, <2>1, <2>2, EdgeStep
  <1>9. QED BY <1>7, <1>8

-----------------------------------------------------------------------------
(* The work before the summary.                                            *)
LEMMA PreflightOK == ASSUME IInv, Preflight PROVE IInv'
  <1>1. /\ pc = "preflight" /\ at = 1 /\ fresh = 0
        /\ pc \in Step \ {"record", "load"}
        /\ UNCHANGED <<op, at, budget, fresh, outputs, summary, step, verdict>>
    BY DEF Preflight, IInv, StepOK, Step, saved
  <1>2. outputs' # {} => verdict' = None /\ \A i \in 1..N : Accepted(i)'
    BY <1>1 DEF IInv, CompleteIsWhole, Accepted
  <1>3. CASE pc' = "pick" /\ UNCHANGED reason
    <2>1. SInv'
      BY <1>1, <1>3, EnterKeeps DEF IInv
    <2>2. StepOK'
      BY <1>3 DEF StepOK, Closing
    <2>3. TypeOK'
      BY <1>1, <1>3, <2>1 DEF IInv, TypeOK, SInv, Step, OperationStep
    <2>4. QED
      BY <1>1, <1>2, <1>3, <2>1, <2>2, <2>3, WorkStep DEF Step, OperationStep
  <1>4. CASE /\ pc' = "fail_publish"
             /\ reason' = [outcome |-> "runner_failed", why |-> "preflight"]
    <2>1. reason' \in Failure /\ reason' # None
      BY <1>4, NoneAssumption DEF Failure
    <2>2. SInv'
      BY <1>1, <1>4, <2>1, LeaveKeeps DEF IInv, Busy, OperationStep
    <2>3. StepOK'
      BY <1>4, <2>1 DEF StepOK, Closing
    <2>4. TypeOK'
      BY <1>1, <1>4, <2>2 DEF IInv, TypeOK, SInv, Step
    <2>5. QED BY <1>1, <1>2, <1>4, <2>2, <2>3, <2>4, WorkStep DEF Step
  <1>5. QED BY <1>3, <1>4 DEF Preflight

LEMMA PerformOK == ASSUME IInv, Perform PROVE IInv'
  <1>1. SInv'
    BY OperateKeeps DEF Perform, IInv
  <1>2. /\ pc \in OperationStep \ {"save", "fail"}
        /\ pc' \in OperationStep
        /\ UNCHANGED <<at, budget, outputs, summary, step, verdict>>
    BY DEF Perform, Operate, Pick, Return, AskAgain, Judge, Accept, OperationStep,
       Fails, saved
  <1>3. \A i \in 1..N : Accepted(i) => Accepted(i)'
    BY AcceptedStays DEF Perform, IInv, Accepted
  <1>4. StepOK'
    BY <1>2 DEF StepOK, Closing, OperationStep
  <1>5. TypeOK'
    BY <1>1, <1>2 DEF IInv, TypeOK, SInv, Step
  <1>6. outputs' # {} => verdict' = None /\ \A i \in 1..N : Accepted(i)'
    BY <1>2, <1>3 DEF IInv, CompleteIsWhole
  <1>7. QED BY <1>1, <1>2, <1>4, <1>5, <1>6, WorkStep DEF Step, OperationStep

LEMMA GoOnOK == ASSUME IInv, GoOn PROVE IInv'
  <1>1. /\ pc = "save" /\ N \in Nat \ {0} /\ at \in 1..N
        /\ \A i \in 1..at : Accepted(i)
    BY SizeAssumption DEF GoOn, IInv, SInv, PlaceOK, Busy, OperationStep
  <1>2. /\ UNCHANGED <<op, budget, fresh, reason, outputs, summary, step, verdict>>
        /\ pc' \in {"render", "pick"}
        /\ pc' = "render" => at = N
    BY DEF GoOn, ProceedTo, saved
  <1>3. SInv'
    BY ProceedKeeps DEF GoOn, IInv, Busy, OperationStep
  <1>4. StepOK'
    BY <1>1, <1>2 DEF StepOK, Closing, AllAccepted, Accepted
  <1>5. TypeOK'
    BY <1>2, <1>3 DEF IInv, TypeOK, SInv, Step, OperationStep
  <1>6. outputs' # {} => verdict' = None /\ \A i \in 1..N : Accepted(i)'
    BY <1>2 DEF IInv, CompleteIsWhole, Accepted
  <1>7. QED BY <1>1, <1>2, <1>3, <1>4, <1>5, <1>6, WorkStep DEF Step, OperationStep

LEMMA RenderOK == ASSUME IInv, Render PROVE IInv'
  <1>1. /\ pc = "render" /\ AllAccepted
        /\ pc' = IF verdict = None THEN "outputs" ELSE "fail_publish"
        /\ UNCHANGED <<op, at, budget, fresh, reason, outputs, summary, step, verdict>>
    BY DEF Render, Goto, saved, IInv, StepOK, Closing
  <1>2. SInv'
    BY <1>1, LeaveKeeps DEF IInv, SInv, SequenceTypeOK, Busy, OperationStep
  <1>3. StepOK'
    BY <1>1 DEF StepOK, Closing, AllAccepted, Accepted
  <1>4. TypeOK'
    BY <1>1, <1>2 DEF IInv, TypeOK, SInv, Step
  <1>5. outputs' # {} => verdict' = None /\ \A i \in 1..N : Accepted(i)'
    BY <1>1 DEF IInv, CompleteIsWhole, Accepted
  <1>6. QED BY <1>1, <1>2, <1>3, <1>4, <1>5, WorkStep DEF Step

LEMMA SaveOutputOK == ASSUME IInv, SaveOutput PROVE IInv'
  <1>1. /\ pc = "outputs" /\ pc' = pc /\ AllAccepted /\ verdict = None
        /\ UNCHANGED <<sequence, summary, step, verdict>>
        /\ outputs' \subseteq Output
    BY DEF SaveOutput, IInv, StepOK, Closing, TypeOK, sequence
  <1>2. SInv'
    BY <1>1 DEF IInv, SInv, sequence, SequenceTypeOK, OperationsInOrder, PlaceOK, Accepted
  <1>3. StepOK'
    BY <1>1 DEF StepOK, Closing, AllAccepted, Accepted, sequence
  <1>4. TypeOK'
    BY <1>1, <1>2 DEF IInv, TypeOK, SInv
  <1>5. \A i \in 1..N : Accepted(i)'
    BY <1>1 DEF AllAccepted, Accepted, sequence
  <1>6. QED BY <1>1, <1>2, <1>3, <1>4, <1>5, WorkStep DEF Step

LEMMA OutputsDoneOK == ASSUME IInv, OutputsDone PROVE IInv'
  <1>1. /\ pc = "outputs" /\ pc' = "publish" /\ AllAccepted /\ verdict = None
        /\ outputs = Output
        /\ UNCHANGED <<op, at, budget, fresh, reason, outputs, summary, step, verdict>>
    BY DEF OutputsDone, Goto, saved, IInv, StepOK, Closing
  <1>2. SInv'
    BY <1>1, LeaveKeeps DEF IInv, SInv, SequenceTypeOK, Busy, OperationStep
  <1>3. StepOK'
    BY <1>1 DEF StepOK, Closing, AllAccepted, Accepted
  <1>4. TypeOK'
    BY <1>1, <1>2 DEF IInv, TypeOK, SInv, Step
  <1>5. \A i \in 1..N : Accepted(i)'
    BY <1>1 DEF AllAccepted, Accepted
  <1>6. QED BY <1>1, <1>2, <1>3, <1>4, <1>5, WorkStep DEF Step

-----------------------------------------------------------------------------
LEMMA NextOK == IInv /\ [Next]_vars => IInv'
  <1>1. SUFFICES ASSUME IInv, [Next]_vars PROVE IInv'
    OBVIOUS
  <1>2. CASE Start BY <1>1, <1>2, StartOK
  <1>3. CASE Reuse BY <1>1, <1>3, ReuseOK
  <1>4. CASE Crash BY <1>1, <1>4, CrashOK
  <1>5. CASE Preflight BY <1>1, <1>5, PreflightOK
  <1>6. CASE Perform BY <1>1, <1>6, PerformOK
  <1>7. CASE GoOn BY <1>1, <1>7, GoOnOK
  <1>8. CASE Render BY <1>1, <1>8, RenderOK
  <1>9. CASE SaveOutput BY <1>1, <1>9, SaveOutputOK
  <1>10. CASE OutputsDone BY <1>1, <1>10, OutputsDoneOK
  <1>11. CASE Publish BY <1>1, <1>11, PublishOK
  <1>12. CASE Record BY <1>1, <1>12, RecordOK
  <1>13. CASE PublishFailure BY <1>1, <1>13, PublishFailureOK
  <1>14. CASE RecordFailure BY <1>1, <1>14, RecordFailureOK
  <1>15. CASE Load BY <1>1, <1>15, LoadOK
  <1>16. CASE UNCHANGED vars
    <2>1. UNCHANGED <<op, pc, at, budget, fresh, reason, outputs, summary, step, verdict>>
      BY <1>16 DEF vars, sequence
    <2>2. SInv' /\ TypeOK'
      BY <1>1, <2>1 DEF IInv, TypeOK, SInv, SequenceTypeOK, OperationsInOrder,
         PlaceOK, Accepted
    <2>3. StepOK' /\ SummaryOK'
      BY <1>1, <2>1 DEF IInv, StepOK, SummaryOK, IsComplete, AllAccepted, Accepted, Unfit
    <2>4. CompleteIsWhole' /\ ReportsWhatIsSaved'
      BY <1>1, <2>1 DEF IInv, CompleteIsWhole, ReportsWhatIsSaved, IsComplete, Calls,
         Accepted
    <2>5. QED BY <2>2, <2>3, <2>4 DEF IInv
  <1>17. QED
    BY <1>1, <1>2, <1>3, <1>4, <1>5, <1>6, <1>7, <1>8, <1>9, <1>10, <1>11, <1>12,
       <1>13, <1>14, <1>15, <1>16 DEF Next, Advance

LEMMA Invariant == Spec => []IInv
  BY InitOK, NextOK, PTL DEF Spec

(* Every variable keeps its type, for any number of operations.            *)
THEOREM TypeCorrect == Spec => []TypeOK
  <1>1. IInv => TypeOK
    BY DEF IInv
  <1>2. QED BY <1>1, Invariant, PTL

(* A phase whose summary says complete can be loaded, however it came      *)
(* about.                                                                  *)
THEOREM CompleteWhole == Spec => []CompleteIsWhole
  <1>1. IInv => CompleteIsWhole
    BY DEF IInv
  <1>2. QED BY <1>1, Invariant, PTL

(* What an invocation reports is what the published summary says.          *)
THEOREM ReportsSaved == Spec => []ReportsWhatIsSaved
  <1>1. IInv => ReportsWhatIsSaved
    BY DEF IInv
  <1>2. QED BY <1>1, Invariant, PTL

-----------------------------------------------------------------------------
(* Failures that the records determine.                                    *)

(* A failure is published that any later invocation finds again.           *)
Settled ==
    /\ summary # None /\ summary.failure # None
    /\ summary.failure.why \in {"saved", "content", "render"}

SettledOK ==
    Settled =>
        /\ pc \notin {"call", "judge", "accept"}
        /\ summary.calls = Calls
        /\ \/ /\ AllAccepted /\ verdict # None
              /\ summary.failure = [outcome |-> verdict, why |-> "render"]
           \/ \E i \in 1..N : FirstDead(i) /\ summary.failure = SavedFailure(op[i])

(* A failure at hand is one of the records, of a call this invocation made *)
(* while none was published, or of a runner that was not ready.            *)
ReasonOK ==
    /\ pc \in {"preflight", "pick", "call", "judge", "accept", "save", "render"} =>
          reason = None
    /\ pc = "fail" =>
          \/ IsDead(op[at]) /\ reason = SavedFailure(op[at])
          \/ reason.why = "live" /\ ~ Settled
    /\ pc = "fail_publish" =>
          \/ reason = None /\ AllAccepted
          \/ reason # None /\ reason.why = "preflight"

RInv == IInv /\ SettledOK /\ ReasonOK /\ FailureRepeats

(* A step that leaves the records, the verdict and the summary alone.      *)
LEMMA SettledStays ==
    ASSUME RInv, UNCHANGED <<op, summary, verdict>>,
           pc' \notin {"call", "judge", "accept"}
    PROVE  SettledOK' /\ (Settled' <=> Settled)
  BY DEF RInv, SettledOK, Settled, Calls, AllAccepted, Accepted, FirstDead

LEMMA InitDetermined == Init => RInv
  <1>1. SUFFICES ASSUME Init PROVE RInv
    OBVIOUS
  <1>2. pc = "idle" /\ summary = None
    BY <1>1 DEF Init, SequenceInit
  <1>3. SettledOK /\ ReasonOK /\ FailureRepeats
    BY <1>2 DEF SettledOK, Settled, ReasonOK, FailureRepeats
  <1>4. QED BY <1>1, <1>3, InitOK DEF RInv

(* The operation at moves only while no such failure is published.         *)
LEMMA PerformDetermined ==
    ASSUME RInv, Perform PROVE SettledOK' /\ ReasonOK' /\ FailureRepeats'
  <1>1. /\ at \in 1..N /\ op[at] \in Stage /\ op \in [1..N -> Stage]
        /\ pc \in {"pick", "call", "judge", "accept"} /\ reason = None
        /\ UNCHANGED <<at, outputs, summary, step, verdict>>
    BY DEF Perform, Operate, Pick, Return, AskAgain, Judge, Accept, RInv, IInv, SInv,
       SequenceTypeOK, PlaceOK, ReasonOK, Busy, OperationStep, saved
  <1>2. pc' \in OperationStep
    BY DEF Perform, Operate, Pick, Return, AskAgain, Judge, Accept, OperationStep, Fails
  <1>3. FailureRepeats'
    BY <1>2 DEF FailureRepeats, OperationStep
  <1>4. CASE Settled
    <2>1. pc = "pick" /\ Pick
      BY <1>1, <1>4 DEF Perform, Operate, Return, AskAgain, Judge, Accept, RInv, SettledOK
    <2>2. AllAccepted \/ \E i \in 1..N : FirstDead(i)
      BY <1>4 DEF RInv, SettledOK
    <2>3. Accepted(at) \/ IsDead(op[at])
      BY <1>1, <2>1, <2>2, AtFirstDead DEF RInv, IInv, AllAccepted, FirstDead, Busy, OperationStep
    <2>4. /\ UNCHANGED op
          /\ \/ pc' = "save" /\ UNCHANGED reason
             \/ pc' = "fail" /\ IsDead(op[at]) /\ reason' = SavedFailure(op[at])
      BY <2>1, <2>3 DEF Pick, Fails, IsDead, Accepted, MayAsk
    <2>5. SettledOK'
      BY <1>1, <2>4, SettledStays
    <2>6. ReasonOK'
      BY <1>1, <2>4 DEF ReasonOK
    <2>7. QED BY <1>3, <2>5, <2>6
  <1>5. CASE ~ Settled
    <2>1. ~ Settled'
      BY <1>1, <1>5 DEF Settled
    <2>2. SettledOK'
      BY <2>1 DEF SettledOK
    <2>3. pc' # "fail" => reason' = None
      BY <1>1 DEF Perform, Operate, Pick, Return, AskAgain, Judge, Accept, Fails
    <2>4. pc' = "fail" =>
            \/ IsDead(op'[at]) /\ reason' = SavedFailure(op'[at])
            \/ reason'.why = "live"
      <3>1. CASE Pick
        BY <3>1 DEF Pick, Fails
      <3>2. CASE Return
        <4>1. PICK s \in AfterCall(op[at]) :
                /\ op' = [op EXCEPT ![at] = s]
                /\ \/ s.last = "answered" /\ pc' = "judge" /\ UNCHANGED reason
                   \/ MayAsk(s) /\ pc' = "call" /\ UNCHANGED reason
                   \/ s.last # "answered" /\ ~ MayAsk(s) /\ Fails(LiveFailure(s))
          BY <3>2 DEF Return
        <4>2. s.last # "poor"
          BY <4>1, <1>1 DEF AfterCall, Stage
        <4>3. QED BY <4>1, <4>2 DEF Fails, LiveFailure
      <3>3. CASE Judge
        <4>1. PICK s \in AfterVerdict(op[at]) :
                /\ op' = [op EXCEPT ![at] = s]
                /\ \/ s.last = "fit" /\ pc' = "accept" /\ UNCHANGED reason
                   \/ MayAsk(s) /\ pc' = "call" /\ UNCHANGED reason
                   \/ s.last = "poor" /\ ~ MayAsk(s) /\ Fails(LiveFailure(s))
          BY <3>3 DEF Judge
        <4>2. /\ s \in Stage /\ s.calls = op[at].calls /\ op'[at] = s
              /\ op[at].last = "answered" /\ StageOK(op[at])
          BY <4>1, <3>3, <1>1, MovesAreStages DEF Judge, RInv, IInv, SInv, PlaceOK
        <4>3. pc' = "fail" => s.last = "poor" /\ s.calls = 2
          BY <4>1, <4>2 DEF MayAsk, Stage, StageOK
        <4>4. pc' = "fail" => reason' = LiveFailure(s)
          BY <4>1 DEF Fails
        <4>5. QED BY <4>2, <4>3, <4>4 DEF LiveFailure, SavedFailure, IsDead
      <3>4. CASE AskAgain \/ Accept
        BY <3>4, <1>1 DEF AskAgain, Accept
      <3>5. QED BY <3>1, <3>2, <3>3, <3>4 DEF Perform, Operate
    <2>5. ReasonOK'
      BY <1>1, <1>2, <2>1, <2>3, <2>4 DEF ReasonOK, OperationStep
    <2>6. QED BY <1>3, <2>2, <2>5
  <1>6. QED BY <1>4, <1>5

(* The failure that is published is the one an earlier invocation saved,   *)
(* if that one is settled.                                                 *)
LEMMA PublishFailureDetermined ==
    ASSUME RInv, PublishFailure PROVE SettledOK' /\ ReasonOK' /\ FailureRepeats'
  <1> DEFINE new == SummaryOf(Unfit)
  <1>1. /\ pc \in {"fail", "fail_publish"} /\ ~ IsComplete
        /\ reason # None \/ verdict # None
        /\ N \in Nat
    BY SizeAssumption
       DEF PublishFailure, RInv, IInv, SInv, PlaceOK, SummaryOK, StepOK, Step, OperationStep
  <1>2. Unfit \in Failure \cup Unrendered /\ Unfit # None
    BY <1>1, UnfitIsFailure DEF RInv
  <1>3. /\ new \in Summary /\ new # None
        /\ new = [failure |-> Unfit, calls |-> Calls]
    BY <1>2, AbsentAssumption
       DEF SummaryOf, Summary, Calls, RInv, IInv, TypeOK, SequenceTypeOK, Stage
  <1>4. /\ UNCHANGED <<op, at, reason, verdict>>
        /\ summary' = IF summary = None THEN new ELSE summary
        /\ pc' = IF summary \in {None, new} THEN "fail_record" ELSE "conflict"
    BY DEF PublishFailure, PublishesAs, WritesOnce, Written, Goto
  (* what is at hand, and where it is from *)
  <1>5. \/ /\ AllAccepted /\ verdict # None
           /\ Unfit = [outcome |-> verdict, why |-> "render"]
        \/ /\ at \in 1..N /\ FirstDead(at) /\ Unfit = SavedFailure(op[at])
           /\ pc = "fail"
        \/ Unfit.why = "live" /\ ~ Settled /\ reason # None
        \/ Unfit.why = "preflight" /\ reason # None /\ Unfit = reason
    <2>1. CASE pc = "fail"
      <3>1. /\ reason # None /\ at \in 1..N /\ Unfit = reason
            /\ \A j \in 1..(at - 1) : Accepted(j)
        BY <2>1 DEF RInv, IInv, SInv, PlaceOK, Busy, OperationStep, Unfit
      <3>2. QED BY <2>1, <3>1 DEF RInv, ReasonOK, FirstDead
    <2>2. CASE pc = "fail_publish"
      BY <1>1, <2>2 DEF RInv, ReasonOK, Unfit
    <2>3. QED BY <1>1, <2>1, <2>2
  <1>6. ReasonOK'
    BY <1>4 DEF ReasonOK
  <1>7. CASE summary = None
    <2>1. summary' = new /\ pc' = "fail_record"
      BY <1>4, <1>7
    <2>2. SettledOK'
      <3>1. SUFFICES ASSUME Settled' PROVE SettledOK'
        BY DEF SettledOK
      <3>2. Unfit.why \in {"saved", "content", "render"}
        BY <1>3, <2>1, <3>1 DEF Settled
      <3>3. summary'.calls = Calls' /\ summary'.failure = Unfit
        <4>1. Calls' = Calls
          BY <1>4 DEF Calls
        <4>2. QED BY <1>3, <2>1, <4>1
      <3>4. \/ /\ AllAccepted' /\ verdict' # None
               /\ Unfit = [outcome |-> verdict', why |-> "render"]
            \/ \E i \in 1..N : FirstDead(i)' /\ Unfit = SavedFailure(op'[i])
        BY <1>4, <1>5, <3>2 DEF AllAccepted, Accepted, FirstDead
      <3>5. QED BY <2>1, <3>3, <3>4 DEF SettledOK
    <2>3. FailureRepeats'
      BY <2>1 DEF FailureRepeats
    <2>4. QED BY <1>6, <2>2, <2>3
  <1>8. CASE summary # None
    <2>1. /\ summary' = summary /\ pc' \in {"fail_record", "conflict"}
          /\ summary \in Summary /\ summary.failure # None
      BY <1>1, <1>4, <1>8 DEF IsComplete, RInv, IInv, TypeOK
    <2>2. SettledOK'
      BY <1>4, <2>1, SettledStays
    <2>3. CASE ~ Settled
      <3>1. summary.failure.why \in {"preflight", "live"}
        BY <2>1, <2>3, <1>8 DEF Settled, Summary, Failure, Unrendered
      <3>2. QED BY <1>6, <2>1, <2>2, <3>1 DEF FailureRepeats
    <2>4. CASE Settled /\ Unfit.why = "preflight"
      <3>1. reason' # None /\ reason'.why = "preflight"
        BY <1>4, <1>5, <2>4 DEF SavedFailure
      <3>2. QED BY <1>6, <2>2, <3>1 DEF FailureRepeats
    <2>5. CASE Settled /\ Unfit.why # "preflight"
      <3>1. summary.failure = Unfit
        <4>1. CASE AllAccepted
          BY <1>5, <2>5, <4>1, DeadIsNotAccepted DEF RInv, SettledOK, AllAccepted, FirstDead
        <4>2. CASE ~ AllAccepted
          <5>1. /\ at \in 1..N /\ FirstDead(at) /\ Unfit = SavedFailure(op[at])
                /\ pc = "fail"
            BY <1>5, <2>5, <4>2
          <5>2. PICK i \in 1..N : FirstDead(i) /\ summary.failure = SavedFailure(op[i])
            BY <2>5, <4>2 DEF RInv, SettledOK
          <5>3. ~ Accepted(at)
            BY <5>1, DeadIsNotAccepted DEF FirstDead
          <5>4. at = i
            BY <5>1, <5>2, <5>3, AtFirstDead DEF RInv, IInv, Busy, OperationStep
          <5>5. QED BY <5>1, <5>2, <5>4
        <4>3. QED BY <4>1, <4>2
      <3>2. summary.calls = Calls
        BY <2>5 DEF RInv, SettledOK
      <3>3. summary = new
        BY <1>3, <2>1, <3>1, <3>2 DEF Summary
      <3>4. pc' = "fail_record"
        BY <1>4, <3>3
      <3>5. QED BY <1>6, <2>2, <3>4 DEF FailureRepeats
    <2>6. QED BY <2>3, <2>4, <2>5
  <1>9. QED BY <1>7, <1>8

(* A success is not in the way of a failure that is settled.               *)
LEMMA PublishDetermined ==
    ASSUME RInv, Publish PROVE SettledOK' /\ ReasonOK' /\ FailureRepeats'
  <1>1. AllAccepted /\ verdict = None
    BY DEF Publish, RInv, IInv, StepOK, Closing
  <1>2. ~ Settled
    BY <1>1, DeadIsNotAccepted DEF RInv, SettledOK, AllAccepted, FirstDead
  <1>3. ~ IsComplete
    BY DEF Publish, RInv, IInv, SummaryOK, Step
  <1>4. /\ pc' \in {"record", "conflict"}
        /\ \/ summary = None /\ pc' = "record" /\ summary' = SummaryOf(None)
           \/ summary # None /\ summary' = summary
    BY DEF Publish, PublishesAs, WritesOnce, Written, Goto
  <1>5. ~ Settled'
    BY <1>2, <1>4 DEF Settled, SummaryOf
  <1>6. SettledOK' /\ ReasonOK'
    BY <1>4, <1>5 DEF SettledOK, ReasonOK
  <1>7. FailureRepeats'
    <2>1. CASE summary = None
      BY <1>4, <2>1 DEF FailureRepeats
    <2>2. CASE summary # None
      <3>1. summary.failure.why \in {"preflight", "live"}
        BY <1>2, <1>3, <2>2 DEF Settled, IsComplete, RInv, IInv, TypeOK, Summary,
           Failure, Unrendered
      <3>2. QED BY <1>4, <2>2, <3>1 DEF FailureRepeats
    <2>3. QED BY <2>1, <2>2
  <1>8. QED BY <1>6, <1>7

(* No other step writes the summary or an operation's records.             *)
LEMMA OthersDetermined ==
    ASSUME RInv, UNCHANGED <<op, summary, verdict>>,
           Start \/ Reuse \/ Crash \/ Preflight \/ GoOn \/ Render \/ SaveOutput
             \/ OutputsDone \/ Record \/ RecordFailure \/ Load
    PROVE  SettledOK' /\ ReasonOK' /\ FailureRepeats'
  <1>1. SUFFICES /\ pc' \notin {"call", "judge", "accept", "conflict"}
                 /\ ReasonOK'
    BY SettledStays DEF FailureRepeats
  <1>2. CASE Start \/ Reuse \/ Crash
    BY <1>2 DEF Start, Begin, Reuse, Goto, Crash, Stop, ReasonOK
  <1>3. CASE Preflight
    <2>1. reason = None
      BY <1>3 DEF Preflight, RInv, ReasonOK
    <2>2. CASE pc' = "pick" /\ UNCHANGED reason
      BY <2>1, <2>2 DEF ReasonOK
    <2>3. CASE /\ pc' = "fail_publish"
               /\ reason' = [outcome |-> "runner_failed", why |-> "preflight"]
      <3>1. reason' # None
        BY <2>3, NoneAssumption DEF Failure
      <3>2. QED BY <2>3, <3>1 DEF ReasonOK
    <2>4. QED BY <1>3, <2>2, <2>3 DEF Preflight
  <1>4. CASE GoOn
    BY <1>4 DEF GoOn, ProceedTo, RInv, ReasonOK
  <1>5. CASE Render
    BY <1>5 DEF Render, Goto, RInv, IInv, StepOK, Closing, ReasonOK, AllAccepted, Accepted
  <1>6. CASE SaveOutput \/ OutputsDone \/ Load
    BY <1>6 DEF SaveOutput, OutputsDone, Load, Goto, sequence, ReasonOK
  <1>7. CASE Record
    <2>1. step \in {None, "completed"}
      BY <1>7 DEF Record, RInv, IInv, TypeOK, SummaryOK, IsComplete
    <2>2. pc' = "load"
      BY <1>7, <2>1 DEF Record, RecordsAs, WritesOnce, Goto
    <2>3. QED BY <2>2 DEF ReasonOK
  <1>8. CASE RecordFailure
    <2>1. /\ reason # None \/ verdict # None
          /\ step # "completed"
      BY <1>8 DEF RecordFailure, RInv, IInv, StepOK, SummaryOK, Step
    <2>2. Unfit.outcome \in FailureOutcome \cup RenderOutcome
      BY <2>1, UnfitIsFailure DEF RInv
    <2>3. pc' = Unfit.outcome
      BY <1>8, <2>1 DEF RecordFailure, RecordsAs, WritesOnce, Goto, RInv, IInv, TypeOK
    <2>4. QED BY <2>2, <2>3 DEF ReasonOK, FailureOutcome, RenderOutcome
  <1>9. QED BY <1>2, <1>3, <1>4, <1>5, <1>6, <1>7, <1>8

LEMMA NextDetermined == RInv /\ [Next]_vars => RInv'
  <1>1. SUFFICES ASSUME RInv, [Next]_vars PROVE SettledOK' /\ ReasonOK' /\ FailureRepeats'
    BY NextOK DEF RInv
  <1>2. CASE Perform BY <1>1, <1>2, PerformDetermined
  <1>3. CASE Publish BY <1>1, <1>3, PublishDetermined
  <1>4. CASE PublishFailure BY <1>1, <1>4, PublishFailureDetermined
  <1>5. CASE \/ Start \/ Reuse \/ Crash \/ Preflight \/ GoOn \/ Render \/ SaveOutput
             \/ OutputsDone \/ Record \/ RecordFailure \/ Load
    <2>1. UNCHANGED <<op, summary, verdict>>
      BY <1>5 DEF Start, Begin, Reuse, Goto, Crash, Stop, Preflight, GoOn, ProceedTo,
         Render, SaveOutput, OutputsDone, Record, RecordsAs, RecordFailure, WritesOnce,
         Load, saved, sequence
    <2>2. QED BY <1>1, <1>5, <2>1, OthersDetermined
  <1>6. CASE UNCHANGED vars
    <2>1. UNCHANGED <<op, pc, at, reason, summary, verdict>>
      BY <1>6 DEF vars, sequence
    <2>2. SettledOK' /\ (Settled' <=> Settled)
      BY <1>1, <2>1 DEF RInv, SettledOK, Settled, Calls, AllAccepted, Accepted, FirstDead
    <2>3. ReasonOK' /\ FailureRepeats'
      BY <1>1, <2>1, <2>2 DEF RInv, ReasonOK, FailureRepeats, AllAccepted, Accepted
    <2>4. QED BY <2>2, <2>3
  <1>7. QED BY <1>1, <1>2, <1>3, <1>4, <1>5, <1>6 DEF Next, Advance

(* A failure that the records determine is reported again by every later   *)
(* invocation, for any number of operations.                               *)
THEOREM FailureAgain == Spec => []FailureRepeats
  <1>1. RInv => FailureRepeats
    BY DEF RInv
  <1>2. QED BY <1>1, InitDetermined, NextDetermined, PTL DEF Spec

-----------------------------------------------------------------------------
(* Whatever was stopped, the phase is whole where it says it is complete,  *)
(* every end that is reported is the one that is saved, and an end that    *)
(* the records determine is reported again.                                *)
THEOREM PhaseWhole == Spec => []PhaseIsWhole
  <1>1. PhaseIsWhole <=>
          TypeOK /\ CompleteIsWhole /\ ReportsWhatIsSaved /\ FailureRepeats
    BY DEF PhaseIsWhole
  <1>2. QED BY <1>1, TypeCorrect, CompleteWhole, ReportsSaved, FailureAgain, PTL

(* Published records outlive every later step.                             *)
THEOREM NeverRewritten == Spec => RecordsNeverRewritten
  <1>1. ASSUME IInv, [Next]_vars
        PROVE  [/\ outputs \subseteq outputs'
                /\ summary # None => summary' = summary
                /\ step # None => step' = step
                /\ \A i \in 1..N : Accepted(i) => op'[i] = op[i]]_vars
    <2>1. Perform \/ op' = op
      BY <1>1 DEF Next, Advance, Start, Begin, Reuse, Crash, Stop, Preflight, GoOn,
         Render, SaveOutput, OutputsDone, Publish, PublishesAs, Record, RecordsAs,
         PublishFailure, RecordFailure, Load, WritesOnce, Goto, ProceedTo, vars, sequence
    <2>2. \A i \in 1..N : Accepted(i) => op'[i] = op[i]
      BY <1>1, <2>1, AcceptedStays DEF Perform, IInv
    <2>3. /\ outputs \subseteq outputs'
          /\ summary # None => summary' = summary
          /\ step # None => step' = step
      BY <1>1 DEF Next, Advance, Start, Reuse, Crash, Preflight, Perform, GoOn, Render,
         SaveOutput, OutputsDone, Publish, PublishesAs, Record, RecordsAs,
         PublishFailure, RecordFailure, Load, Written, vars, saved
    <2>4. QED BY <2>2, <2>3
  <1>2. QED BY <1>1, Invariant, PTL DEF Spec, RecordsNeverRewritten
-----------------------------------------------------------------------------
(* Phase7Run implements RecordedPhase: the summary is the ending.          *)

(* An end that is told, good or bad, is the one that is saved.             *)
LEMMA TellsWhatEnded ==
    IInv => /\ pc \in Step <=> Tells = "busy"
            /\ pc = "idle" => Tells = "silent"
            /\ pc \in Outcome => Tells \in {"open"} \cup ({Ended} \cap Recorded!Ending)
  <1> SUFFICES ASSUME IInv
               PROVE  /\ pc \in Step <=> Tells = "busy"
                      /\ pc = "idle" => Tells = "silent"
                      /\ pc \in Outcome =>
                            Tells \in {"open"} \cup ({Ended} \cap Recorded!Ending)
    OBVIOUS
  <1>1. pc \in {"idle"} \cup Step \cup Outcome
    BY DEF IInv, TypeOK
  <1>2. CASE pc = "idle"
    BY <1>2 DEF Tells, Step, OperationStep, Outcome, FailureOutcome, RenderOutcome
  <1>3. CASE pc \in Step
    BY <1>3 DEF Tells, Step, OperationStep, Outcome, FailureOutcome, RenderOutcome
  <1>4. CASE pc = "complete"
    <2>1. Tells = "complete"
      BY <1>4 DEF Tells, Step, OperationStep, FailureOutcome, RenderOutcome
    <2>2. Ended = "complete"
      BY <1>4 DEF Ended, IInv, ReportsWhatIsSaved, IsComplete
    <2>3. QED
      BY <1>4, <2>1, <2>2 DEF Recorded!Ending, Step, OperationStep
  <1>5. CASE pc \in FailureOutcome \cup RenderOutcome
    <2>1. summary # None /\ summary.failure # None
      BY <1>5 DEF IInv, ReportsWhatIsSaved, Outcome, FailureOutcome, RenderOutcome
    <2>2. Tells = "failed" /\ Ended = "failed"
      BY <1>5, <2>1 DEF Tells, Step, OperationStep, Ended, FailureOutcome, RenderOutcome
    <2>3. QED
      BY <1>5, <2>2 DEF Recorded!Ending, Step, OperationStep, FailureOutcome, RenderOutcome
  <1>6. CASE pc \in {"conflict", "unreadable"}
    BY <1>6 DEF Tells, Step, OperationStep, FailureOutcome, RenderOutcome
  <1>7. QED BY <1>1, <1>2, <1>3, <1>4, <1>5, <1>6 DEF Outcome

LEMMA TellsNext ==
    IInv' => /\ pc' \in Step <=> Tells' = "busy"
             /\ pc' = "idle" => Tells' = "silent"
             /\ pc' \in Outcome => Tells' \in {"open"} \cup ({Ended'} \cap Recorded!Ending)
  <1>1. (IInv => /\ pc \in Step <=> Tells = "busy"
                 /\ pc = "idle" => Tells = "silent"
                 /\ pc \in Outcome =>
                       Tells \in {"open"} \cup ({Ended} \cap Recorded!Ending))'
    BY TellsWhatEnded, PTL
  <1>2. QED BY <1>1 DEF Step, OperationStep, Outcome, FailureOutcome, RenderOutcome, Recorded!Ending

(* The step of an invocation under way is the work of the promise, as long *)
(* as it leaves a summary that is there alone.                             *)
LEMMA StepIsWork ==
    ASSUME IInv, IInv', pc \in Step, summary = None \/ summary' = summary
    PROVE  Recorded!Work
  <1>1. Tells = "busy"
    BY TellsWhatEnded
  <1>2. Ended' \in (IF Ended = None THEN Recorded!Ending \cup {None} ELSE {Ended})
    <2>1. summary = None => Ended = None
      BY DEF Ended
    <2>2. Ended' \in Recorded!Ending \cup {None}
      BY DEF Ended, Recorded!Ending
    <2>3. summary' = summary => Ended' = Ended
      BY DEF Ended
    <2>4. QED BY <2>1, <2>2, <2>3
  <1>3. Tells' \in {"busy", "silent", "open"} \cup ({Ended'} \cap Recorded!Ending)
    <2>1. pc' \in {"idle"} \cup Step \cup Outcome
      BY DEF IInv, TypeOK
    <2>2. QED BY <2>1, TellsNext DEF Recorded!Ending
  <1>4. QED BY <1>1, <1>2, <1>3 DEF Recorded!Work, Recorded!Ending

(* The phase ends for good at most once, and the end that an invocation    *)
(* reports is the one that is saved, for any number of operations.         *)
THEOREM PromiseKept == Spec => KeepsPhasePromise
  <1>1. Init => Recorded!Init
    BY InitOK, TellsWhatEnded DEF Init, SequenceInit, Recorded!Init, Ended
  <1>2. ASSUME IInv, IInv', [Next]_vars
        PROVE  [Recorded!Next]_Recorded!vars
    <2>1. CASE Start \/ Reuse
      <3>1. /\ pc \in {"idle"} \cup Outcome
            /\ pc' \in {"preflight", "load"} /\ summary' = summary
        BY <2>1 DEF Start, Begin, Reuse, Goto, saved
      <3>2. Tells # "busy"
        BY <1>2, <3>1, TellsWhatEnded
           DEF Step, OperationStep, Outcome, FailureOutcome, RenderOutcome
      <3>3. Tells' = "busy"
        BY <1>2, <3>1, TellsNext DEF Step
      <3>4. Ended' = Ended
        BY <3>1 DEF Ended
      <3>5. QED BY <3>2, <3>3, <3>4 DEF Recorded!Next, Recorded!Begin
    <2>2. CASE Crash \/ Advance
      <3>1. pc \in Step
        BY <2>2 DEF Crash, Advance, Preflight, Perform, Operate, Pick, Return, AskAgain,
           Judge, Accept, GoOn, Render, SaveOutput, OutputsDone, Publish, Record,
           PublishFailure, RecordFailure, Load, Step, OperationStep
      <3>2. summary = None \/ summary' = summary
        BY <2>2 DEF Crash, Advance, Preflight, Perform, GoOn, Render, SaveOutput,
           OutputsDone, Publish, PublishesAs, Record, RecordsAs, PublishFailure,
           RecordFailure, Load, Written, saved
      <3>3. QED BY <1>2, <3>1, <3>2, StepIsWork DEF Recorded!Next
    <2>3. CASE UNCHANGED vars
      <3>1. pc' = pc /\ summary' = summary
        BY <2>3 DEF vars, sequence
      <3>2. QED BY <3>1 DEF Ended, Tells, Recorded!vars
    <2>4. QED BY <1>2, <2>1, <2>2, <2>3 DEF Next
  <1>3. QED BY <1>1, <1>2, Invariant, PTL DEF Spec, KeepsPhasePromise, Recorded!Spec

-----------------------------------------------------------------------------
(* The public realization.                                                 *)
(* The steps that follow the end of a phase.                               *)
AfterPhase7 == {"trial", "copy", "publish"}

AfterScore == {"phase7"} \cup AfterPhase7

AfterPhase3 == {"score_gate", "score_open", "score_state", "score_work"} \cup AfterScore

AfterBundle == {"phase3", "phase3_work", "phase3_publish"} \cup AfterPhase3

AfterRoot == {"phase2", "bundle"} \cup AfterBundle

(* What a process knows of the output root where it stands.                *)
KnowsRoot(p) ==
    /\ pcs[p] \in Public!Step => req[p] \in Request
    /\ pcs[p] \in AfterRoot => root = req[p]
    /\ pcs[p] = "bundle" => Public!IsComplete("phase2")
    /\ pcs[p] \in AfterBundle /\ req[p] \in Flow => bundle # None
    /\ pcs[p] \in AfterPhase3 => Public!IsComplete("phase3")
    /\ pcs[p] \in AfterScore => Public!IsComplete("score")
    /\ pcs[p] \in AfterPhase7 => Public!IsComplete("phase7")
    /\ pcs[p] = "succeeded" => trial # None /\ root = req[p]

(* Nothing is saved before there is a root.                                *)
RootComesFirst == root = None => \A h \in Public!Phase : done[h] = None

PInv ==
    /\ Public!TypeOK
    /\ Public!NeverMixesRequests
    /\ Public!ResumesInOrder
    /\ RootComesFirst
    /\ \A p \in Proc : KnowsRoot(p)

(* What is published once stays.                                           *)
Grows ==
    /\ root # None => root' = root
    /\ \A h \in Public!Phase : Public!IsComplete(h) => done'[h] = "complete"
    /\ bundle # None => bundle' = bundle
    /\ trial # None => trial' = trial

(* Only p moves.                                                           *)
OnlyMoves(p) == \A q \in Proc \ {p} : pcs'[q] = pcs[q] /\ req'[q] = req[q]

-----------------------------------------------------------------------------
(* The phases, one by one.                                                 *)
LEMMA Phases ==
    /\ {"phase2", "phase3", "score", "phase7"} = Public!Phase
    /\ \A h \in Public!Phase : Public!Before[h] =
          IF h = "score" THEN {"phase3"}
          ELSE IF h = "phase7" THEN {"phase3", "score"} ELSE {}
  BY DEF Public!Phase, Public!Before

(* ResumesInOrder without the table of phases.                             *)
InOrder ==
    /\ done["score"] # None => Public!IsComplete("phase3")
    /\ done["phase7"] # None => Public!IsComplete("phase3") /\ Public!IsComplete("score")
    /\ root \in Flow /\ done["phase3"] # None => bundle # None
    /\ bundle # None => Public!IsComplete("phase2")
    /\ trial # None => /\ Public!IsComplete("phase3")
                       /\ Public!IsComplete("score")
                       /\ Public!IsComplete("phase7")

LEMMA OrderOfPhases == Public!ResumesInOrder <=> InOrder
  BY Phases DEF Public!ResumesInOrder, InOrder

OrderMeansThat == Public!ResumesInOrder <=> InOrder

LEMMA OrderOfPhasesNext == OrderMeansThat'
  <1>1. OrderMeansThat
    BY OrderOfPhases DEF OrderMeansThat
  <1>2. QED BY <1>1, PTL

(* What a process knows it keeps knowing while the others work.            *)
LEMMA OthersKnow ==
    ASSUME PInv, Grows, NEW q \in Proc, pcs'[q] = pcs[q], req'[q] = req[q]
    PROVE  KnowsRoot(q)'
  <1>1. KnowsRoot(q)
    BY DEF PInv
  <1>2. \A h \in Public!Phase : Public!IsComplete(h) => Public!IsComplete(h)'
    BY DEF Grows, Public!IsComplete
  <1>3. pcs[q] \in AfterRoot \cup {"succeeded"} => root = req[q] /\ root # None
    <2>1. CASE pcs[q] \in AfterRoot
      BY <1>1, <2>1, AbsentFileAssumption DEF KnowsRoot, AfterRoot, AfterBundle,
         AfterPhase3, AfterScore, AfterPhase7, Public!Step, Public!Working
    <2>2. CASE pcs[q] = "succeeded"
      <3>1. trial # None /\ root = req[q] /\ trial.from = root /\ trial.from \in Request
        BY <1>1, <2>2 DEF KnowsRoot, PInv, Public!NeverMixesRequests, Public!TypeOK,
           Public!Trial
      <3>2. QED BY <3>1, AbsentFileAssumption
    <2>3. QED BY <2>1, <2>2
  <1>4. /\ pcs'[q] \in Public!Step => req'[q] \in Request
        /\ pcs'[q] \in AfterRoot => root' = req'[q]
        /\ pcs'[q] = "succeeded" => trial' # None /\ root' = req'[q]
    BY <1>1, <1>3 DEF KnowsRoot, Grows
  <1>5. pcs'[q] \in AfterBundle /\ req'[q] \in Flow => bundle' # None
    BY <1>1 DEF KnowsRoot, Grows
  <1>6. /\ pcs'[q] = "bundle" => Public!IsComplete("phase2")'
        /\ pcs'[q] \in AfterPhase3 => Public!IsComplete("phase3")'
        /\ pcs'[q] \in AfterScore => Public!IsComplete("score")'
        /\ pcs'[q] \in AfterPhase7 => Public!IsComplete("phase7")'
    BY <1>1, <1>2, Phases DEF KnowsRoot
  <1>7. QED BY <1>4, <1>5, <1>6 DEF KnowsRoot

(* A step of p keeps the invariant when it keeps what is saved, and p      *)
(* knows what the place it goes to asks for.                               *)
LEMMA StepKeeps ==
    ASSUME PInv, NEW p \in Proc, OnlyMoves(p), Grows, Public!TypeOK', InOrder',
           Public!NeverMixesRequests', RootComesFirst', KnowsRoot(p)'
    PROVE  PInv'
  <1>1. \A q \in Proc \ {p} : KnowsRoot(q)'
    BY OthersKnow DEF OnlyMoves
  <1>2. \A q \in Proc : KnowsRoot(q)'
    BY <1>1
  <1>3. Public!ResumesInOrder'
    BY OrderOfPhasesNext DEF OrderMeansThat
  <1>4. QED BY <1>2, <1>3 DEF PInv

(* It suffices that p knows when the root is left as it is.                *)
LEMMA QuietStep ==
    ASSUME PInv, NEW p \in Proc, Public!TypeOK', OnlyMoves(p),
           UNCHANGED <<root, done, maker, bundle, trial>>, KnowsRoot(p)'
    PROVE  PInv' /\ Grows
  <1>1. Grows
    BY DEF Grows, Public!IsComplete
  <1>2. InOrder'
    BY OrderOfPhases DEF PInv, InOrder, Public!IsComplete
  <1>3. Public!NeverMixesRequests' /\ RootComesFirst'
    BY DEF PInv, Public!NeverMixesRequests, RootComesFirst
  <1>4. QED BY <1>1, <1>2, <1>3, StepKeeps

-----------------------------------------------------------------------------
(* Goes and Goto in the terms of the lemmas above.                         *)
LEMMA Going ==
    ASSUME PInv, NEW p \in Proc, NEW next, Public!Goes(p, next),
           next \in {"idle"} \cup Public!Step \cup Public!Outcome, UNCHANGED req
    PROVE  /\ pcs' \in [Proc -> {"idle"} \cup Public!Step \cup Public!Outcome]
           /\ pcs'[p] = next
           /\ OnlyMoves(p)
  BY DEF PInv, Public!TypeOK, Public!Goes, OnlyMoves

LEMMA GotoStep ==
    ASSUME PInv, NEW p \in Proc, NEW next, Public!Goto(p, next),
           next \in {"idle"} \cup Public!Step \cup Public!Outcome,
           pcs'[p] = next => KnowsRoot(p)'
    PROVE  PInv' /\ Grows
  <1>1. Public!Goes(p, next) /\ UNCHANGED <<Public!saved, req, temp, files>>
    BY DEF Public!Goto
  <1>2. Public!TypeOK'
    BY <1>1, Going DEF Public!saved, PInv, Public!TypeOK
  <1>3. QED BY <1>1, <1>2, Going, QuietStep DEF Public!saved

(* What p knows is said of what it and the root are.                       *)
KnowsAt(p, next) ==
    /\ next \in AfterRoot => req[p] \in Request /\ root = req[p]
    /\ next = "bundle" => Public!IsComplete("phase2")
    /\ next \in AfterBundle /\ req[p] \in Flow => bundle # None
    /\ next \in AfterPhase3 => Public!IsComplete("phase3")
    /\ next \in AfterScore => Public!IsComplete("score")
    /\ next \in AfterPhase7 => Public!IsComplete("phase7")
    /\ next = "succeeded" => trial # None /\ root = req[p]

(* A process that goes on in an unchanged root needs to know no more.      *)
LEMMA GoesOn ==
    ASSUME PInv, NEW p \in Proc, NEW next, pcs'[p] = next, KnowsAt(p, next),
           next \in Public!Step => req[p] \in Request,
           UNCHANGED <<root, done, bundle, trial, req>>
    PROVE  KnowsRoot(p)'
  BY DEF KnowsAt, KnowsRoot, Public!IsComplete

LEMMA GotoKeeps ==
    ASSUME PInv, NEW p \in Proc, NEW next, Public!Goto(p, next),
           next \in {"idle"} \cup Public!Step \cup Public!Outcome,
           KnowsAt(p, next), next \in Public!Step => req[p] \in Request
    PROVE  PInv' /\ Grows
  BY GotoStep, GoesOn DEF Public!Goto, Public!saved

(* The facts about the root by the step a process is at.                   *)
LEMMA KnownAt ==
    ASSUME PInv, NEW p \in Proc
    PROVE  /\ KnowsAt(p, pcs[p])
           /\ pcs[p] \in Public!Step => req[p] \in Request
  BY DEF PInv, KnowsRoot, KnowsAt, AfterRoot, AfterBundle, AfterPhase3, AfterScore,
     AfterPhase7, Public!Step, Public!Working

-----------------------------------------------------------------------------
(* The steps that only choose where to go on.                              *)
LEMMA EnsureRootKeeps ==
    ASSUME PInv, NEW p \in Proc, Public!EnsureRoot(p)
    PROVE  PInv' /\ Grows
  <1> DEFINE next == IF root = None THEN "place"
                     ELSE IF root = req[p] THEN Public!FirstWork(p) ELSE "conflict"
  <1>1. pcs[p] = "root" /\ Public!Goto(p, next)
    BY DEF Public!EnsureRoot
  <1>2. req[p] \in Request
    BY <1>1, KnownAt DEF Public!Step
  <1>3. next \in {"idle"} \cup Public!Step \cup Public!Outcome
    BY DEF Public!FirstWork, Public!Step, Public!Working, Public!Outcome
  <1>4. KnowsAt(p, next)
    BY <1>2 DEF KnowsAt, Public!FirstWork, AfterRoot, AfterBundle, AfterPhase3,
       AfterScore, AfterPhase7
  <1> HIDE DEF next
  <1>5. QED BY <1>1, <1>2, <1>3, <1>4, GotoKeeps

LEMMA Phase3Keeps ==
    ASSUME PInv, NEW p \in Proc, Public!Phase3(p)
    PROVE  PInv' /\ Grows
  <1>1. pcs[p] = "phase3" /\ req[p] \in Request /\ root = req[p]
        /\ (req[p] \in Flow => bundle # None)
    BY KnownAt DEF Public!Phase3, KnowsAt, AfterRoot, AfterBundle
  <1>2. PICK next \in {"phase3_work", "refused", "failed", "score_gate"} :
          Public!Goto(p, next) /\ (next = "score_gate" => Public!IsComplete("phase3"))
    BY DEF Public!Phase3
  <1>3. next \in {"idle"} \cup Public!Step \cup Public!Outcome
    BY DEF Public!Step, Public!Working, Public!Outcome
  <1>4. KnowsAt(p, next)
    BY <1>1, <1>2 DEF KnowsAt, AfterRoot, AfterBundle, AfterPhase3, AfterScore, AfterPhase7
  <1>5. QED BY <1>1, <1>2, <1>3, <1>4, GotoKeeps

LEMMA ScoreGateKeeps ==
    ASSUME PInv, NEW p \in Proc, Public!ScoreGate(p)
    PROVE  PInv' /\ Grows
  <1>1. pcs[p] = "score_gate" /\ req[p] \in Request
    BY KnownAt DEF Public!ScoreGate, Public!Step
  <1>2. PICK next \in {"refused", "score_open"} : Public!Goto(p, next)
    BY DEF Public!ScoreGate
  <1>3. next \in {"idle"} \cup Public!Step \cup Public!Outcome
    BY DEF Public!Step, Public!Outcome
  <1>4. KnowsAt(p, next)
    BY <1>1, KnownAt DEF KnowsAt, AfterRoot, AfterBundle, AfterPhase3, AfterScore,
       AfterPhase7
  <1>5. QED BY <1>1, <1>2, <1>3, <1>4, GotoKeeps

LEMMA GiveUpKeeps ==
    ASSUME PInv, NEW p \in Proc, Public!GiveUp(p)
    PROVE  PInv' /\ Grows
  <1>1. Public!Goto(p, "failed")
    BY DEF Public!GiveUp
  <1>2. KnowsAt(p, "failed")
    BY DEF KnowsAt, AfterRoot, AfterBundle, AfterPhase3, AfterScore, AfterPhase7
  <1>3. QED BY <1>1, <1>2, GotoKeeps DEF Public!Outcome, Public!Step, Public!Working

LEMMA CheckTrialKeeps ==
    ASSUME PInv, NEW p \in Proc, Public!CheckTrial(p)
    PROVE  PInv' /\ Grows
  <1>1. pcs[p] = "trial" /\ req[p] \in Request
    BY KnownAt DEF Public!CheckTrial, Public!Step
  <1>2. PICK next \in {"copy", "succeeded", "differs"} :
          Public!Goto(p, next) /\ (next = "succeeded" => trial # None)
    BY DEF Public!CheckTrial
  <1>3. next \in {"idle"} \cup Public!Step \cup Public!Outcome
    BY DEF Public!Step, Public!Outcome
  <1>4. KnowsAt(p, next)
    BY <1>1, <1>2, KnownAt DEF KnowsAt, AfterRoot, AfterBundle, AfterPhase3, AfterScore,
       AfterPhase7
  <1>5. QED BY <1>1, <1>2, <1>3, <1>4, GotoKeeps

-----------------------------------------------------------------------------
(* The steps that leave the root as it is and write beside it.             *)
LEMMA RewriteStateKeeps ==
    ASSUME PInv, NEW p \in Proc, Public!RewriteState(p)
    PROVE  PInv' /\ Grows
  <1>1. pcs[p] = "phase3_work" /\ req[p] \in Request
    BY KnownAt DEF Public!RewriteState, Public!Step, Public!Working
  <1>2. UNCHANGED <<root, done, maker, bundle, doubt, litter, trial, req, temp, files>>
        /\ state3' \in {"running", "complete"}
    BY DEF Public!RewriteState
  <1>3. PICK next \in {"phase3_work", "phase3_publish"} : Public!Goes(p, next)
    <2>1. CASE UNCHANGED pcs
      <3>1. Public!Goes(p, "phase3_work")
        BY <1>1, <2>1 DEF Public!Goes, PInv, Public!TypeOK
      <3>2. QED BY <3>1
    <2>2. CASE Public!Goes(p, "phase3_publish")
      BY <2>2
    <2>3. QED BY <2>1, <2>2 DEF Public!RewriteState
  <1>4. next \in {"idle"} \cup Public!Step \cup Public!Outcome
    BY DEF Public!Step, Public!Working
  <1>5. /\ pcs' \in [Proc -> {"idle"} \cup Public!Step \cup Public!Outcome]
        /\ pcs'[p] = next /\ OnlyMoves(p)
    BY <1>2, <1>3, <1>4, Going
  <1>6. Public!TypeOK'
    BY <1>2, <1>5 DEF PInv, Public!TypeOK
  <1>7. KnowsAt(p, next)
    BY <1>1, KnownAt DEF KnowsAt, AfterRoot, AfterBundle, AfterPhase3, AfterScore,
       AfterPhase7
  <1>8. KnowsRoot(p)'
    BY <1>1, <1>2, <1>5, <1>7, GoesOn
  <1>9. QED BY <1>2, <1>5, <1>6, <1>8, QuietStep

LEMMA OpenScoreKeeps ==
    ASSUME PInv, NEW p \in Proc, Public!OpenScore(p)
    PROVE  PInv' /\ Grows
  <1>1. pcs[p] = "score_open" /\ req[p] \in Request
    BY KnownAt DEF Public!OpenScore, Public!Step
  <1>2. /\ Public!Goes(p, "score_state") /\ temp' \in [Proc -> Temp \cup {None}]
        /\ UNCHANGED <<root, done, maker, bundle, state3, doubt, litter, trial, req, files>>
    BY DEF Public!OpenScore, Public!saved, PInv, Public!TypeOK
  <1>3. /\ pcs' \in [Proc -> {"idle"} \cup Public!Step \cup Public!Outcome]
        /\ pcs'[p] = "score_state" /\ OnlyMoves(p)
    BY <1>2, Going DEF Public!Step
  <1>4. Public!TypeOK'
    BY <1>2, <1>3 DEF PInv, Public!TypeOK
  <1>5. KnowsAt(p, "score_state")
    BY <1>1, KnownAt DEF KnowsAt, AfterRoot, AfterBundle, AfterPhase3, AfterScore,
       AfterPhase7
  <1>6. KnowsRoot(p)'
    BY <1>1, <1>2, <1>3, <1>5, GoesOn
  <1>7. QED BY <1>2, <1>3, <1>4, <1>6, QuietStep

LEMMA SaveRunStateKeeps ==
    ASSUME PInv, NEW p \in Proc, Public!SaveRunState(p)
    PROVE  PInv' /\ Grows
  <1> DEFINE next == IF Public!IsComplete("score") THEN "phase7" ELSE "score_work"
  <1>1. pcs[p] = "score_state" /\ req[p] \in Request
    BY KnownAt DEF Public!SaveRunState, Public!Step
  <1>2. /\ Public!Goes(p, next) /\ temp' \in [Proc -> Temp \cup {None}]
        /\ UNCHANGED <<root, done, maker, bundle, state3, doubt, litter, trial, req, files>>
    BY DEF Public!SaveRunState, Public!saved, PInv, Public!TypeOK
  <1>3. next \in {"idle"} \cup Public!Step \cup Public!Outcome
    BY DEF Public!Step, Public!Working
  <1>4. KnowsAt(p, next)
    BY <1>1, KnownAt DEF KnowsAt, AfterRoot, AfterBundle, AfterPhase3, AfterScore,
       AfterPhase7
  <1> HIDE DEF next
  <1>5. /\ pcs' \in [Proc -> {"idle"} \cup Public!Step \cup Public!Outcome]
        /\ pcs'[p] = next /\ OnlyMoves(p)
    BY <1>2, <1>3, Going
  <1>6. Public!TypeOK'
    BY <1>2, <1>5 DEF PInv, Public!TypeOK
  <1>7. KnowsRoot(p)'
    BY <1>1, <1>2, <1>4, <1>5, GoesOn
  <1>8. QED BY <1>2, <1>5, <1>6, <1>7, QuietStep

LEMMA CopyRunsKeeps ==
    ASSUME PInv, NEW p \in Proc, Public!CopyRuns(p)
    PROVE  PInv' /\ Grows
  <1>1. pcs[p] = "copy" /\ req[p] \in Request
    BY KnownAt DEF Public!CopyRuns, Public!Step
  <1>2. UNCHANGED <<root, done, maker, bundle, state3, doubt, litter, trial, req, temp>>
    BY DEF Public!CopyRuns, Public!saved
  <1>3. Public!Open \subseteq Temp
    BY DEF Public!Open, PInv, Public!TypeOK
  <1>4. PICK next \in {"publish", "failed"} : Public!Goes(p, next)
    BY DEF Public!CopyRuns
  <1>5. next \in {"idle"} \cup Public!Step \cup Public!Outcome
    BY DEF Public!Step, Public!Outcome
  <1>6. /\ pcs' \in [Proc -> {"idle"} \cup Public!Step \cup Public!Outcome]
        /\ pcs'[p] = next /\ OnlyMoves(p)
    BY <1>2, <1>4, <1>5, Going
  <1>7. files' \in [Proc -> SUBSET Temp]
    BY <1>3 DEF Public!CopyRuns, PInv, Public!TypeOK
  <1>8. Public!TypeOK'
    BY <1>2, <1>6, <1>7 DEF PInv, Public!TypeOK
  <1>9. KnowsAt(p, next)
    BY <1>1, KnownAt DEF KnowsAt, AfterRoot, AfterBundle, AfterPhase3, AfterScore,
       AfterPhase7
  <1>10. KnowsRoot(p)'
    BY <1>1, <1>2, <1>6, <1>9, GoesOn
  <1>11. QED BY <1>2, <1>6, <1>8, <1>10, QuietStep

(* An invocation starts with any request, and a process stops anywhere.    *)
LEMMA StartKeeps ==
    ASSUME PInv, NEW p \in Proc, Public!Start(p)
    PROVE  PInv' /\ Grows
  <1>1. PICK r \in Request :
          /\ pcs' = [pcs EXCEPT ![p] = "root"] /\ req' = [req EXCEPT ![p] = r]
          /\ files' = [files EXCEPT ![p] = {}]
          /\ UNCHANGED <<root, done, maker, bundle, state3, doubt, litter, trial, temp>>
    BY DEF Public!Start, Public!Goes, Public!saved
  <1>2. Public!TypeOK'
    BY <1>1 DEF PInv, Public!TypeOK, Public!Step
  <1>3. pcs'[p] = "root" /\ req'[p] = r /\ OnlyMoves(p)
    BY <1>1 DEF PInv, Public!TypeOK, OnlyMoves
  <1>4. KnowsRoot(p)'
    BY <1>3 DEF KnowsRoot, AfterRoot, AfterBundle, AfterPhase3, AfterScore, AfterPhase7
  <1>5. QED BY <1>1, <1>2, <1>3, <1>4, QuietStep

LEMMA CrashKeeps ==
    ASSUME PInv, NEW p \in Proc, Public!Crash(p)
    PROVE  PInv' /\ Grows
  <1>1. /\ Public!Goes(p, "idle")
        /\ litter' = litter \cup ({temp[p]} \ {None})
        /\ temp' = [temp EXCEPT ![p] = None]
        /\ doubt' \in {doubt, doubt \cup Public!LeavesDoubt(p)}
        /\ UNCHANGED <<root, done, maker, bundle, state3, trial, req, files>>
    BY DEF Public!Crash
  <1>2. Public!LeavesDoubt(p) \subseteq Public!Phase
    BY DEF Public!LeavesDoubt, Public!Phase
  <1>3. /\ pcs' \in [Proc -> {"idle"} \cup Public!Step \cup Public!Outcome]
        /\ pcs'[p] = "idle" /\ OnlyMoves(p)
    BY <1>1, Going
  <1>4. litter' \subseteq Temp /\ temp' \in [Proc -> Temp \cup {None}]
        /\ doubt' \subseteq Public!Phase
    BY <1>1, <1>2 DEF PInv, Public!TypeOK
  <1>5. Public!TypeOK'
    BY <1>1, <1>3, <1>4 DEF PInv, Public!TypeOK
  <1>6. KnowsRoot(p)'
    BY <1>3 DEF KnowsRoot, AfterRoot, AfterBundle, AfterPhase3, AfterScore, AfterPhase7,
       Public!Step, Public!Working
  <1>7. QED BY <1>1, <1>3, <1>5, <1>6, QuietStep

-----------------------------------------------------------------------------
(* The steps that publish.                                                 *)
LEMMA PlaceRootKeeps ==
    ASSUME PInv, NEW p \in Proc, Public!PlaceRoot(p)
    PROVE  PInv' /\ Grows
  <1> DEFINE next == IF root = None THEN Public!FirstWork(p) ELSE "conflict"
  <1>1. /\ pcs[p] = "place" /\ Public!Goes(p, next)
        /\ root' = IF root = None THEN req[p] ELSE root
        /\ UNCHANGED <<done, maker, bundle, state3, doubt, litter, trial, req, temp, files>>
    BY DEF Public!PlaceRoot
  <1>2. req[p] \in Request
    BY <1>1, KnownAt DEF Public!Step
  <1>3. next \in {"idle"} \cup Public!Step \cup Public!Outcome
    BY DEF Public!FirstWork, Public!Step, Public!Working, Public!Outcome
  <1>4. next \in {"phase2", "phase3", "conflict"}
        /\ (next # "conflict" => root' = req[p])
        /\ (next = "phase3" => req[p] \notin Flow)
    BY <1>1 DEF Public!FirstWork
  <1> HIDE DEF next
  <1>5. /\ pcs' \in [Proc -> {"idle"} \cup Public!Step \cup Public!Outcome]
        /\ pcs'[p] = next /\ OnlyMoves(p)
    BY <1>1, <1>3, Going
  <1>6. Public!TypeOK'
    BY <1>1, <1>2, <1>5 DEF PInv, Public!TypeOK
  <1>7. KnowsRoot(p)'
    BY <1>1, <1>2, <1>4, <1>5 DEF KnowsRoot, AfterRoot, AfterBundle, AfterPhase3,
       AfterScore, AfterPhase7
  <1>8. Grows
    BY <1>1 DEF Grows, Public!IsComplete
  <1>9. root' # None
    BY <1>1, <1>2, AbsentFileAssumption
  <1>10. Public!NeverMixesRequests'
    <2>1. trial # None => trial.from = root /\ trial.from \in Request
      BY DEF PInv, Public!NeverMixesRequests, Public!TypeOK, Public!Trial
    <2>2. trial # None => root # None
      BY <2>1, AbsentFileAssumption
    <2>3. QED BY <1>1, <2>1, <2>2 DEF PInv, Public!NeverMixesRequests
  <1>11. InOrder'
    BY <1>1, <1>9, OrderOfPhases, Phases DEF PInv, InOrder, RootComesFirst, Public!IsComplete
  <1>12. RootComesFirst'
    BY <1>9 DEF RootComesFirst
  <1>13. QED BY <1>5, <1>6, <1>7, <1>8, <1>10, <1>11, <1>12, StepKeeps

LEMMA CreateBundleKeeps ==
    ASSUME PInv, NEW p \in Proc, Public!CreateBundle(p)
    PROVE  PInv' /\ Grows
  <1> DEFINE next == IF bundle = None THEN "phase3" ELSE "failed"
  <1>1. /\ pcs[p] = "bundle" /\ Public!Goes(p, next)
        /\ bundle' = IF bundle = None THEN req[p] ELSE bundle
        /\ UNCHANGED <<root, done, maker, state3, doubt, litter, trial, req, temp, files>>
    BY DEF Public!CreateBundle
  <1>2. req[p] \in Request /\ root = req[p] /\ Public!IsComplete("phase2")
    BY <1>1, KnownAt DEF Public!Step, KnowsAt, AfterRoot
  <1>3. next \in {"idle"} \cup Public!Step \cup Public!Outcome
    BY DEF Public!Step, Public!Working, Public!Outcome
  <1>4. next \in {"phase3", "failed"}
    OBVIOUS
  <1> HIDE DEF next
  <1>5. /\ pcs' \in [Proc -> {"idle"} \cup Public!Step \cup Public!Outcome]
        /\ pcs'[p] = next /\ OnlyMoves(p)
    BY <1>1, <1>3, Going
  <1>6. Public!TypeOK'
    BY <1>1, <1>2, <1>5 DEF PInv, Public!TypeOK
  <1>7. bundle' # None
    BY <1>1, <1>2, AbsentFileAssumption
  <1>8. KnowsRoot(p)'
    BY <1>1, <1>2, <1>4, <1>5, <1>7 DEF KnowsRoot, AfterRoot, AfterBundle, AfterPhase3,
       AfterScore, AfterPhase7
  <1>9. Grows
    BY <1>1 DEF Grows, Public!IsComplete
  <1>10. Public!NeverMixesRequests' /\ RootComesFirst'
    BY <1>1, <1>2 DEF PInv, Public!NeverMixesRequests, RootComesFirst
  <1>11. InOrder'
    BY <1>1, <1>2, <1>7, OrderOfPhases DEF PInv, InOrder, Public!IsComplete
  <1>12. QED BY <1>5, <1>6, <1>8, <1>9, <1>10, <1>11, StepKeeps

(* A process that works in its root ends a phase that builds on others.    *)
LEMMA EndKeeps ==
    ASSUME PInv, NEW p \in Proc, NEW h \in Public!Phase, NEW end \in {"complete", "failed"},
           Public!Ends(p, h, end), OnlyMoves(p),
           pcs' \in [Proc -> {"idle"} \cup Public!Step \cup Public!Outcome],
           UNCHANGED <<root, bundle, state3, doubt, litter, trial, req, temp, files>>,
           root = req[p], req[p] \in Request,
           h = "phase3" /\ req[p] \in Flow => bundle # None,
           h \in {"score", "phase7"} => Public!IsComplete("phase3"),
           h = "phase7" => Public!IsComplete("score"),
           KnowsRoot(p)'
    PROVE  PInv' /\ Grows
  <1>1. /\ done[h] = None /\ done' = [done EXCEPT ![h] = end]
        /\ maker' = [maker EXCEPT ![h] = req[p]]
    BY DEF Public!Ends
  <1>2. Public!TypeOK'
    BY <1>1 DEF PInv, Public!TypeOK
  <1>3. done \in [Public!Phase -> {None, "complete", "failed"}]
    BY DEF PInv, Public!TypeOK
  <1>4. \A g \in Public!Phase : done'[g] = IF g = h THEN end ELSE done[g]
    BY <1>1, <1>3
  <1>5. Grows
    BY <1>1, <1>4, AbsentFileAssumption DEF Grows, Public!IsComplete
  <1>6. Public!NeverMixesRequests'
    BY <1>1 DEF PInv, Public!NeverMixesRequests, Public!TypeOK
  <1>7. RootComesFirst'
    BY AbsentFileAssumption DEF RootComesFirst
  <1>8. InOrder'
    <2>1. InOrder
      BY OrderOfPhases DEF PInv
    <2>2. \A g \in Public!Phase : Public!IsComplete(g) => Public!IsComplete(g)'
      BY <1>5 DEF Grows, Public!IsComplete
    <2>3. QED BY <1>4, <2>1, <2>2, Phases DEF InOrder
  <1>9. QED BY <1>2, <1>5, <1>6, <1>7, <1>8, StepKeeps

LEMMA CompileFlowKeeps ==
    ASSUME PInv, NEW p \in Proc, Public!CompileFlow(p)
    PROVE  PInv' /\ Grows
  <1>1. pcs[p] = "phase2" /\ req[p] \in Request /\ root = req[p]
    BY KnownAt DEF Public!CompileFlow, KnowsAt, AfterRoot
  <1>2. CASE bundle # None /\ Public!Goto(p, "phase3")
    <2>1. KnowsAt(p, "phase3")
      BY <1>1, <1>2 DEF KnowsAt, AfterRoot, AfterBundle, AfterPhase3, AfterScore, AfterPhase7
    <2>2. QED BY <1>1, <1>2, <2>1, GotoKeeps DEF Public!Step, Public!Working
  <1>3. CASE /\ bundle = None
             /\ \E end \in {"complete", "failed"} : Public!Ends(p, "phase2", end)
             /\ UNCHANGED <<root, bundle, state3, doubt, litter, trial, pcs, req, temp, files>>
    <2>1. PICK end \in {"complete", "failed"} : Public!Ends(p, "phase2", end)
      BY <1>3
    <2>2. KnowsRoot(p)'
      BY <1>1, <1>3 DEF KnowsRoot, AfterRoot, AfterBundle, AfterPhase3, AfterScore,
         AfterPhase7
    <2>3. OnlyMoves(p) /\ pcs' \in [Proc -> {"idle"} \cup Public!Step \cup Public!Outcome]
      BY <1>3 DEF OnlyMoves, PInv, Public!TypeOK
    <2>4. QED BY <1>1, <1>3, <2>1, <2>2, <2>3, Phases, EndKeeps
  <1>4. CASE bundle = None /\ Public!IsComplete("phase2") /\ Public!Goto(p, "bundle")
    <2>1. KnowsAt(p, "bundle")
      BY <1>1, <1>4 DEF KnowsAt, AfterRoot, AfterBundle, AfterPhase3, AfterScore, AfterPhase7
    <2>2. QED BY <1>1, <1>4, <2>1, GotoKeeps DEF Public!Step
  <1>5. QED BY <1>2, <1>3, <1>4 DEF Public!CompileFlow

LEMMA PublishPhase3Keeps ==
    ASSUME PInv, NEW p \in Proc, Public!PublishPhase3(p)
    PROVE  PInv' /\ Grows
  <1>1. /\ pcs[p] \in {"phase3_publish", "phase3_work"}
        /\ req[p] \in Request /\ root = req[p] /\ (req[p] \in Flow => bundle # None)
    BY KnownAt DEF Public!PublishPhase3, KnowsAt, AfterRoot, AfterBundle
  <1>2. UNCHANGED <<root, bundle, state3, doubt, litter, trial, req, temp, files>>
    BY DEF Public!PublishPhase3
  <1>3. ASSUME NEW next \in {"phase3", "failed"}, Public!Goes(p, next)
        PROVE  /\ pcs' \in [Proc -> {"idle"} \cup Public!Step \cup Public!Outcome]
               /\ pcs'[p] = next /\ OnlyMoves(p) /\ KnowsRoot(p)'
    <2>1. next \in {"idle"} \cup Public!Step \cup Public!Outcome
      BY DEF Public!Step, Public!Working, Public!Outcome
    <2>2. /\ pcs' \in [Proc -> {"idle"} \cup Public!Step \cup Public!Outcome]
          /\ pcs'[p] = next /\ OnlyMoves(p)
      BY <1>2, <1>3, <2>1, Going
    <2>3. KnowsRoot(p)'
      BY <1>1, <1>2, <2>2 DEF KnowsRoot, AfterRoot, AfterBundle, AfterPhase3, AfterScore,
         AfterPhase7
    <2>4. QED BY <2>2, <2>3
  <1>4. CASE /\ Public!Ends(p, "phase3", "complete") /\ Public!Goes(p, "phase3")
    BY <1>1, <1>2, <1>3, <1>4, Phases, EndKeeps
  <1>5. CASE /\ Public!Ends(p, "phase3", "failed") /\ Public!Goes(p, "failed")
    BY <1>1, <1>2, <1>3, <1>5, Phases, EndKeeps
  <1>6. CASE /\ Public!IsComplete("phase3") /\ Public!Goes(p, "phase3")
             /\ UNCHANGED <<done, maker>>
    <2>1. pcs' \in [Proc -> {"idle"} \cup Public!Step \cup Public!Outcome]
          /\ OnlyMoves(p) /\ KnowsRoot(p)'
      BY <1>3, <1>6
    <2>2. Public!TypeOK'
      BY <1>2, <1>6, <2>1 DEF PInv, Public!TypeOK
    <2>3. QED BY <1>2, <1>6, <2>1, <2>2, QuietStep
  <1>7. QED BY <1>4, <1>5, <1>6 DEF Public!PublishPhase3

LEMMA FinishScoreKeeps ==
    ASSUME PInv, NEW p \in Proc, Public!FinishScore(p)
    PROVE  PInv' /\ Grows
  <1>1. /\ pcs[p] = "score_work" /\ req[p] \in Request /\ root = req[p]
        /\ (req[p] \in Flow => bundle # None) /\ Public!IsComplete("phase3")
    BY KnownAt DEF Public!FinishScore, KnowsAt, AfterRoot, AfterBundle, AfterPhase3
  <1>2. UNCHANGED <<root, bundle, state3, doubt, litter, trial, req, temp, files>>
    BY DEF Public!FinishScore
  <1>3. CASE Public!Ends(p, "score", "complete") /\ Public!Goes(p, "phase7")
    <2>1. /\ pcs' \in [Proc -> {"idle"} \cup Public!Step \cup Public!Outcome]
          /\ pcs'[p] = "phase7" /\ OnlyMoves(p)
      BY <1>2, <1>3, Going DEF Public!Step, Public!Working
    <2>2. Public!IsComplete("score")' /\ Public!IsComplete("phase3")'
      BY <1>1, <1>3 DEF Public!Ends, Public!IsComplete, PInv, Public!TypeOK, Public!Phase
    <2>3. KnowsRoot(p)'
      BY <1>1, <1>2, <2>1, <2>2 DEF KnowsRoot, AfterRoot, AfterBundle, AfterPhase3,
         AfterScore, AfterPhase7
    <2>4. QED BY <1>1, <1>2, <1>3, <2>1, <2>3, Phases, EndKeeps
  <1>4. CASE Public!Goes(p, "failed") /\ UNCHANGED <<done, maker>>
    <2>1. Public!Goto(p, "failed")
      BY <1>2, <1>4 DEF Public!Goto, Public!saved
    <2>2. KnowsAt(p, "failed")
      BY DEF KnowsAt, AfterRoot, AfterBundle, AfterPhase3, AfterScore, AfterPhase7
    <2>3. QED BY <1>1, <2>1, <2>2, GotoKeeps DEF Public!Outcome
  <1>5. QED BY <1>3, <1>4 DEF Public!FinishScore

LEMMA Phase7Keeps ==
    ASSUME PInv, NEW p \in Proc, Public!Phase7(p)
    PROVE  PInv' /\ Grows
  <1>1. /\ pcs[p] = "phase7" /\ req[p] \in Request /\ KnowsAt(p, "phase7")
    BY KnownAt DEF Public!Phase7, Public!Step, Public!Working
  <1>2. CASE Public!IsComplete("phase7") /\ Public!Goto(p, "trial")
    <2>1. KnowsAt(p, "trial")
      BY <1>1, <1>2 DEF KnowsAt, AfterRoot, AfterBundle, AfterPhase3, AfterScore, AfterPhase7
    <2>2. QED BY <1>1, <1>2, <2>1, GotoKeeps DEF Public!Step
  <1>3. CASE /\ \E end \in {"complete", "failed"} : Public!Ends(p, "phase7", end)
             /\ UNCHANGED <<root, bundle, state3, doubt, litter, trial, pcs, req, temp, files>>
    <2>1. PICK end \in {"complete", "failed"} : Public!Ends(p, "phase7", end)
      BY <1>3
    <2>2. Public!IsComplete("score") /\ Public!IsComplete("phase3") /\ root = req[p]
          /\ (req[p] \in Flow => bundle # None)
      BY <1>1 DEF KnowsAt, AfterRoot, AfterBundle, AfterPhase3, AfterScore
    <2>3. Public!IsComplete("score")' /\ Public!IsComplete("phase3")'
      BY <2>1, <2>2 DEF Public!Ends, Public!IsComplete, PInv, Public!TypeOK, Public!Phase
    <2>4. KnowsRoot(p)'
      BY <1>1, <1>3, <2>2, <2>3 DEF KnowsRoot, AfterRoot, AfterBundle, AfterPhase3,
         AfterScore, AfterPhase7
    <2>5. OnlyMoves(p) /\ pcs' \in [Proc -> {"idle"} \cup Public!Step \cup Public!Outcome]
      BY <1>3 DEF OnlyMoves, PInv, Public!TypeOK
    <2>6. QED BY <1>1, <1>3, <2>1, <2>2, <2>4, <2>5, Phases, EndKeeps
  <1>4. QED BY <1>2, <1>3 DEF Public!Phase7

LEMMA PublishTrialKeeps ==
    ASSUME PInv, NEW p \in Proc, Public!PublishTrial(p)
    PROVE  PInv' /\ Grows
  <1> DEFINE next == IF trial = None THEN "succeeded" ELSE "failed"
             made == [from |-> req[p], files |-> files[p]]
  <1>1. /\ pcs[p] = "publish" /\ Public!Goes(p, next)
        /\ trial' = IF trial = None THEN made ELSE trial
        /\ UNCHANGED <<root, done, maker, bundle, state3, doubt, litter, req, temp, files>>
    BY DEF Public!PublishTrial
  <1>2. req[p] \in Request /\ root = req[p]
        /\ Public!IsComplete("phase3") /\ Public!IsComplete("score")
        /\ Public!IsComplete("phase7")
    BY <1>1, KnownAt DEF Public!Step, KnowsAt, AfterRoot, AfterBundle, AfterPhase3,
       AfterScore, AfterPhase7
  <1>3. made \in Public!Trial /\ made.from = req[p] /\ made # None
    <2>1. made \in Public!Trial
      BY <1>2 DEF Public!Trial, PInv, Public!TypeOK
    <2>2. QED BY <2>1, AbsentFileAssumption
  <1>4. next \in {"succeeded", "failed"}
    OBVIOUS
  <1> HIDE DEF next, made
  <1>5. /\ pcs' \in [Proc -> {"idle"} \cup Public!Step \cup Public!Outcome]
        /\ pcs'[p] = next /\ OnlyMoves(p)
    BY <1>1, <1>4, Going DEF Public!Outcome
  <1>6. Public!TypeOK'
    BY <1>1, <1>3, <1>5 DEF PInv, Public!TypeOK
  <1>7. trial' # None
    BY <1>1, <1>3
  <1>8. KnowsRoot(p)'
    BY <1>1, <1>2, <1>4, <1>5, <1>7 DEF KnowsRoot, AfterRoot, AfterBundle, AfterPhase3,
       AfterScore, AfterPhase7, Public!Step, Public!Working
  <1>9. Grows
    BY <1>1 DEF Grows, Public!IsComplete
  <1>10. Public!NeverMixesRequests' /\ RootComesFirst'
    BY <1>1, <1>2, <1>3 DEF PInv, Public!NeverMixesRequests, RootComesFirst
  <1>11. InOrder'
    BY <1>1, <1>2, OrderOfPhases DEF PInv, InOrder, Public!IsComplete
  <1>12. QED BY <1>5, <1>6, <1>8, <1>9, <1>10, <1>11, StepKeeps

-----------------------------------------------------------------------------
LEMMA PublicInitOK == Public!Init => PInv
  <1>1. SUFFICES ASSUME Public!Init PROVE PInv
    OBVIOUS
  <1>2. Public!TypeOK /\ RootComesFirst /\ Public!NeverMixesRequests
    BY <1>1, AbsentFileAssumption DEF Public!Init, Public!TypeOK, RootComesFirst,
       Public!NeverMixesRequests
  <1>3. InOrder
    BY <1>1, Phases DEF Public!Init, InOrder
  <1>4. \A p \in Proc : KnowsRoot(p)
    BY <1>1 DEF Public!Init, KnowsRoot, AfterRoot, AfterBundle, AfterPhase3, AfterScore,
       AfterPhase7, Public!Step, Public!Working
  <1>5. QED BY <1>2, <1>3, <1>4, OrderOfPhases DEF PInv

LEMMA ProcessStep ==
    ASSUME PInv, NEW p \in Proc,
           Public!Start(p) \/ Public!Crash(p) \/ Public!Advance(p)
    PROVE  PInv' /\ Grows
  <1>1. CASE Public!Start(p)
    BY <1>1, StartKeeps
  <1>2. CASE Public!Crash(p)
    BY <1>2, CrashKeeps
  <1>3. CASE Public!Advance(p)
    BY <1>3, EnsureRootKeeps, PlaceRootKeeps, CompileFlowKeeps, CreateBundleKeeps,
       Phase3Keeps, RewriteStateKeeps, PublishPhase3Keeps, ScoreGateKeeps, OpenScoreKeeps,
       SaveRunStateKeeps, FinishScoreKeeps, Phase7Keeps, GiveUpKeeps, CheckTrialKeeps,
       CopyRunsKeeps, PublishTrialKeeps
       DEF Public!Advance
  <1>4. QED BY <1>1, <1>2, <1>3

LEMMA PublicRests == ASSUME PInv, UNCHANGED public PROVE PInv' /\ Grows
  <1>1. Grows
    BY DEF public, Grows, Public!IsComplete
  <1>2. Public!TypeOK' /\ Public!NeverMixesRequests' /\ RootComesFirst' /\ InOrder'
    BY OrderOfPhases DEF public, PInv, Public!TypeOK, Public!NeverMixesRequests,
       RootComesFirst, InOrder, Public!IsComplete
  <1>3. \A p \in Proc : KnowsRoot(p)'
    BY DEF public, PInv, KnowsRoot, Public!IsComplete
  <1>4. QED BY <1>1, <1>2, <1>3, OrderOfPhasesNext DEF OrderMeansThat, PInv

-----------------------------------------------------------------------------
(* What one process that is invoked alone knows of the state of phase 3.   *)
LoadsAlone ==
    /\ Public!CompletePhaseLoads
    /\ pcs[First] = "phase3_work" => ~ Public!IsComplete("phase3")
    /\ pcs[First] = "phase3_publish" => state3 = "complete"

AloneInv == running = "alone" => LoadsAlone

LEMMA AloneStep ==
    ASSUME PInv, LoadsAlone,
           Public!Start(First) \/ Public!Crash(First) \/ Public!Advance(First)
    PROVE  LoadsAlone'
  <1> USE FirstAssumption
  <1>1. pcs \in [Proc -> {"idle"} \cup Public!Step \cup Public!Outcome]
        /\ done \in [Public!Phase -> {None, "complete", "failed"}]
    BY DEF PInv, Public!TypeOK
  <1>2. CASE Public!RewriteState(First)
    BY <1>1, <1>2 DEF Public!RewriteState, Public!Goes, LoadsAlone, Public!IsComplete,
       Public!CompletePhaseLoads
  <1>3. CASE Public!PublishPhase3(First)
    BY <1>1, <1>3, Phases DEF Public!PublishPhase3, Public!Ends, Public!Goes, LoadsAlone,
       Public!IsComplete, Public!CompletePhaseLoads
  <1>4. CASE Public!Phase3(First)
    BY <1>1, <1>4 DEF Public!Phase3, Public!Goto, Public!Goes, Public!saved, LoadsAlone,
       Public!IsComplete, Public!CompletePhaseLoads
  <1>5. ASSUME UNCHANGED state3, done'["phase3"] = done["phase3"],
               pcs'[First] \notin {"phase3_work", "phase3_publish"}
        PROVE  LoadsAlone'
    BY <1>5 DEF LoadsAlone, Public!IsComplete, Public!CompletePhaseLoads
  <1>6. CASE Public!Start(First) \/ Public!Crash(First)
    BY <1>1, <1>5, <1>6 DEF Public!Start, Public!Crash, Public!Goes, Public!saved
  <1>7. CASE Public!EnsureRoot(First) \/ Public!PlaceRoot(First) \/ Public!CreateBundle(First)
    BY <1>1, <1>5, <1>7 DEF Public!EnsureRoot, Public!PlaceRoot, Public!CreateBundle,
       Public!Goto, Public!Goes, Public!saved, Public!FirstWork
  <1>8. CASE Public!CompileFlow(First)
    BY <1>1, <1>5, <1>8, Phases DEF Public!CompileFlow, Public!Ends, Public!Goto,
       Public!Goes, Public!saved
  <1>9. CASE Public!ScoreGate(First) \/ Public!OpenScore(First) \/ Public!SaveRunState(First)
    BY <1>1, <1>5, <1>9 DEF Public!ScoreGate, Public!OpenScore, Public!SaveRunState,
       Public!Goto, Public!Goes, Public!saved
  <1>10. CASE Public!FinishScore(First)
    BY <1>1, <1>5, <1>10, Phases DEF Public!FinishScore, Public!Ends, Public!Goes
  <1>11. CASE Public!Phase7(First)
    BY <1>1, <1>5, <1>11, Phases DEF Public!Phase7, Public!Ends, Public!Goto, Public!Goes,
       Public!saved
  <1>12. CASE \/ Public!GiveUp(First) \/ Public!CheckTrial(First)
              \/ Public!CopyRuns(First) \/ Public!PublishTrial(First)
    BY <1>1, <1>5, <1>12 DEF Public!GiveUp, Public!CheckTrial, Public!CopyRuns,
       Public!PublishTrial, Public!Goto, Public!Goes, Public!saved
  <1>13. QED BY <1>2, <1>3, <1>4, <1>6, <1>7, <1>8, <1>9, <1>10, <1>11, <1>12
            DEF Public!Advance

-----------------------------------------------------------------------------
WholeInv == PInv /\ AloneInv

LEMMA RealizationInitOK == RealizationInit => WholeInv
  <1>1. SUFFICES ASSUME RealizationInit PROVE WholeInv
    OBVIOUS
  <1>2. PInv
    BY <1>1, PublicInitOK DEF RealizationInit
  <1>3. AloneInv
    BY <1>1, FirstAssumption, AbsentFileAssumption, Phases
       DEF RealizationInit, Public!Init, AloneInv, LoadsAlone, Public!IsComplete,
       Public!CompletePhaseLoads
  <1>4. QED BY <1>2, <1>3 DEF WholeInv

LEMMA RealizationStep ==
    WholeInv /\ [RunPhase7 \/ RunPublic]_realization => WholeInv' /\ Grows
  <1>1. SUFFICES ASSUME WholeInv, [RunPhase7 \/ RunPublic]_realization PROVE WholeInv' /\ Grows
    OBVIOUS
  <1>2. CASE RunPublic /\ running = "shared" /\ Public!Next
    <2>1. PInv' /\ Grows
      BY <1>1, <1>2, ProcessStep DEF WholeInv, Public!Next
    <2>2. AloneInv'
      BY <1>2 DEF RunPublic, AloneInv
    <2>3. QED BY <2>1, <2>2 DEF WholeInv
  <1>3. CASE /\ RunPublic /\ running = "alone"
             /\ Public!Start(First) \/ Public!Crash(First) \/ Public!Advance(First)
    <2>1. PInv' /\ Grows
      BY <1>1, <1>3, ProcessStep, FirstAssumption DEF WholeInv
    <2>2. LoadsAlone'
      BY <1>1, <1>3, AloneStep DEF WholeInv, AloneInv
    <2>3. QED BY <2>1, <2>2 DEF WholeInv, AloneInv
  <1>4. CASE UNCHANGED public /\ UNCHANGED running
    <2>1. PInv' /\ Grows
      BY <1>1, <1>4, PublicRests DEF WholeInv
    <2>2. AloneInv'
      BY <1>1, <1>4 DEF WholeInv, AloneInv, LoadsAlone, public, Public!IsComplete,
         Public!CompletePhaseLoads
    <2>3. QED BY <2>1, <2>2 DEF WholeInv
  <1>5. QED BY <1>1, <1>2, <1>3, <1>4 DEF RunPhase7, RunPublic, realization

LEMMA InvariantOfRealization == RealizationSpec => []WholeInv
  <1>1. WholeInv /\ [RunPhase7 \/ RunPublic]_realization => WholeInv'
    BY RealizationStep
  <1>2. QED BY RealizationInitOK, <1>1, PTL DEF RealizationSpec

(* Whatever runs, phase 7 only takes its own steps.                        *)
LEMMA Phase7Runs == RealizationSpec => Spec
  <1>1. RealizationInit => Init
    BY DEF RealizationInit
  <1>2. [RunPhase7 \/ RunPublic]_realization => [Next]_vars
    BY DEF RunPhase7, RunPublic, realization
  <1>3. QED BY <1>1, <1>2, PTL DEF RealizationSpec, Spec

-----------------------------------------------------------------------------
(* However many processes work in one output root with whatever requests,  *)
(* what it holds was made for its request, in the order of the phases, and *)
(* success is told over a trial bundle of that request; one invocation at  *)
(* a time leaves a complete phase 3 that loads (v2_public_realization).    *)
THEOREM RequestsApart == RealizationSpec => []RequestsStayApart
  <1>1. WholeInv => RequestsStayApart
    <2>1. SUFFICES ASSUME WholeInv PROVE RequestsStayApart
      OBVIOUS
    <2>2. Public!SuccessIsATrial
      <3>1. SUFFICES ASSUME NEW p \in Proc, pcs[p] = "succeeded"
                     PROVE  trial # None /\ trial.from = req[p]
        BY DEF Public!SuccessIsATrial
      <3>2. QED BY <2>1, <3>1 DEF WholeInv, PInv, KnowsRoot, Public!NeverMixesRequests
    <2>3. QED BY <2>1, <2>2 DEF WholeInv, PInv, AloneInv, LoadsAlone, RequestsStayApart
  <1>2. QED BY InvariantOfRealization, <1>1, PTL

(* The root, the end of a phase, the composition bundle and the trial      *)
(* bundle are never replaced, by however many processes.                   *)
THEOREM PublishedStays == RealizationSpec => PublishedIsFinal
  <1>1. WholeInv /\ [RunPhase7 \/ RunPublic]_realization => [Grows]_Public!saved
    BY RealizationStep
  <1>2. [Grows]_Public!saved =>
          [/\ root # None => root' = root
           /\ \A h \in Public!Phase : Public!IsComplete(h) => done'[h] = "complete"
           /\ bundle # None => bundle' = bundle
           /\ trial # None => trial' = trial]_Public!saved
    BY DEF Grows
  <1>3. QED BY InvariantOfRealization, <1>1, <1>2, PTL
            DEF RealizationSpec, PublishedIsFinal, Public!PublishedIsFinal

(* Phase 7 stays whole and keeps its promise beside it.                    *)
THEOREM Phase7StaysWhole == RealizationSpec => []PhaseIsWhole
  BY Phase7Runs, PhaseWhole, PTL

(* Phase 7 ends for good at most once also there.                          *)
THEOREM Phase7KeepsPromise == RealizationSpec => KeepsPhasePromise
  BY Phase7Runs, PromiseKept, PTL
=============================================================================
