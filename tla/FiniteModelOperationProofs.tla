---------------------- MODULE FiniteModelOperationProofs ----------------------
(***************************************************************************)
(* Theorems about FiniteModelOperation.  The first part holds for any      *)
(* number of processes working in the same unlocked run directory.  The    *)
(* second is about one process that is stopped and invoked again (Alone):  *)
(* two of them can ask three times.                                        *)
(***************************************************************************)
EXTENDS FiniteModelOperation, SequenceTheorems, FiniteSetTheorems, TLAPS

(* A process between reserving an attempt and saving how its call ended.   *)
Calling(p) == pc[p] \in {"call", "stage", "finalize"}

(* A process working on an attempt whose end is saved.                     *)
Judging(p) == pc[p] \in {"validate", "write_validation", "ticket",
                         "write_ticket", "accept", "write_accepted"}

ValidAnswer(a) ==
    a.terminal = "completed" /\ a.staged \in Valid /\ a.validation = "valid"

(* What a process knows of the attempt its next step works on.             *)
PositionOK(p) ==
    /\ pc[p] \in {"stage", "finalize"} => run[p] \in RunnerResult
    /\ Calling(p) => /\ cur[p] \in 1..Len(attempts)
                     /\ attempts[cur[p]].terminal = None
                     /\ attempts[cur[p]].validation = None
    /\ pc[p] = "finalize" => attempts[cur[p]].staged = run[p].raw
    /\ Judging(p) => /\ cur[p] \in 1..Len(attempts)
                     /\ attempts[cur[p]].terminal # None
                     /\ attempts[cur[p]].staged \in Response
    /\ pc[p] \in {"accept", "write_accepted"} => ValidAnswer(attempts[cur[p]])
    /\ pc[p] \in {"number", "count", "rename"} /\ repairing[p]
       => source[p] \in Response
    /\ pc[p] = "write_ticket" => source[p] \in Response

(* What the records of one attempt say of each other.                      *)
AttemptOK(a) ==
    /\ a.terminal = "completed" => a.staged \in Response
    /\ a.validation = "valid" => ValidAnswer(a)

IInv ==
    /\ TypeOK
    /\ \A n \in 1..Len(attempts) : AttemptOK(attempts[n])
    /\ \A p \in Proc : PositionOK(p)
    /\ AttemptIsExclusive
    /\ AcceptedIsLinked

(* An attempt whose end is saved keeps its answer and its approval.        *)
Settled(old, new) ==
    /\ old.terminal # None => /\ new.terminal = old.terminal
                              /\ new.staged = old.staged
    /\ old.validation = "valid" => new.validation = "valid"

-----------------------------------------------------------------------------
(* The records a step may add to one attempt leave the others alone.       *)
LEMMA OneSaved ==
    ASSUME NEW S, NEW s \in Seq(S), NEW i \in 1..Len(s), NEW a \in S,
           NEW t, t = [s EXCEPT ![i] = a]
    PROVE  /\ t \in Seq(S)
           /\ Len(t) = Len(s)
           /\ t[i] = a
           /\ \A n \in 1..Len(s) : n # i => t[n] = s[n]
  BY ExceptSeq

(* Reserving an attempt keeps the earlier ones.                            *)
LEMMA OneReserved ==
    ASSUME NEW S, NEW s \in Seq(S), NEW a \in S, NEW t, t = Append(s, a)
    PROVE  /\ t \in Seq(S)
           /\ Len(t) = Len(s) + 1
           /\ t[Len(s) + 1] = a
           /\ \A n \in 1..Len(s) : t[n] = s[n]
  BY AppendProperties

(* A step of another process does not touch the memory of process q.       *)
Resting(q) ==
    /\ pc'[q] = pc[q]
    /\ cur'[q] = cur[q]
    /\ run'[q] = run[q]
    /\ repairing'[q] = repairing[q]
    /\ source'[q] = source[q]

-----------------------------------------------------------------------------
LEMMA InitOK == Init => IInv
  BY ResponseAssumption, LimitAssumption
     DEF Init, IInv, TypeOK, PositionOK, Calling, Judging, AttemptIsExclusive,
         AcceptedIsLinked

(* The invariant is kept by a step that changes memory only, as long as    *)
(* the process that takes it knows where it is.                            *)
LEMMA MemoryStep ==
    ASSUME IInv, NEW p \in Proc, UNCHANGED records, TypeOK',
           \A q \in Proc \ {p} : Resting(q),
           PositionOK(p)',
           ~ Calling(p)' \/ (Calling(p) /\ cur'[p] = cur[p])
    PROVE  IInv'
  <1>1. attempts' = attempts /\ ticket' = ticket /\ accepted' = accepted
    BY DEF records
  <1>2. \A q \in Proc : PositionOK(q)'
    <2>1. ASSUME NEW q \in Proc, q # p PROVE PositionOK(q)'
      BY <2>1, <1>1 DEF Resting, IInv, PositionOK, Calling, Judging, ValidAnswer
    <2>2. QED BY <2>1
  <1>3. AttemptIsExclusive'
    BY <1>1 DEF Resting, IInv, AttemptIsExclusive, Calling
  <1>4. AcceptedIsLinked'
    BY <1>1 DEF IInv, AcceptedIsLinked, Intact
  <1>5. \A n \in 1..Len(attempts') : AttemptOK(attempts'[n])
    BY <1>1 DEF IInv
  <1>6. QED BY <1>2, <1>3, <1>4, <1>5 DEF IInv

-----------------------------------------------------------------------------
(* The actions that change nothing but the memory of the process.          *)
LEMMA StartOK == ASSUME IInv, NEW p \in Proc, Start(p) PROVE IInv'
  <1>1. TypeOK'
    BY DEF Start, Goto, Forget, records, IInv, TypeOK, Step
  <1>2. PositionOK(p)' /\ ~ Calling(p)'
    BY DEF Start, Goto, Forget, IInv, TypeOK, PositionOK, Calling, Judging
  <1>3. QED
    BY <1>1, <1>2, MemoryStep DEF Resting, Start, Goto, Forget, IInv, TypeOK

LEMMA CrashOK == ASSUME IInv, NEW p \in Proc, Crash(p) PROVE IInv'
  <1>1. TypeOK'
    BY DEF Crash, Goto, Forget, records, IInv, TypeOK
  <1>2. PositionOK(p)' /\ ~ Calling(p)'
    BY DEF Crash, Goto, Forget, IInv, TypeOK, PositionOK, Calling, Judging
  <1>3. QED
    BY <1>1, <1>2, MemoryStep DEF Resting, Crash, Goto, Forget, IInv, TypeOK

LEMMA ReadAcceptedOK == ASSUME IInv, NEW p \in Proc, ReadAccepted(p) PROVE IInv'
  <1>1. TypeOK'
    BY DEF ReadAccepted, Goto, records, IInv, TypeOK, Step, Outcome
  <1>2. PositionOK(p)' /\ ~ Calling(p)'
    BY DEF ReadAccepted, Goto, IInv, TypeOK, PositionOK, Calling, Judging
  <1>3. QED
    BY <1>1, <1>2, MemoryStep DEF Resting, ReadAccepted, Goto, IInv, TypeOK

LEMMA InspectAttemptsOK ==
    ASSUME IInv, NEW p \in Proc, InspectAttempts(p) PROVE IInv'
  <1>1. attempts \in Seq(Attempt)
    BY DEF IInv, TypeOK
  <1>2. TypeOK'
    <2>1. IsRepaired \in BOOLEAN
      BY <1>1, LenProperties DEF IsRepaired
    <2>2. QED
      BY <1>1, <2>1, LenProperties
         DEF InspectAttempts, Goto, records, IInv, TypeOK, Step, Outcome
  <1>3. CASE pc'[p] = "validate"
    <2>1. attempts # <<>> /\ Unfinished = {} /\ Latest.staged # None
      BY <1>3 DEF InspectAttempts, NothingAsked, Answered, Goto, IInv, TypeOK
    <2>2. Len(attempts) \in 1..Len(attempts)
      BY <1>1, <2>1, EmptySeq
    <2>3. Latest.terminal # None
      BY <2>1, <2>2 DEF Unfinished, Latest
    <2>4. Latest.staged \in Response
      <3>1. Latest \in Attempt
        BY <1>1, <2>2, ElementOfSeq DEF Latest
      <3>2. QED BY <2>1, <3>1 DEF Attempt
    <2>5. PositionOK(p)' /\ ~ Calling(p)'
      BY <1>3, <2>2, <2>3, <2>4
         DEF InspectAttempts, records, Latest, IInv, TypeOK, PositionOK,
             Calling, Judging
    <2>6. QED BY <1>2, <2>5, MemoryStep DEF Resting, InspectAttempts, Goto, IInv, TypeOK
  <1>4. CASE pc'[p] = "number"
    <2>1. Len(attempts) = 0
      BY <1>4, EmptySeq DEF InspectAttempts, NothingAsked, Goto, IInv, TypeOK
    <2>2. ~ repairing'[p]
      <3>1. ~ (Len(attempts) > 1)
        BY <2>1
      <3>2. repairing'[p] = (Len(attempts) > 1)
        BY Zenon DEF InspectAttempts, IsRepaired, IInv, TypeOK
      <3>3. QED BY <3>1, <3>2
    <2>3. PositionOK(p)' /\ ~ Calling(p)'
      BY <1>4, <2>2 DEF PositionOK, Calling, Judging
    <2>4. QED BY <1>2, <2>3, MemoryStep DEF Resting, InspectAttempts, Goto, IInv, TypeOK
  <1>5. CASE pc'[p] \in {"runner_failed", "interrupted"}
    <2>1. PositionOK(p)' /\ ~ Calling(p)'
      BY <1>5 DEF InspectAttempts, IInv, TypeOK, PositionOK, Calling, Judging
    <2>2. QED BY <1>2, <2>1, MemoryStep DEF Resting, InspectAttempts, Goto, IInv, TypeOK
  <1>6. QED
    BY <1>3, <1>4, <1>5 DEF InspectAttempts, Goto, IInv, TypeOK

LEMMA CheckLimitOK == ASSUME IInv, NEW p \in Proc, CheckLimit(p) PROVE IInv'
  <1>1. TypeOK'
    BY DEF CheckLimit, Goto, records, IInv, TypeOK, Step, Outcome
  <1>2. PositionOK(p)' /\ ~ Calling(p)'
    BY DEF CheckLimit, Goto, IInv, TypeOK, PositionOK, Calling, Judging
  <1>3. QED
    BY <1>1, <1>2, MemoryStep DEF Resting, CheckLimit, Goto, IInv, TypeOK

LEMMA NumberAttemptOK ==
    ASSUME IInv, NEW p \in Proc, NumberAttempt(p) PROVE IInv'
  <1>1. TypeOK'
    BY LenProperties DEF NumberAttempt, Goto, records, IInv, TypeOK, Step
  <1>2. PositionOK(p)' /\ ~ Calling(p)'
    BY DEF NumberAttempt, Goto, IInv, TypeOK, PositionOK, Calling, Judging
  <1>3. QED
    BY <1>1, <1>2, MemoryStep DEF Resting, NumberAttempt, Goto, IInv, TypeOK

LEMMA AttemptTakenOK ==
    ASSUME IInv, NEW p \in Proc, AttemptTaken(p) PROVE IInv'
  <1>1. TypeOK'
    BY DEF AttemptTaken, Goto, records, IInv, TypeOK, Outcome
  <1>2. PositionOK(p)' /\ ~ Calling(p)'
    BY DEF AttemptTaken, Goto, IInv, TypeOK, PositionOK, Calling, Judging
  <1>3. QED
    BY <1>1, <1>2, MemoryStep DEF Resting, AttemptTaken, Goto, IInv, TypeOK

LEMMA CallRunnerOK == ASSUME IInv, NEW p \in Proc, CallRunner(p) PROVE IInv'
  <1>1. TypeOK'
    BY DEF CallRunner, Goto, records, IInv, TypeOK, Step
  <1>2. PositionOK(p)'
    BY DEF CallRunner, Goto, records, IInv, TypeOK, PositionOK, Calling, Judging
  <1>3. Calling(p) /\ cur'[p] = cur[p]
    BY DEF CallRunner, Calling
  <1>4. QED
    BY <1>1, <1>2, <1>3, MemoryStep DEF Resting, CallRunner, Goto, IInv, TypeOK

LEMMA CheckValidationOK ==
    ASSUME IInv, NEW p \in Proc, CheckValidation(p) PROVE IInv'
  <1>1. TypeOK'
    BY DEF CheckValidation, SaveOnce, AfterValidation, Goto, records, IInv, TypeOK,
           Step, Outcome
  <1>2. /\ cur[p] \in 1..Len(attempts)
        /\ attempts[cur[p]].terminal # None
        /\ attempts[cur[p]].staged \in Response
        /\ attempts[cur[p]] \in Attempt
    BY ElementOfSeq DEF CheckValidation, IInv, TypeOK, PositionOK, Judging
  <1>3. pc'[p] = "accept" => ValidAnswer(attempts[cur[p]])
    BY <1>2, ResponseAssumption
       DEF CheckValidation, SaveOnce, AfterValidation, Judgement, ValidAnswer,
           Goto, IInv, TypeOK
  <1>4. pc'[p] \in {"write_validation", "accept", "content_invalid", "ticket",
                    "conflict"}
    BY DEF CheckValidation, SaveOnce, AfterValidation, Goto, IInv, TypeOK
  <1>5. PositionOK(p)' /\ ~ Calling(p)'
    BY <1>2, <1>3, <1>4
       DEF CheckValidation, records, IInv, TypeOK, PositionOK, Calling, Judging,
           ValidAnswer
  <1>6. QED
    BY <1>1, <1>5, MemoryStep
       DEF Resting, CheckValidation, SaveOnce, Goto, IInv, TypeOK

LEMMA CheckTicketOK ==
    ASSUME IInv, NEW p \in Proc, CheckTicket(p) PROVE IInv'
  <1>1. /\ cur[p] \in 1..Len(attempts)
        /\ attempts[cur[p]].terminal # None
        /\ attempts[cur[p]].staged \in Response
    BY DEF CheckTicket, IInv, PositionOK, Judging
  <1>2. TypeOK'
    BY <1>1 DEF CheckTicket, SaveOnce, Repairs, Goto, records, IInv, TypeOK, Step, Outcome
  <1>3. pc'[p] \in {"write_ticket", "number", "conflict"}
    BY DEF CheckTicket, SaveOnce, Goto, IInv, TypeOK
  <1>4. source'[p] \in Response
    BY <1>1 DEF CheckTicket, Repairs, IInv, TypeOK
  <1>5. PositionOK(p)' /\ ~ Calling(p)'
    BY <1>1, <1>3, <1>4
       DEF CheckTicket, records, IInv, TypeOK, PositionOK, Calling, Judging
  <1>6. QED
    BY <1>2, <1>5, MemoryStep
       DEF Resting, CheckTicket, SaveOnce, Repairs, Goto, IInv, TypeOK

LEMMA CheckAcceptedOK ==
    ASSUME IInv, NEW p \in Proc, CheckAccepted(p) PROVE IInv'
  <1>1. TypeOK'
    BY DEF CheckAccepted, SaveOnce, Goto, records, IInv, TypeOK, Step, Outcome
  <1>2. /\ cur[p] \in 1..Len(attempts)
        /\ attempts[cur[p]].terminal # None
        /\ attempts[cur[p]].staged \in Response
        /\ ValidAnswer(attempts[cur[p]])
    BY DEF CheckAccepted, IInv, PositionOK, Judging
  <1>3. pc'[p] \in {"write_accepted", "complete", "conflict"}
    BY DEF CheckAccepted, SaveOnce, Goto, IInv, TypeOK
  <1>4. PositionOK(p)' /\ ~ Calling(p)'
    BY <1>2, <1>3
       DEF CheckAccepted, records, IInv, TypeOK, PositionOK, Calling, Judging,
           ValidAnswer
  <1>5. QED
    BY <1>1, <1>4, MemoryStep DEF Resting, CheckAccepted, SaveOnce, Goto, IInv, TypeOK

-----------------------------------------------------------------------------
(* The actions that save a record.                                         *)

(* What process q knows survives a step of another process that settles    *)
(* no attempt q is working on.                                             *)
LEMMA OtherProcess ==
    ASSUME IInv, NEW q \in Proc, Resting(q),
           Len(attempts') \in Nat, Len(attempts') >= Len(attempts),
           \A n \in 1..Len(attempts) : Settled(attempts[n], attempts'[n]),
           Calling(q) => attempts'[cur[q]] = attempts[cur[q]]
    PROVE  PositionOK(q)'
  <1> USE DEF IInv, PositionOK, Resting
  <1>0. Len(attempts) \in Nat
    BY LenProperties DEF TypeOK
  <1>1. Calling(q)' => /\ cur'[q] \in 1..Len(attempts')
                       /\ attempts'[cur'[q]].terminal = None
                       /\ attempts'[cur'[q]].validation = None
    BY <1>0 DEF Calling
  <1>2. pc'[q] = "finalize" => attempts'[cur'[q]].staged = run'[q].raw
    BY DEF Calling
  <1>3. Judging(q)' => /\ cur'[q] \in 1..Len(attempts')
                       /\ attempts'[cur'[q]].terminal # None
                       /\ attempts'[cur'[q]].staged \in Response
    BY <1>0 DEF Judging, Settled
  <1>4. pc'[q] \in {"accept", "write_accepted"} => ValidAnswer(attempts'[cur'[q]])
    BY <1>0, ResponseAssumption DEF Judging, Settled, ValidAnswer
  <1>5. QED BY <1>1, <1>2, <1>3, <1>4

(* An accepted record stays linked while its attempt stays settled.        *)
LEMMA StillLinked ==
    ASSUME IInv, accepted' = accepted,
           Len(attempts') \in Nat, Len(attempts') >= Len(attempts),
           \A n \in 1..Len(attempts) : Settled(attempts[n], attempts'[n])
    PROVE  AcceptedIsLinked'
  <1>1. Len(attempts) \in Nat
    BY LenProperties DEF IInv, TypeOK
  <1>2. QED
    BY <1>1, ResponseAssumption DEF IInv, AcceptedIsLinked, Intact, Settled

(* Saving a record in the attempt process p works on keeps the invariant   *)
(* when it settles nothing anyone else relies on.                          *)
LEMMA AttemptStep ==
    ASSUME IInv, NEW p \in Proc, NEW a \in Attempt, TypeOK',
           cur[p] \in 1..Len(attempts),
           attempts' = [attempts EXCEPT ![cur[p]] = a],
           UNCHANGED <<ticket, accepted>>,
           \A q \in Proc \ {p} : Resting(q),
           Settled(attempts[cur[p]], a), AttemptOK(a),
           Calling(p) \/ attempts[cur[p]].terminal # None,
           PositionOK(p)', cur'[p] = cur[p], Calling(p)' => Calling(p)
    PROVE  IInv'
  <1>1. attempts \in Seq(Attempt) /\ Len(attempts) \in Nat
    BY LenProperties DEF IInv, TypeOK
  <1>2. /\ attempts' \in Seq(Attempt)
        /\ Len(attempts') = Len(attempts)
        /\ attempts'[cur[p]] = a
        /\ \A n \in 1..Len(attempts) : n # cur[p] => attempts'[n] = attempts[n]
    BY <1>1, OneSaved
  <1>3. \A n \in 1..Len(attempts) : Settled(attempts[n], attempts'[n])
    BY <1>2 DEF Settled
  <1>4. \A n \in 1..Len(attempts') : AttemptOK(attempts'[n])
    BY <1>2 DEF IInv
  <1>5. ASSUME NEW q \in Proc, q # p PROVE PositionOK(q)'
    <2>1. ASSUME Calling(q) PROVE cur[q] # cur[p] /\ cur[q] \in 1..Len(attempts)
      BY <1>5, <2>1 DEF IInv, PositionOK, AttemptIsExclusive, Calling
    <2>2. Calling(q) => attempts'[cur[q]] = attempts[cur[q]]
      BY <2>1, <1>2
    <2>3. QED BY <1>1, <1>2, <1>3, <1>5, <2>2, OtherProcess
  <1>6. AttemptIsExclusive'
    BY <1>2 DEF IInv, AttemptIsExclusive, Calling, Resting
  <1>7. AcceptedIsLinked'
    BY <1>1, <1>2, <1>3, StillLinked
  <1>8. QED BY <1>4, <1>5, <1>6, <1>7 DEF IInv

LEMMA StageResponseOK ==
    ASSUME IInv, NEW p \in Proc, StageResponse(p) PROVE IInv'
  <1> DEFINE a == [attempts[cur[p]] EXCEPT !.report = Report(run[p]),
                                          !.staged = run[p].raw]
  <1>1. /\ Calling(p)
        /\ cur[p] \in 1..Len(attempts)
        /\ attempts[cur[p]] \in Attempt
        /\ attempts[cur[p]].terminal = None
        /\ attempts[cur[p]].validation = None
        /\ run[p] \in RunnerResult
    BY ElementOfSeq DEF StageResponse, IInv, TypeOK, PositionOK, Calling
  <1>2. /\ a \in Attempt
        /\ a.terminal = None /\ a.validation = None /\ a.staged = run[p].raw
    BY <1>1 DEF Attempt, Report, RunnerResult
  <1>3. attempts' = [attempts EXCEPT ![cur[p]] = a]
    BY DEF StageResponse, SaveInAttempt
  <1> HIDE DEF a
  <1>4. /\ attempts' \in Seq(Attempt)
        /\ Len(attempts') = Len(attempts)
        /\ attempts'[cur[p]] = a
    BY <1>1, <1>2, <1>3, OneSaved DEF IInv, TypeOK
  <1>5. TypeOK'
    BY <1>4 DEF StageResponse, Goto, IInv, TypeOK, Step
  <1>6. Settled(attempts[cur[p]], a) /\ AttemptOK(a)
    BY <1>1, <1>2, ResponseAssumption DEF Settled, AttemptOK
  <1>7. PositionOK(p)' /\ cur'[p] = cur[p]
    BY <1>1, <1>2, <1>4
       DEF StageResponse, Goto, IInv, TypeOK, PositionOK, Calling, Judging
  <1>8. \A q \in Proc \ {p} : Resting(q)
    BY DEF Resting, StageResponse, Goto, IInv, TypeOK
  <1>9. UNCHANGED <<ticket, accepted>>
    BY DEF StageResponse
  <1>10. QED BY <1>1, <1>2, <1>3, <1>5, <1>6, <1>7, <1>8, <1>9, AttemptStep

LEMMA FinalizeAttemptOK ==
    ASSUME IInv, NEW p \in Proc, FinalizeAttempt(p) PROVE IInv'
  <1> DEFINE a == [attempts[cur[p]] EXCEPT !.terminal = TerminalStatus(run[p])]
  <1>1. /\ Calling(p)
        /\ cur[p] \in 1..Len(attempts)
        /\ attempts[cur[p]] \in Attempt
        /\ attempts[cur[p]].terminal = None
        /\ attempts[cur[p]].validation = None
        /\ attempts[cur[p]].staged = run[p].raw
        /\ run[p] \in RunnerResult
    BY ElementOfSeq DEF FinalizeAttempt, IInv, TypeOK, PositionOK, Calling
  <1>2. /\ a \in Attempt
        /\ a.terminal = TerminalStatus(run[p])
        /\ a.validation = None /\ a.staged = run[p].raw
        /\ a.terminal # None
    BY <1>1, ResponseAssumption DEF Attempt, TerminalStatus
  <1>3. attempts' = [attempts EXCEPT ![cur[p]] = a]
    BY DEF FinalizeAttempt, SaveInAttempt
  <1> HIDE DEF a
  <1>4. /\ attempts' \in Seq(Attempt)
        /\ Len(attempts') = Len(attempts)
        /\ attempts'[cur[p]] = a
    BY <1>1, <1>2, <1>3, OneSaved DEF IInv, TypeOK
  <1>5. TypeOK'
    BY <1>4 DEF FinalizeAttempt, Goto, IInv, TypeOK, Step, Outcome
  <1>6. a.terminal = "completed" => a.staged \in Response
    BY <1>1, <1>2 DEF TerminalStatus, RunnerResult
  <1>7. Settled(attempts[cur[p]], a) /\ AttemptOK(a)
    BY <1>1, <1>2, <1>6, ResponseAssumption DEF Settled, AttemptOK
  <1>8. pc'[p] = "validate" => a.staged \in Response
    BY <1>1, <1>2, <1>6
       DEF FinalizeAttempt, Goto, IInv, TypeOK, IsUsable, IsContentFailure, RunnerResult
  <1>9. pc'[p] \in {"validate", "runner_failed"} /\ cur'[p] = cur[p]
    BY DEF FinalizeAttempt, Goto, IInv, TypeOK
  <1>10. PositionOK(p)' /\ ~ Calling(p)'
    BY <1>1, <1>2, <1>4, <1>8, <1>9 DEF PositionOK, Calling, Judging
  <1>11. \A q \in Proc \ {p} : Resting(q)
    BY DEF Resting, FinalizeAttempt, Goto, IInv, TypeOK
  <1>12. UNCHANGED <<ticket, accepted>>
    BY DEF FinalizeAttempt
  <1>13. QED BY <1>1, <1>2, <1>3, <1>5, <1>7, <1>9, <1>10, <1>11, <1>12, AttemptStep

LEMMA WriteValidationOK ==
    ASSUME IInv, NEW p \in Proc, WriteValidation(p) PROVE IInv'
  <1> DEFINE a == [attempts[cur[p]] EXCEPT !.validation = Judgement(attempts[cur[p]])]
  <1>1. /\ Judging(p) /\ ~ Calling(p)
        /\ cur[p] \in 1..Len(attempts)
        /\ attempts[cur[p]] \in Attempt
        /\ attempts[cur[p]].terminal # None
        /\ attempts[cur[p]].staged \in Response
        /\ AttemptOK(attempts[cur[p]])
    BY ElementOfSeq DEF WriteValidation, IInv, TypeOK, PositionOK, Judging, Calling
  <1>2. /\ a \in Attempt
        /\ a.terminal = attempts[cur[p]].terminal
        /\ a.staged = attempts[cur[p]].staged
        /\ a.validation = Judgement(attempts[cur[p]])
    BY <1>1 DEF Attempt, Judgement
  <1>3. attempts' = [attempts EXCEPT ![cur[p]] = a]
    BY DEF WriteValidation, SaveInAttempt
  <1> HIDE DEF a
  <1>4. /\ attempts' \in Seq(Attempt)
        /\ Len(attempts') = Len(attempts)
        /\ attempts'[cur[p]] = a
    BY <1>1, <1>2, <1>3, OneSaved DEF IInv, TypeOK
  <1>5. TypeOK'
    BY <1>4 DEF WriteValidation, AfterValidation, Goto, IInv, TypeOK, Step, Outcome
  <1>6. Settled(attempts[cur[p]], a) /\ AttemptOK(a)
    BY <1>1, <1>2 DEF Settled, AttemptOK, ValidAnswer, Judgement
  <1>7. pc'[p] = "accept" => ValidAnswer(a)
    BY <1>1, <1>2
       DEF WriteValidation, AfterValidation, Judgement, ValidAnswer, Goto, IInv, TypeOK
  <1>8. pc'[p] \in {"accept", "content_invalid", "ticket"} /\ cur'[p] = cur[p]
    BY DEF WriteValidation, AfterValidation, Goto, IInv, TypeOK
  <1>9. PositionOK(p)' /\ ~ Calling(p)'
    BY <1>1, <1>2, <1>4, <1>7, <1>8 DEF PositionOK, Calling, Judging
  <1>10. \A q \in Proc \ {p} : Resting(q)
    BY DEF Resting, WriteValidation, Goto, IInv, TypeOK
  <1>11. UNCHANGED <<ticket, accepted>>
    BY DEF WriteValidation
  <1>12. QED BY <1>1, <1>2, <1>3, <1>5, <1>6, <1>8, <1>9, <1>10, <1>11, AttemptStep

LEMMA WriteTicketOK ==
    ASSUME IInv, NEW p \in Proc, WriteTicket(p) PROVE IInv'
  <1>1. source[p] \in Response
    BY DEF WriteTicket, IInv, PositionOK
  <1>2. TypeOK'
    BY <1>1 DEF WriteTicket, Goto, IInv, TypeOK, Step
  <1>3. PositionOK(p)' /\ ~ Calling(p)'
    BY <1>1 DEF WriteTicket, Goto, IInv, TypeOK, PositionOK, Calling, Judging
  <1>4. ASSUME NEW q \in Proc, q # p PROVE PositionOK(q)'
    BY <1>4 DEF WriteTicket, Goto, IInv, TypeOK, PositionOK, Calling, Judging,
                ValidAnswer
  <1>5. AttemptIsExclusive'
    BY <1>3 DEF WriteTicket, Goto, IInv, TypeOK, AttemptIsExclusive, Calling
  <1>6. AcceptedIsLinked'
    BY DEF WriteTicket, IInv, AcceptedIsLinked, Intact
  <1>7. \A n \in 1..Len(attempts') : AttemptOK(attempts'[n])
    BY DEF WriteTicket, IInv
  <1>8. QED BY <1>2, <1>3, <1>4, <1>5, <1>6, <1>7 DEF IInv

LEMMA WriteAcceptedOK ==
    ASSUME IInv, NEW p \in Proc, WriteAccepted(p) PROVE IInv'
  <1>1. /\ cur[p] \in 1..Len(attempts)
        /\ attempts[cur[p]].staged \in Response
        /\ ValidAnswer(attempts[cur[p]])
    BY DEF WriteAccepted, IInv, PositionOK, Judging
  <1>2. accepted' = AcceptedRecord(p)
    BY DEF WriteAccepted
  <1>3. accepted' \in Acceptance
    <2>1. cur[p] \in Nat \ {0} /\ repairing[p] \in BOOLEAN
      BY <1>1, LenProperties DEF IInv, TypeOK
    <2>2. QED BY <1>1, <1>2, <2>1 DEF AcceptedRecord, Acceptance
  <1>4. TypeOK'
    BY <1>3 DEF WriteAccepted, Goto, IInv, TypeOK, Outcome
  <1>5. PositionOK(p)' /\ ~ Calling(p)'
    BY DEF WriteAccepted, Goto, IInv, TypeOK, PositionOK, Calling, Judging
  <1>6. ASSUME NEW q \in Proc, q # p PROVE PositionOK(q)'
    BY <1>6 DEF WriteAccepted, Goto, IInv, TypeOK, PositionOK, Calling, Judging,
                ValidAnswer
  <1>7. AttemptIsExclusive'
    BY <1>5 DEF WriteAccepted, Goto, IInv, TypeOK, AttemptIsExclusive, Calling
  <1>8. AcceptedIsLinked'
    BY <1>1, <1>2
       DEF WriteAccepted, AcceptedIsLinked, AcceptedRecord, Intact, ValidAnswer
  <1>9. \A n \in 1..Len(attempts') : AttemptOK(attempts'[n])
    BY DEF WriteAccepted, IInv
  <1>10. QED BY <1>4, <1>5, <1>6, <1>7, <1>8, <1>9 DEF IInv

LEMMA PlaceAttemptOK ==
    ASSUME IInv, NEW p \in Proc, PlaceAttempt(p) PROVE IInv'
  <1> DEFINE a == NewAttempt(PromptOf(p))
  <1>1. a \in Attempt /\ a.terminal = None /\ a.validation = None
    BY DEF PlaceAttempt, PromptOf, IInv, PositionOK, NewAttempt, Attempt
  <1>2. attempts' = Append(attempts, a)
    BY DEF PlaceAttempt
  <1>3. attempts \in Seq(Attempt) /\ Len(attempts) \in Nat
    BY LenProperties DEF IInv, TypeOK
  <1>4. cur[p] = Len(attempts) + 1 /\ cur'[p] = cur[p] /\ pc'[p] = "call"
    BY DEF PlaceAttempt, Goto, IInv, TypeOK
  <1>5. \A q \in Proc \ {p} : Resting(q)
    BY DEF Resting, PlaceAttempt, Goto, IInv, TypeOK
  <1> HIDE DEF a
  <1>6. /\ attempts' \in Seq(Attempt)
        /\ Len(attempts') = Len(attempts) + 1
        /\ attempts'[Len(attempts) + 1] = a
        /\ \A n \in 1..Len(attempts) : attempts'[n] = attempts[n]
    BY <1>1, <1>2, <1>3, OneReserved
  <1>7. TypeOK'
    BY <1>6 DEF PlaceAttempt, Goto, IInv, TypeOK, Step
  <1>8. PositionOK(p)'
    BY <1>1, <1>3, <1>4, <1>6 DEF PositionOK, Calling, Judging
  <1>9. \A n \in 1..Len(attempts) : Settled(attempts[n], attempts'[n])
    BY <1>6 DEF Settled
  <1>10. ASSUME NEW q \in Proc, q # p PROVE PositionOK(q)'
    <2>1. Calling(q) => attempts'[cur[q]] = attempts[cur[q]]
      BY <1>6 DEF IInv, PositionOK
    <2>2. QED BY <1>3, <1>5, <1>6, <1>9, <1>10, <2>1, OtherProcess
  <1>11. AttemptIsExclusive'
    <2>2. \A q \in Proc : Calling(q) => cur[q] # cur[p]
      BY <1>3, <1>4 DEF IInv, PositionOK
    <2>3. ASSUME NEW q \in Proc, NEW r \in Proc, Calling(q)', Calling(r)',
                 cur'[q] = cur'[r]
          PROVE  q = r
      <3>1. CASE q # p /\ r # p
        BY <1>5, <2>3, <3>1 DEF Resting, IInv, AttemptIsExclusive, Calling
      <3>2. CASE q # p /\ r = p
        <4>1. Calling(q) /\ cur[q] = cur[p]
          BY <1>4, <1>5, <2>3, <3>2 DEF Resting, Calling
        <4>2. QED BY <2>2, <4>1
      <3>3. CASE q = p /\ r # p
        <4>1. Calling(r) /\ cur[r] = cur[p]
          BY <1>4, <1>5, <2>3, <3>3 DEF Resting, Calling
        <4>2. QED BY <2>2, <4>1
      <3>4. QED BY <3>1, <3>2, <3>3
    <2>4. QED BY <2>3 DEF AttemptIsExclusive, Calling
  <1>12. AcceptedIsLinked'
    BY <1>3, <1>6, <1>9, StillLinked DEF PlaceAttempt
  <1>13. \A n \in 1..Len(attempts') : AttemptOK(attempts'[n])
    BY <1>1, <1>3, <1>6, ResponseAssumption DEF IInv, AttemptOK
  <1>14. QED BY <1>7, <1>8, <1>10, <1>11, <1>12, <1>13 DEF IInv

-----------------------------------------------------------------------------
LEMMA InvariantKept == IInv /\ [Next]_vars => IInv'
  <1> SUFFICES ASSUME IInv, [Next]_vars PROVE IInv'
    OBVIOUS
  <1>1. CASE UNCHANGED vars
    BY <1>1
       DEF vars, records, memory, IInv, TypeOK, PositionOK, AttemptOK, Calling,
           Judging, ValidAnswer, AttemptIsExclusive, AcceptedIsLinked, Intact
  <1>2. ASSUME NEW p \in Proc, Start(p) PROVE IInv'
    BY <1>2, StartOK
  <1>3. ASSUME NEW p \in Proc, Crash(p) PROVE IInv'
    BY <1>3, CrashOK
  <1>4. ASSUME NEW p \in Proc, Advance(p) PROVE IInv'
    BY <1>4, ReadAcceptedOK, InspectAttemptsOK, CheckLimitOK, NumberAttemptOK,
       PlaceAttemptOK, AttemptTakenOK, CallRunnerOK, StageResponseOK, FinalizeAttemptOK,
       CheckValidationOK, WriteValidationOK, CheckTicketOK, WriteTicketOK,
       CheckAcceptedOK, WriteAcceptedOK
       DEF Advance
  <1>5. QED BY <1>1, <1>2, <1>3, <1>4 DEF Next

LEMMA Inductive == Spec => []IInv
  <1>1. QED BY InitOK, InvariantKept, PTL DEF Spec

(* Every variable keeps its type, for every number of processes.           *)
THEOREM TypeCorrect == Spec => []TypeOK
  <1>1. IInv => TypeOK
    BY DEF IInv
  <1>2. QED BY <1>1, Inductive, PTL

(* Whatever is interrupted, repeated or run side by side in one directory, *)
(* the accepted record names an attempt that completed, was found valid    *)
(* and holds the accepted response.                                        *)
THEOREM AcceptedLinked == Spec => []AcceptedIsLinked
  <1>1. IInv => AcceptedIsLinked
    BY DEF IInv
  <1>2. QED BY <1>1, Inductive, PTL

(* Two processes never hold the same attempt open: the rename of a reserved*)
(* directory gives each number away once.                                  *)
THEOREM AttemptExclusive == Spec => []AttemptIsExclusive
  <1>1. IInv => AttemptIsExclusive
    BY DEF IInv
  <1>2. QED BY <1>1, Inductive, PTL

-----------------------------------------------------------------------------
(* The processes that have passed the check of the limit and may place a   *)
(* directory without looking at it again.                                  *)
Passed == {p \in Proc : pc[p] \in {"count", "rename"}}

(* Each of them may add one attempt to those that are saved.               *)
Budget == Len(attempts) + Cardinality(Passed) < Limit + Cardinality(Proc)

LEMMA PassedIsCounted ==
    /\ IsFiniteSet(Passed) /\ Cardinality(Passed) \in Nat
    /\ Cardinality(Proc) \in Nat
    /\ Cardinality(Passed) <= Cardinality(Proc)
  BY ProcAssumption, FS_Subset, FS_CardinalityType DEF Passed

LEMMA BudgetInit == Init => Budget
  <1> SUFFICES ASSUME Init PROVE Budget
    OBVIOUS
  <1>1. Passed = {} /\ Len(attempts) = 0
    BY DEF Init, Passed
  <1>2. Cardinality(Passed) = 0
    BY <1>1, FS_EmptySet
  <1>3. QED BY <1>1, <1>2, PassedIsCounted, LimitAssumption DEF Budget

(* A step that places nothing and passes nobody keeps the budget.          *)
LEMMA BudgetRests ==
    ASSUME Budget, IInv, Len(attempts') = Len(attempts), Passed' \subseteq Passed
    PROVE  Budget'
  <1>1. Cardinality(Passed') \in Nat /\ Cardinality(Passed') <= Cardinality(Passed)
    BY PassedIsCounted, FS_Subset, FS_CardinalityType
  <1>2. Len(attempts) \in Nat
    BY LenProperties DEF IInv, TypeOK
  <1>3. QED BY <1>1, <1>2, PassedIsCounted, LimitAssumption DEF Budget

(* Whoever passes the check has seen room, and no more processes than      *)
(* there are can have passed it.                                           *)
LEMMA BudgetChecked ==
    ASSUME Budget, IInv, NEW p \in Proc, CheckLimit(p) PROVE Budget'
  <1>1. Len(attempts) \in Nat /\ Len(attempts') = Len(attempts)
    BY LenProperties DEF IInv, TypeOK, CheckLimit, records
  <1>2. CASE Len(attempts) >= Limit
    <2>1. Passed' \subseteq Passed
      BY <1>2 DEF CheckLimit, Goto, Passed, IInv, TypeOK
    <2>2. QED BY <1>1, <2>1, BudgetRests
  <1>3. CASE Len(attempts) < Limit
    <2>1. Passed' \subseteq Proc
      BY DEF Passed
    <2>2. Cardinality(Passed') \in Nat /\ Cardinality(Passed') <= Cardinality(Proc)
      BY <2>1, ProcAssumption, FS_Subset, FS_CardinalityType
    <2>3. QED BY <1>1, <1>3, <2>2, PassedIsCounted, LimitAssumption DEF Budget
  <1>4. QED BY <1>1, <1>2, <1>3, LimitAssumption

(* Placing an attempt uses up what its process had passed the check for.   *)
LEMMA BudgetSpent ==
    ASSUME Budget, IInv, NEW p \in Proc, PlaceAttempt(p) PROVE Budget'
  <1>1. Len(attempts) \in Nat /\ Len(attempts') = Len(attempts) + 1
    BY LenProperties, AppendProperties
       DEF IInv, TypeOK, PlaceAttempt, PromptOf, PositionOK, NewAttempt
  <1>2. p \in Passed /\ Passed' = Passed \ {p}
    BY DEF Passed, PlaceAttempt, Goto, IInv, TypeOK
  <1>3. Cardinality(Passed') = Cardinality(Passed) - 1
    BY <1>2, PassedIsCounted, FS_RemoveElement
  <1>4. QED BY <1>1, <1>3, PassedIsCounted, LimitAssumption DEF Budget

LEMMA BudgetKept == IInv /\ Budget /\ [Next]_vars => Budget'
  <1> SUFFICES ASSUME IInv, Budget, [Next]_vars PROVE Budget'
    OBVIOUS
  <1>1. CASE UNCHANGED vars
    BY <1>1, BudgetRests DEF vars, records, memory, Passed
  <1>2. ASSUME NEW p \in Proc,
               Start(p) \/ Crash(p) \/ ReadAccepted(p) \/ InspectAttempts(p)
               \/ NumberAttempt(p) \/ AttemptTaken(p) \/ CallRunner(p)
               \/ CheckValidation(p) \/ CheckTicket(p) \/ WriteTicket(p)
               \/ CheckAccepted(p) \/ WriteAccepted(p)
        PROVE  Budget'
    <2>1. Len(attempts') = Len(attempts)
      BY <1>2 DEF Start, Crash, ReadAccepted, InspectAttempts, NumberAttempt,
         AttemptTaken, CallRunner, CheckValidation, CheckTicket, WriteTicket,
         CheckAccepted, WriteAccepted, records
    <2>2. Passed' \subseteq Passed
      BY <1>2 DEF Start, Crash, ReadAccepted, InspectAttempts, NumberAttempt,
         AttemptTaken, CallRunner, CheckValidation, CheckTicket, WriteTicket,
         CheckAccepted, WriteAccepted, SaveOnce, AfterValidation, Goto, Passed,
         IInv, TypeOK
    <2>3. QED BY <2>1, <2>2, BudgetRests
  <1>3. ASSUME NEW p \in Proc,
               StageResponse(p) \/ FinalizeAttempt(p) \/ WriteValidation(p)
        PROVE  Budget'
    <2>1. Len(attempts') = Len(attempts)
      BY <1>3, LenProperties, ExceptSeq
         DEF StageResponse, FinalizeAttempt, WriteValidation, SaveInAttempt,
             IInv, TypeOK
    <2>2. Passed' \subseteq Passed
      BY <1>3 DEF StageResponse, FinalizeAttempt, WriteValidation, AfterValidation,
         Goto, Passed, IInv, TypeOK
    <2>3. QED BY <2>1, <2>2, BudgetRests
  <1>4. QED BY <1>1, <1>2, <1>3, BudgetChecked, BudgetSpent DEF Next, Advance

(* The model is called fewer times than max_calls and the number of        *)
(* processes together: one process keeps to the limit, and each further one*)
(* may take a single call past it (reserve_attempt).                       *)
THEOREM LimitNearlyKept == Spec => []LimitIsNearlyKept
  <1>1. IInv /\ Budget => LimitIsNearlyKept
    BY PassedIsCounted, LenProperties, LimitAssumption
       DEF Budget, LimitIsNearlyKept, IInv, TypeOK
  <1>2. QED BY <1>1, BudgetInit, BudgetKept, Inductive, PTL DEF Spec

(* Whatever is shared, stopped or repeated, the run directory holds        *)
(* together: typed and exclusive attempts, hardly more than the limit, and *)
(* a linked acceptance.                                                    *)
THEOREM DirectoryHoldsTogether == Spec => []DirectoryHolds
  <1>1. DirectoryHolds <=> /\ TypeOK /\ AcceptedIsLinked
                           /\ AttemptIsExclusive /\ LimitIsNearlyKept
    BY DEF DirectoryHolds
  <1>2. QED
    BY <1>1, TypeCorrect, AcceptedLinked, AttemptExclusive, LimitNearlyKept, PTL
-----------------------------------------------------------------------------
(* One process at a time, as the program is meant to be run, with a call   *)
(* limit that leaves room for the repair.                                  *)
Alone == (\A p, q \in Proc : p = q) /\ Limit > 1

(* An answer arrived, whatever its content.                                *)
Delivered(a) ==
    a.terminal = "completed" \/ (a.terminal = "failed" /\ a.report = "content")

(* A saved verdict is about an answer that arrived, and is the right one.  *)
VerdictOK(a) ==
    a.validation # None =>
        Delivered(a) /\ a.staged \in Response /\ a.validation = Judgement(a)

(* The first answer was rejected and nothing was asked since.              *)
Rejected == Len(attempts) = 1 /\ attempts[1].validation = "invalid"

ChainOK ==
    /\ RepairsContentOnce
    /\ \A n \in 1..Len(attempts) : VerdictOK(attempts[n])
    /\ ticket # None => /\ Len(attempts) >= 1
                        /\ attempts[1].validation = "invalid"
                        /\ ticket = attempts[1].staged
    /\ accepted # None => accepted.attempt = Len(attempts)

(* What the only process may rely on when it takes its next step.          *)
Knows(p) ==
    /\ pc[p] \in Step \ {"lookup"} => accepted = None
    /\ pc[p] \in {"number", "count", "rename"} =>
          \/ repairing[p] /\ Rejected /\ ticket = attempts[1].staged /\ source[p] = ticket
          \/ ~ repairing[p] /\ attempts = <<>>
    /\ pc[p] = "rename" => cur[p] = Len(attempts) + 1
    /\ Calling(p) \/ Judging(p) => cur[p] = Len(attempts)
    /\ Calling(p) \/ (Judging(p) /\ pc[p] # "write_ticket")
       => (repairing[p] <=> Len(attempts) > 1)
    /\ pc[p] \in {"call", "stage"} => attempts[cur[p]].staged = None
    /\ pc[p] = "finalize" => attempts[cur[p]].report = Report(run[p])
    /\ Judging(p) => Delivered(attempts[cur[p]])
    /\ pc[p] = "write_validation" => attempts[cur[p]].validation = None
    /\ pc[p] \in {"ticket", "write_ticket"} => Rejected
    /\ pc[p] = "write_ticket" => /\ repairing[p] /\ ticket = None
                                 /\ source[p] = attempts[1].staged

(* How the records stand when an invocation has ended.                     *)
Ended(p) ==
    /\ pc[p] \notin {"conflict", "os_error", "limit"}
    /\ pc[p] = "complete" => accepted # None /\ RecordsPass
    /\ pc[p] = "content_invalid" =>
          /\ accepted = None
          /\ Len(attempts) = 2
          /\ \A n \in 1..2 : attempts[n].validation = "invalid"
    /\ pc[p] \in {"runner_failed", "interrupted"} =>
          /\ accepted = None
          /\ attempts # <<>>
          /\ attempts[Len(attempts)].terminal # "completed"

AInv == ChainOK /\ \A p \in Proc : Knows(p) /\ Ended(p)

-----------------------------------------------------------------------------
(* With one process it is enough to follow that process.                   *)
LEMMA OneFollowed ==
    ASSUME Alone, NEW p \in Proc, ChainOK', Knows(p)', Ended(p)'
    PROVE  AInv'
  BY DEF Alone, AInv

LEMMA AloneInit == Init => AInv
  BY DEF Init, AInv, ChainOK, RepairsContentOnce, Knows, Ended, Calling, Judging, Step

LEMMA ChainRests ==
    ASSUME ChainOK, UNCHANGED records PROVE ChainOK'
  BY DEF records, ChainOK, RepairsContentOnce, VerdictOK, Delivered, Judgement

(* The shape of the saved attempts.                                        *)
LEMMA Shape ==
    ASSUME IInv, ChainOK
    PROVE  /\ attempts \in Seq(Attempt)
           /\ Len(attempts) \in 0..2
           /\ Len(attempts) = 0 <=> attempts = <<>>
           /\ \A n \in 1..Len(attempts) : attempts[n] \in Attempt
  <1>1. attempts \in Seq(Attempt) /\ Len(attempts) \in Nat
    BY LenProperties DEF IInv, TypeOK
  <1>2. Len(attempts) \in 0..2
    <2>1. Len(attempts) <= 2
      BY DEF ChainOK, RepairsContentOnce
    <2>2. Len(attempts) \in Nat
      BY <1>1
    <2>3. QED BY <2>1, <2>2
  <1>3. Len(attempts) = 0 <=> attempts = <<>>
    BY <1>1, EmptySeq
  <1>4. \A n \in 1..Len(attempts) : attempts[n] \in Attempt
    BY <1>1, ElementOfSeq
  <1>5. QED BY <1>1, <1>2, <1>3, <1>4

(* Every attempt before the last one was rejected, so it has its end.      *)
LEMMA EarlierEnded ==
    ASSUME IInv, ChainOK, NEW n \in 1..Len(attempts), n # Len(attempts)
    PROVE  attempts[n].terminal # None /\ attempts[n].validation = "invalid"
  <1>1. n = 1 /\ Len(attempts) = 2
    BY Shape
  <1>2. attempts[1].validation = "invalid"
    BY <1>1 DEF ChainOK, RepairsContentOnce
  <1>3. Delivered(attempts[1])
    BY <1>1, <1>2, ResponseAssumption DEF ChainOK, VerdictOK
  <1>4. QED
    BY <1>1, <1>2, <1>3, ResponseAssumption DEF Delivered

(* Only the last attempt takes a record, before it has a verdict.          *)
OnlyLatest ==
    /\ Len(attempts') = Len(attempts) /\ Len(attempts) \in 1..2
    /\ \A n \in 1..Len(attempts) : n # Len(attempts) => attempts'[n] = attempts[n]
    /\ Latest \in Attempt /\ Latest' \in Attempt
    /\ Latest'.prompt = Latest.prompt
    /\ Latest.validation = None
    /\ UNCHANGED <<ticket, accepted>> /\ accepted = None

LEMMA LatestSaved ==
    ASSUME attempts \in Seq(Attempt), Len(attempts) \in 1..2, NEW n, n = Len(attempts),
           NEW a \in Attempt, attempts' = [attempts EXCEPT ![n] = a]
    PROVE  /\ Len(attempts') = Len(attempts)
           /\ Latest' = a
           /\ \A m \in 1..Len(attempts) : m # Len(attempts) => attempts'[m] = attempts[m]
  <1>1. n \in 1..Len(attempts)
    OBVIOUS
  <1>2. /\ Len(attempts') = Len(attempts)
        /\ attempts'[n] = a
        /\ \A m \in 1..Len(attempts) : m # n => attempts'[m] = attempts[m]
    BY <1>1, OneSaved
  <1>3. QED BY <1>2 DEF Latest

(* A record that does not contradict the last attempt keeps the chain.     *)
LEMMA ChainSaves ==
    ASSUME ChainOK, OnlyLatest, VerdictOK(Latest')
    PROVE  ChainOK'
  <1> USE DEF OnlyLatest
  <1>1. CASE Len(attempts) = 1
    <2>1. ticket = None
      BY <1>1, ResponseAssumption DEF ChainOK, Latest
    <2>2. attempts'[1] = Latest' /\ Latest'.prompt = attempts[1].prompt
      BY <1>1 DEF Latest
    <2>3. RepairsContentOnce'
      BY <1>1, <2>2 DEF ChainOK, RepairsContentOnce
    <2>4. QED
      BY <1>1, <2>1, <2>2, <2>3 DEF ChainOK
  <1>2. CASE Len(attempts) = 2
    <2>1. attempts'[1] = attempts[1] /\ attempts'[2] = Latest'
      BY <1>2 DEF Latest
    <2>2. Latest'.prompt = attempts[2].prompt
      BY <1>2 DEF Latest
    <2>3. RepairsContentOnce'
      BY <1>2, <2>1, <2>2 DEF ChainOK, RepairsContentOnce
    <2>4. VerdictOK(attempts[1])
      BY <1>2 DEF ChainOK
    <2>5. QED
      BY <1>2, <2>1, <2>3, <2>4 DEF ChainOK
  <1>3. QED BY <1>1, <1>2

LEMMA AcceptedPasses ==
    ASSUME IInv, ChainOK, accepted # None PROVE RecordsPass
  <1>1. Intact(accepted) /\ accepted.attempt = Len(attempts)
    BY DEF IInv, AcceptedIsLinked, ChainOK
  <1>2. \A n \in 1..Len(attempts) : n = Len(attempts) \/ attempts[n].validation = "invalid"
    BY EarlierEnded
  <1>3. QED
    BY <1>1, <1>2, EarlierEnded, ResponseAssumption DEF Intact, RecordsPass

-----------------------------------------------------------------------------
(* What the only process knows after each of its steps.                    *)
LEMMA StartAlone ==
    ASSUME Alone, IInv, AInv, NEW p \in Proc, Start(p) \/ Crash(p) PROVE AInv'
  <1>1. ChainOK'
    BY ChainRests DEF Start, Crash, AInv
  <1>2. pc'[p] \in {"lookup", "idle"}
    BY DEF Start, Crash, Goto, IInv, TypeOK
  <1>3. Knows(p)' /\ Ended(p)'
    BY <1>2 DEF Knows, Ended, Calling, Judging, Step
  <1>4. QED BY <1>1, <1>3, OneFollowed

LEMMA ReadAcceptedAlone ==
    ASSUME Alone, IInv, AInv, NEW p \in Proc, ReadAccepted(p) PROVE AInv'
  <1>1. ChainOK' /\ ChainOK /\ UNCHANGED records
    BY ChainRests DEF ReadAccepted, AInv
  <1>2. CASE accepted = None
    <2>1. pc'[p] = "scan"
      BY <1>2 DEF ReadAccepted, Goto, IInv, TypeOK
    <2>2. Knows(p)' /\ Ended(p)'
      BY <1>1, <1>2, <2>1 DEF Knows, Ended, Calling, Judging, records
    <2>3. QED BY <1>1, <2>2, OneFollowed
  <1>3. CASE accepted # None
    <2>1. Intact(accepted)
      BY <1>3 DEF IInv, AcceptedIsLinked
    <2>2. pc'[p] = "complete"
      BY <1>3, <2>1 DEF ReadAccepted, Goto, IInv, TypeOK
    <2>3. RecordsPass'
      <3>1. RecordsPass
        BY <1>1, <1>3, AcceptedPasses
      <3>2. QED BY <1>1, <3>1 DEF RecordsPass, Intact, records
    <2>4. Knows(p)' /\ Ended(p)'
      BY <1>1, <1>3, <2>2, <2>3 DEF Knows, Ended, Calling, Judging, Step, records
    <2>5. QED BY <1>1, <2>4, OneFollowed
  <1>4. QED BY <1>2, <1>3

LEMMA InspectAttemptsAlone ==
    ASSUME Alone, IInv, AInv, NEW p \in Proc, InspectAttempts(p) PROVE AInv'
  <1>1. ChainOK' /\ ChainOK /\ UNCHANGED records /\ accepted = None
    BY ChainRests DEF InspectAttempts, AInv, Knows, Step
  <1>2. cur'[p] = Len(attempts) /\ (repairing'[p] <=> Len(attempts) > 1)
    <2>1. cur'[p] = Len(attempts) /\ repairing'[p] = IsRepaired
      BY Zenon DEF InspectAttempts, IInv, TypeOK
    <2>2. QED BY <2>1, Zenon DEF IsRepaired
  <1>3. CASE attempts = <<>>
    <2>1. pc'[p] = "number"
      BY <1>3 DEF InspectAttempts, NothingAsked, Goto, IInv, TypeOK
    <2>2. ~ repairing'[p]
      <3>1. ~ (Len(attempts) > 1)
        BY <1>1, <1>3, Shape
      <3>2. QED BY <1>2, <3>1
    <2>3. Knows(p)' /\ Ended(p)'
      BY <1>1, <1>3, <2>1, <2>2 DEF Knows, Ended, Calling, Judging, records
    <2>4. QED BY <1>1, <2>3, OneFollowed
  <1>4. CASE attempts # <<>>
    <2>1. Len(attempts) \in 1..Len(attempts) /\ Latest \in Attempt
      BY <1>1, <1>4, Shape DEF Latest
    <2>2. CASE pc'[p] = "validate"
      <3>1. Latest.terminal = "completed"
        BY <1>4, <2>2 DEF InspectAttempts, NothingAsked, Answered, Goto, IInv, TypeOK
      <3>2. Delivered(Latest)
        BY <3>1 DEF Delivered
      <3>3. Knows(p)' /\ Ended(p)'
        BY <1>1, <1>2, <2>2, <3>2
           DEF Knows, Ended, Calling, Judging, records, Latest
      <3>4. QED BY <1>1, <3>3, OneFollowed
    <2>3. CASE pc'[p] \in {"interrupted", "runner_failed"}
      <3>1. Latest.terminal # "completed"
        <4>1. CASE Unfinished # {}
          <5>1. Latest.terminal = None
            BY <1>1, <4>1, EarlierEnded DEF Unfinished, Latest
          <5>2. QED BY <5>1, ResponseAssumption
        <4>2. CASE Unfinished = {} /\ ~ Answered
          <5>1. Latest.terminal = "completed" => Latest.staged \in Response
            BY <2>1 DEF IInv, AttemptOK, Latest
          <5>2. QED BY <4>2, <5>1, ResponseAssumption DEF Answered
        <4>3. CASE Unfinished = {} /\ Answered
          BY <1>4, <2>3, <4>3
             DEF InspectAttempts, NothingAsked, Answered, Goto, IInv, TypeOK
        <4>4. QED BY <4>1, <4>2, <4>3
      <3>2. Knows(p)' /\ Ended(p)'
        BY <1>1, <1>4, <2>3, <3>1
           DEF Knows, Ended, Calling, Judging, Step, records, Latest
      <3>3. QED BY <1>1, <3>2, OneFollowed
    <2>4. QED
      BY <1>4, <2>2, <2>3 DEF InspectAttempts, NothingAsked, Goto, IInv, TypeOK
  <1>5. QED BY <1>3, <1>4

(* One process finds room for the first question and for the repair.       *)
LEMMA CheckLimitAlone ==
    ASSUME Alone, IInv, AInv, NEW p \in Proc, CheckLimit(p) PROVE AInv'
  <1>1. ChainOK' /\ ChainOK /\ UNCHANGED records /\ Knows(p)
    BY ChainRests DEF CheckLimit, AInv
  <1>2. Len(attempts) \in 0..1
    BY <1>1, Shape DEF CheckLimit, Knows, Rejected
  <1>3. pc'[p] = "count"
    BY <1>2, LimitAssumption DEF CheckLimit, Goto, IInv, TypeOK, Alone
  <1>4. accepted = None
    BY <1>1 DEF CheckLimit, Knows, Step
  <1>5. Knows(p)' /\ Ended(p)'
    BY <1>1, <1>3, <1>4
       DEF CheckLimit, Knows, Ended, Rejected, Calling, Judging, records
  <1>6. QED BY <1>1, <1>5, OneFollowed

LEMMA NumberAttemptAlone ==
    ASSUME Alone, IInv, AInv, NEW p \in Proc, NumberAttempt(p) PROVE AInv'
  <1>1. ChainOK' /\ ChainOK /\ UNCHANGED records /\ Knows(p)
    BY ChainRests DEF NumberAttempt, AInv
  <1>2. pc'[p] = "rename" /\ cur'[p] = Len(attempts) + 1
    BY DEF NumberAttempt, Goto, IInv, TypeOK
  <1>3. accepted = None
    BY <1>1 DEF NumberAttempt, Knows, Step
  <1>4. Knows(p)' /\ Ended(p)'
    BY <1>1, <1>2, <1>3
       DEF NumberAttempt, Knows, Ended, Rejected, Calling, Judging, records
  <1>5. QED BY <1>1, <1>4, OneFollowed

LEMMA AttemptTakenAlone ==
    ASSUME IInv, AInv, NEW p \in Proc, AttemptTaken(p) PROVE FALSE
  BY DEF AInv, AttemptTaken, Knows

LEMMA CallRunnerAlone ==
    ASSUME Alone, IInv, AInv, NEW p \in Proc, CallRunner(p) PROVE AInv'
  <1>1. ChainOK' /\ UNCHANGED records /\ Knows(p)
    BY ChainRests DEF CallRunner, AInv
  <1>2. pc[p] = "call" /\ pc'[p] = "stage"
    BY DEF CallRunner, Goto, IInv, TypeOK
  <1>3. Knows(p)' /\ Ended(p)'
    BY <1>1, <1>2
       DEF CallRunner, Knows, Ended, Calling, Judging, Step, records
  <1>4. QED BY <1>1, <1>3, OneFollowed

(* The process judges the last attempt, and knows it for the repair or for *)
(* the first question.                                                     *)
LEMMA JudgesLast ==
    ASSUME IInv, AInv, NEW p \in Proc, Judging(p)
    PROVE  /\ cur[p] = Len(attempts) /\ Len(attempts) \in 1..2
           /\ cur[p] \in 1..Len(attempts)
           /\ attempts[Len(attempts)] \in Attempt
           /\ attempts[Len(attempts)].staged \in Response
           /\ attempts[Len(attempts)].terminal # None
           /\ Delivered(attempts[Len(attempts)])
           /\ accepted = None
           /\ pc[p] # "write_ticket" => (repairing[p] <=> Len(attempts) > 1)
  <1>1. /\ cur[p] = Len(attempts)
        /\ Delivered(attempts[cur[p]])
        /\ pc[p] # "write_ticket" => (repairing[p] <=> Len(attempts) > 1)
    BY DEF AInv, Knows
  <1>2. /\ cur[p] \in 1..Len(attempts)
        /\ attempts[cur[p]].staged \in Response
        /\ attempts[cur[p]].terminal # None
    BY DEF IInv, PositionOK
  <1>3. accepted = None
    BY DEF AInv, Knows, Judging, Step
  <1>4. Len(attempts) \in 1..2 /\ attempts[Len(attempts)] \in Attempt
    BY <1>1, <1>2, Shape DEF AInv
  <1>5. QED BY <1>1, <1>2, <1>3, <1>4

(* Where the verdict on the last attempt leads.                            *)
LEMMA VerdictLeads ==
    ASSUME IInv, AInv, NEW p \in Proc, Judging(p), ChainOK',
           pc[p] # "write_ticket",
           accepted' = accepted, repairing' = repairing, cur' = cur, ticket' = ticket,
           Len(attempts') = Len(attempts),
           \A n \in 1..Len(attempts) : n # Len(attempts) => attempts'[n] = attempts[n],
           Delivered(attempts'[Len(attempts)]),
           attempts'[Len(attempts)].validation = Judgement(attempts[Len(attempts)]),
           pc'[p] = AfterValidation(p)
    PROVE  Knows(p)' /\ Ended(p)'
  <1>1. /\ cur[p] = Len(attempts) /\ Len(attempts) \in 1..2 /\ accepted = None
        /\ (repairing[p] <=> Len(attempts) > 1)
    BY JudgesLast
  <1>2. CASE pc'[p] = "accept"
    BY <1>1, <1>2 DEF Knows, Ended, Calling, Judging, Step
  <1>3. CASE pc'[p] # "accept"
    <2>1. Judgement(attempts[Len(attempts)]) = "invalid"
      BY <1>1, <1>3 DEF AfterValidation, Judgement
    <2>2. CASE repairing[p]
      <3>1. Len(attempts) = 2 /\ pc'[p] = "content_invalid"
        <4>1. Len(attempts) > 1
          BY <1>1, <2>2
        <4>2. pc'[p] = "content_invalid"
          BY <1>1, <2>1, <2>2 DEF AfterValidation
        <4>3. QED BY <1>1, <4>1, <4>2
      <3>2. attempts'[1].validation = "invalid" /\ attempts'[2].validation = "invalid"
        BY <2>1, <3>1 DEF AInv, ChainOK, RepairsContentOnce
      <3>3. QED
        BY <1>1, <3>1, <3>2 DEF Knows, Ended, Calling, Judging, Step
    <2>3. CASE ~ repairing[p]
      <3>1. Len(attempts) = 1 /\ pc'[p] = "ticket"
        <4>1. ~ (Len(attempts) > 1)
          BY <1>1, <2>3
        <4>2. pc'[p] = "ticket"
          BY <1>1, <2>1, <2>3 DEF AfterValidation
        <4>3. QED BY <1>1, <4>1, <4>2
      <3>2. QED
        BY <1>1, <2>1, <2>3, <3>1 DEF Knows, Ended, Calling, Judging, Step, Rejected
    <2>4. QED BY <2>2, <2>3
  <1>4. QED BY <1>2, <1>3

LEMMA CheckValidationAlone ==
    ASSUME Alone, IInv, AInv, NEW p \in Proc, CheckValidation(p) PROVE AInv'
  <1>1. /\ ChainOK' /\ ChainOK /\ UNCHANGED <<records, cur, repairing>>
        /\ Judging(p) /\ pc[p] # "write_ticket"
    BY ChainRests DEF CheckValidation, AInv, Judging
  <1>2. /\ cur[p] = Len(attempts) /\ Len(attempts) \in 1..2 /\ accepted = None
        /\ Delivered(attempts[Len(attempts)])
        /\ (repairing[p] <=> Len(attempts) > 1)
    BY <1>1, JudgesLast
  <1>3. CASE attempts[cur[p]].validation = None
    <2>1. pc'[p] = "write_validation"
      BY <1>3, ResponseAssumption
         DEF CheckValidation, SaveOnce, Judgement, Goto, IInv, TypeOK
    <2>2. Knows(p)' /\ Ended(p)'
      BY <1>1, <1>2, <1>3, <2>1
         DEF Knows, Ended, Calling, Judging, Step, records
    <2>3. QED BY <1>1, <2>2, OneFollowed
  <1>4. CASE attempts[cur[p]].validation # None
    <2>1. attempts[cur[p]].validation = Judgement(attempts[cur[p]])
      BY <1>1, <1>2, <1>4 DEF ChainOK, VerdictOK
    <2>2. pc'[p] = AfterValidation(p)
      BY <1>4, <2>1 DEF CheckValidation, SaveOnce, Goto, IInv, TypeOK
    <2>3. Knows(p)' /\ Ended(p)'
      BY <1>1, <1>2, <2>1, <2>2, VerdictLeads DEF records
    <2>4. QED BY <1>1, <2>3, OneFollowed
  <1>5. QED BY <1>3, <1>4

LEMMA CheckTicketAlone ==
    ASSUME Alone, IInv, AInv, NEW p \in Proc, CheckTicket(p) PROVE AInv'
  <1>1. /\ ChainOK' /\ ChainOK /\ UNCHANGED <<records, cur>>
        /\ Judging(p)
    BY ChainRests DEF CheckTicket, AInv, Judging
  <1>2. /\ cur[p] = Len(attempts) /\ accepted = None
        /\ attempts[Len(attempts)].staged \in Response
        /\ Delivered(attempts[Len(attempts)])
    BY <1>1, JudgesLast
  <1>3. Rejected
    BY DEF AInv, CheckTicket, Knows
  <1>4. repairing'[p] /\ source'[p] = attempts[1].staged
    BY <1>2, <1>3 DEF CheckTicket, Repairs, Rejected, IInv, TypeOK
  <1>5. CASE ticket = None
    <2>1. pc'[p] = "write_ticket"
      BY <1>2, <1>5, ResponseAssumption DEF CheckTicket, SaveOnce, Goto, IInv, TypeOK
    <2>2. Knows(p)' /\ Ended(p)'
      BY <1>1, <1>2, <1>3, <1>4, <1>5, <2>1
         DEF Knows, Ended, Calling, Judging, Step, records, Rejected
    <2>3. QED BY <1>1, <2>2, OneFollowed
  <1>6. CASE ticket # None
    <2>1. ticket = attempts[1].staged
      BY <1>1, <1>6 DEF ChainOK
    <2>2. pc'[p] = "number"
      BY <1>2, <1>3, <1>6, <2>1 DEF CheckTicket, SaveOnce, Goto, IInv, TypeOK, Rejected
    <2>3. Knows(p)' /\ Ended(p)'
      BY <1>1, <1>2, <1>3, <1>4, <2>1, <2>2
         DEF Knows, Ended, Calling, Judging, Step, records, Rejected
    <2>4. QED BY <1>1, <2>3, OneFollowed
  <1>7. QED BY <1>5, <1>6

LEMMA CheckAcceptedAlone ==
    ASSUME Alone, IInv, AInv, NEW p \in Proc, CheckAccepted(p) PROVE AInv'
  <1>1. ChainOK' /\ UNCHANGED <<records, cur, repairing>> /\ Judging(p)
    BY ChainRests DEF CheckAccepted, AInv, Judging
  <1>2. /\ cur[p] = Len(attempts) /\ Len(attempts) \in 1..2 /\ accepted = None
        /\ attempts[Len(attempts)].staged \in Response
        /\ Delivered(attempts[Len(attempts)])
        /\ (repairing[p] <=> Len(attempts) > 1)
    BY <1>1, JudgesLast DEF CheckAccepted
  <1>3. pc'[p] = "write_accepted"
    <2>1. AcceptedRecord(p) \in Acceptance
      <3>1. cur[p] \in Nat \ {0} /\ repairing[p] \in BOOLEAN
        BY <1>2 DEF IInv, TypeOK
      <3>2. attempts[cur[p]].staged \in Response
        BY <1>2
      <3>3. QED BY <3>1, <3>2 DEF AcceptedRecord, Acceptance
    <2>2. AcceptedRecord(p) # None
      BY <2>1, AcceptanceAssumption
    <2>3. QED BY <1>2, <2>2 DEF CheckAccepted, SaveOnce, Goto, IInv, TypeOK
  <1>4. Knows(p)' /\ Ended(p)'
    BY <1>1, <1>2, <1>3 DEF Knows, Ended, Calling, Judging, Step, records
  <1>5. QED BY <1>1, <1>4, OneFollowed

-----------------------------------------------------------------------------
(* The steps of the only process that save a record.                       *)
LEMMA PlaceAttemptAlone ==
    ASSUME Alone, IInv, AInv, NEW p \in Proc, PlaceAttempt(p) PROVE AInv'
  <1> DEFINE a == NewAttempt(PromptOf(p))
  <1>1. /\ ChainOK /\ accepted = None /\ accepted' = accepted /\ ticket' = ticket
        /\ Len(attempts) \in 0..2
        /\ pc'[p] = "call" /\ cur'[p] = cur[p] /\ repairing'[p] = repairing[p]
        /\ cur[p] = Len(attempts) + 1
    BY Shape DEF PlaceAttempt, AInv, Knows, Step, Goto, IInv, TypeOK
  <1>2. a \in Attempt /\ a.prompt = PromptOf(p) /\ a.validation = None /\ a.staged = None
    BY DEF PlaceAttempt, PromptOf, IInv, PositionOK, NewAttempt, Attempt
  <1>3. VerdictOK(a)
    BY <1>2 DEF VerdictOK
  <1>4. attempts' = Append(attempts, a)
    BY DEF PlaceAttempt
  <1> HIDE DEF a
  <1>5. /\ Len(attempts') = Len(attempts) + 1
        /\ attempts'[Len(attempts) + 1] = a
        /\ \A n \in 1..Len(attempts) : attempts'[n] = attempts[n]
    BY <1>2, <1>4, OneReserved DEF IInv, TypeOK
  <1>6. CASE repairing[p]
    <2>1. Rejected /\ ticket = attempts[1].staged /\ source[p] = ticket
      BY <1>6 DEF PlaceAttempt, AInv, Knows
    <2>2. /\ Len(attempts') = 2 /\ attempts'[1] = attempts[1] /\ attempts'[2] = a
          /\ a.prompt = ticket
      BY <1>2, <1>5, <1>6, <2>1 DEF Rejected, PromptOf
    <2>3. VerdictOK(attempts[1]) /\ attempts[1].validation = "invalid"
      BY <2>1 DEF AInv, ChainOK, Rejected
    <2>4. attempts[1].staged \in Response /\ attempts[1].prompt = Original
      BY <2>1, <2>3, ResponseAssumption
         DEF VerdictOK, AInv, ChainOK, RepairsContentOnce, Rejected
    <2>5. ChainOK'
      BY <1>1, <1>3, <2>1, <2>2, <2>3, <2>4 DEF ChainOK, RepairsContentOnce
    <2>6. Knows(p)' /\ Ended(p)'
      BY <1>1, <1>2, <1>5, <1>6, <2>1, <2>2 DEF Knows, Ended, Calling, Judging, Rejected
    <2>7. QED BY <2>5, <2>6, OneFollowed
  <1>7. CASE ~ repairing[p]
    <2>1. attempts = <<>> /\ Len(attempts) = 0
      BY <1>1, <1>7, Shape DEF PlaceAttempt, AInv, Knows
    <2>2. ticket = None
      BY <2>1 DEF AInv, ChainOK
    <2>3. Len(attempts') = 1 /\ attempts'[1] = a /\ a.prompt = Original
      BY <1>2, <1>5, <1>7, <2>1 DEF PromptOf
    <2>4. ChainOK'
      BY <1>1, <1>3, <2>2, <2>3 DEF ChainOK, RepairsContentOnce
    <2>5. ~ (Len(attempts') > 1)
      BY <2>3
    <2>6. Knows(p)' /\ Ended(p)'
      BY <1>1, <1>2, <1>7, <2>1, <2>3, <2>5 DEF Knows, Ended, Calling, Judging
    <2>7. QED BY <2>4, <2>6, OneFollowed
  <1>8. QED BY <1>6, <1>7

(* The open call is about the last attempt.                                *)
LEMMA CallsLast ==
    ASSUME IInv, AInv, NEW p \in Proc, Calling(p)
    PROVE  /\ ChainOK /\ accepted = None
           /\ cur[p] = Len(attempts) /\ Len(attempts) \in 1..2
           /\ cur[p] \in 1..Len(attempts) /\ attempts[Len(attempts)] \in Attempt
           /\ attempts[Len(attempts)].terminal = None
           /\ attempts[Len(attempts)].validation = None
           /\ (repairing[p] <=> Len(attempts) > 1)
  <1>1. cur[p] = Len(attempts) /\ (repairing[p] <=> Len(attempts) > 1)
    BY DEF AInv, Knows
  <1>2. /\ cur[p] \in 1..Len(attempts)
        /\ attempts[cur[p]].terminal = None
        /\ attempts[cur[p]].validation = None
    BY DEF IInv, PositionOK
  <1>3. accepted = None
    BY DEF AInv, Knows, Calling, Step
  <1>4. Len(attempts) \in 1..2 /\ attempts[Len(attempts)] \in Attempt
    BY <1>1, <1>2, Shape DEF AInv
  <1>5. QED BY <1>1, <1>2, <1>3, <1>4 DEF AInv

(* runner.json and the response are saved while the call is open.          *)
RecordsBytes ==
    /\ OnlyLatest
    /\ Latest.terminal = None /\ Latest'.terminal = None
    /\ Latest.staged = None /\ Latest'.validation = None

LEMMA StageResponseSaves ==
    ASSUME IInv, AInv, NEW p \in Proc, StageResponse(p)
    PROVE  RecordsBytes /\ Latest'.report = Report(run[p])
  <1> DEFINE a == [attempts[cur[p]] EXCEPT !.report = Report(run[p]),
                                           !.staged = run[p].raw]
  <1>1. /\ accepted = None /\ UNCHANGED <<ticket, accepted>>
        /\ cur[p] = Len(attempts) /\ Len(attempts) \in 1..2
        /\ attempts[cur[p]] = Latest /\ Latest \in Attempt
        /\ Latest.terminal = None /\ Latest.validation = None
        /\ Latest.staged = None
    BY CallsLast DEF StageResponse, Calling, Latest, AInv, Knows
  <1>2. run[p] \in RunnerResult
    BY DEF StageResponse, IInv, PositionOK
  <1>3. /\ a \in Attempt
        /\ a.prompt = Latest.prompt
        /\ a.terminal = None /\ a.validation = None
        /\ a.report = Report(run[p])
    BY <1>1, <1>2 DEF Attempt, RunnerResult, Report
  <1>4. attempts' = [attempts EXCEPT ![cur[p]] = a]
    BY DEF StageResponse, SaveInAttempt
  <1> HIDE DEF a
  <1>5. /\ Len(attempts') = Len(attempts)
        /\ Latest' = a
        /\ \A m \in 1..Len(attempts) : m # Len(attempts) => attempts'[m] = attempts[m]
    BY <1>1, <1>3, <1>4, LatestSaved DEF IInv, TypeOK
  <1>6. QED BY <1>1, <1>3, <1>5 DEF RecordsBytes, OnlyLatest

LEMMA StageResponseAlone ==
    ASSUME Alone, IInv, AInv, NEW p \in Proc, StageResponse(p) PROVE AInv'
  <1>1. /\ ChainOK /\ accepted = None /\ cur[p] = Len(attempts)
        /\ (repairing[p] <=> Len(attempts) > 1)
    BY CallsLast DEF StageResponse, Calling
  <1>2. RecordsBytes /\ Latest'.report = Report(run[p])
    BY StageResponseSaves
  <1>3. /\ UNCHANGED <<ticket, accepted, repairing, run>> /\ cur'[p] = cur[p]
        /\ pc'[p] = "finalize"
    BY DEF StageResponse, Goto, IInv, TypeOK
  <1>4. ChainOK'
    BY <1>1, <1>2, ChainSaves DEF RecordsBytes, VerdictOK
  <1>5. Knows(p)' /\ Ended(p)'
    BY <1>1, <1>2, <1>3
       DEF Knows, Ended, Calling, Judging, RecordsBytes, OnlyLatest, Latest
  <1>6. QED BY <1>4, <1>5, OneFollowed

(* terminal.json closes the call.                                          *)
RecordsEnd ==
    /\ OnlyLatest
    /\ Latest.terminal = None /\ Latest'.terminal # None
    /\ Latest'.staged = Latest.staged /\ Latest'.report = Latest.report
    /\ Latest'.validation = None
    /\ Latest'.terminal = "completed" => Latest'.staged \in Response

LEMMA FinalizeAttemptSaves ==
    ASSUME IInv, AInv, NEW p \in Proc, FinalizeAttempt(p)
    PROVE  /\ RecordsEnd
           /\ Latest'.report = Report(run[p])
           /\ Latest'.terminal = TerminalStatus(run[p])
  <1> DEFINE a == [attempts[cur[p]] EXCEPT !.terminal = TerminalStatus(run[p])]
  <1>1. /\ accepted = None /\ UNCHANGED <<ticket, accepted>>
        /\ cur[p] = Len(attempts) /\ Len(attempts) \in 1..2
        /\ attempts[cur[p]] = Latest /\ Latest \in Attempt
        /\ Latest.terminal = None /\ Latest.validation = None
        /\ Latest.report = Report(run[p])
    BY CallsLast DEF FinalizeAttempt, Calling, Latest, AInv, Knows
  <1>2. run[p] \in RunnerResult /\ Latest.staged = run[p].raw
    BY <1>1 DEF FinalizeAttempt, IInv, PositionOK
  <1>3. /\ a \in Attempt
        /\ a.prompt = Latest.prompt
        /\ a.validation = None /\ a.staged = Latest.staged
        /\ a.report = Latest.report
        /\ a.terminal = TerminalStatus(run[p])
    BY <1>1, <1>2 DEF Attempt, TerminalStatus
  <1>4. attempts' = [attempts EXCEPT ![cur[p]] = a]
    BY DEF FinalizeAttempt, SaveInAttempt
  <1> HIDE DEF a
  <1>5. /\ Len(attempts') = Len(attempts)
        /\ Latest' = a
        /\ \A m \in 1..Len(attempts) : m # Len(attempts) => attempts'[m] = attempts[m]
    BY <1>1, <1>3, <1>4, LatestSaved DEF IInv, TypeOK
  <1>6. a.terminal # None /\ (a.terminal = "completed" => a.staged \in Response)
    BY <1>2, <1>3, ResponseAssumption DEF TerminalStatus, RunnerResult
  <1>7. QED BY <1>1, <1>3, <1>5, <1>6 DEF RecordsEnd, OnlyLatest

LEMMA FinalizeAttemptAlone ==
    ASSUME Alone, IInv, AInv, NEW p \in Proc, FinalizeAttempt(p) PROVE AInv'
  <1>1. /\ ChainOK /\ accepted = None /\ cur[p] = Len(attempts)
        /\ (repairing[p] <=> Len(attempts) > 1)
    BY CallsLast DEF FinalizeAttempt, Calling
  <1>2. /\ RecordsEnd
        /\ Latest'.report = Report(run[p])
        /\ Latest'.terminal = TerminalStatus(run[p])
    BY FinalizeAttemptSaves
  <1>3. /\ UNCHANGED <<ticket, accepted, repairing>> /\ cur'[p] = cur[p]
        /\ pc'[p] = IF IsUsable(run[p]) THEN "validate" ELSE "runner_failed"
    BY DEF FinalizeAttempt, Goto, IInv, TypeOK
  <1>4. ChainOK'
    BY <1>1, <1>2, ChainSaves DEF RecordsEnd, VerdictOK
  <1>5. CASE IsUsable(run[p])
    <2>1. Delivered(Latest')
      BY <1>2, <1>5
         DEF Delivered, IsUsable, IsContentFailure, TerminalStatus, Report
    <2>2. Knows(p)' /\ Ended(p)'
      BY <1>1, <1>2, <1>3, <1>5, <2>1
         DEF Knows, Ended, Calling, Judging, RecordsEnd, OnlyLatest, Latest
    <2>3. QED BY <1>4, <2>2, OneFollowed
  <1>6. CASE ~ IsUsable(run[p])
    <2>1. Latest'.terminal # "completed"
      BY <1>2, <1>6 DEF IsUsable, TerminalStatus
    <2>2. attempts' # <<>>
      BY <1>2 DEF RecordsEnd, OnlyLatest
    <2>3. Knows(p)' /\ Ended(p)'
      BY <1>1, <1>2, <1>3, <1>6, <2>1, <2>2
         DEF Knows, Ended, Calling, Judging, Step, RecordsEnd, OnlyLatest, Latest
    <2>4. QED BY <1>4, <2>3, OneFollowed
  <1>7. QED BY <1>5, <1>6

(* validation.json judges a delivered answer.                              *)
RecordsVerdict ==
    /\ OnlyLatest
    /\ Latest'.terminal = Latest.terminal
    /\ Latest'.staged = Latest.staged /\ Latest'.report = Latest.report
    /\ Latest'.validation = Judgement(Latest)
    /\ Delivered(Latest) /\ Latest.staged \in Response

LEMMA WriteValidationSaves ==
    ASSUME IInv, AInv, NEW p \in Proc, WriteValidation(p)
    PROVE  RecordsVerdict
  <1> DEFINE a == [attempts[cur[p]] EXCEPT !.validation = Judgement(attempts[cur[p]])]
  <1>1. /\ accepted = None /\ UNCHANGED <<ticket, accepted>>
        /\ cur[p] = Len(attempts) /\ Len(attempts) \in 1..2
        /\ attempts[cur[p]] = Latest /\ Latest \in Attempt
        /\ Latest.staged \in Response /\ Delivered(Latest)
    BY JudgesLast DEF WriteValidation, Judging, Latest
  <1>2. Latest.validation = None
    BY <1>1 DEF WriteValidation, AInv, Knows
  <1>3. /\ a \in Attempt
        /\ a.prompt = Latest.prompt
        /\ a.terminal = Latest.terminal
        /\ a.staged = Latest.staged
        /\ a.report = Latest.report
        /\ a.validation = Judgement(Latest)
    BY <1>1 DEF Attempt, Judgement
  <1>4. attempts' = [attempts EXCEPT ![cur[p]] = a]
    BY DEF WriteValidation, SaveInAttempt
  <1> HIDE DEF a
  <1>5. /\ Len(attempts') = Len(attempts)
        /\ Latest' = a
        /\ \A m \in 1..Len(attempts) : m # Len(attempts) => attempts'[m] = attempts[m]
    BY <1>1, <1>3, <1>4, LatestSaved DEF IInv, TypeOK
  <1>6. QED BY <1>1, <1>2, <1>3, <1>5 DEF RecordsVerdict, OnlyLatest

LEMMA WriteValidationAlone ==
    ASSUME Alone, IInv, AInv, NEW p \in Proc, WriteValidation(p) PROVE AInv'
  <1>1. ChainOK /\ Judging(p) /\ pc[p] # "write_ticket"
    BY DEF WriteValidation, Judging, AInv
  <1>2. RecordsVerdict
    BY WriteValidationSaves
  <1>3. UNCHANGED <<ticket, accepted, repairing, cur>> /\ pc'[p] = AfterValidation(p)
    BY DEF WriteValidation, Goto, IInv, TypeOK
  <1>4. Delivered(Latest') /\ VerdictOK(Latest')
    BY <1>2 DEF RecordsVerdict, VerdictOK, Delivered, Judgement
  <1>5. ChainOK'
    BY <1>1, <1>2, <1>4, ChainSaves DEF RecordsVerdict
  <1>6. Knows(p)' /\ Ended(p)'
    BY <1>1, <1>2, <1>3, <1>4, <1>5, VerdictLeads
       DEF RecordsVerdict, OnlyLatest, Latest
  <1>7. QED BY <1>5, <1>6, OneFollowed

LEMMA WriteTicketAlone ==
    ASSUME Alone, IInv, AInv, NEW p \in Proc, WriteTicket(p) PROVE AInv'
  <1>1. /\ ChainOK /\ Rejected /\ repairing[p] /\ ticket = None /\ accepted = None
        /\ source[p] = attempts[1].staged
    BY DEF WriteTicket, AInv, Knows, Step
  <1>2. /\ UNCHANGED <<attempts, accepted, repairing, source>>
        /\ ticket' = source[p] /\ pc'[p] = "number"
    BY DEF WriteTicket, Goto, IInv, TypeOK
  <1>3. ChainOK'
    <2>1. RepairsContentOnce'
      BY <1>1, <1>2 DEF RepairsContentOnce, ChainOK, Rejected
    <2>2. Len(attempts') = 1 /\ ticket' = attempts'[1].staged /\ accepted' = None
      BY <1>1, <1>2 DEF Rejected
    <2>3. \A n \in 1..Len(attempts') : VerdictOK(attempts'[n])
      BY <1>1, <1>2 DEF ChainOK
    <2>4. attempts'[1].validation = "invalid"
      BY <1>1, <1>2 DEF Rejected
    <2>5. QED BY <2>1, <2>2, <2>3, <2>4 DEF ChainOK
  <1>4. Knows(p)' /\ Ended(p)'
    BY <1>1, <1>2 DEF Knows, Ended, Calling, Judging, Rejected
  <1>5. QED BY <1>3, <1>4, OneFollowed

LEMMA WriteAcceptedAlone ==
    ASSUME Alone, IInv, IInv', AInv, NEW p \in Proc, WriteAccepted(p) PROVE AInv'
  <1>1. cur[p] = Len(attempts) /\ Len(attempts) \in 1..2
    BY JudgesLast DEF WriteAccepted, Judging
  <1>2. /\ UNCHANGED <<attempts, ticket>> /\ pc'[p] = "complete"
        /\ accepted' = AcceptedRecord(p)
    BY DEF WriteAccepted, Goto, IInv, TypeOK
  <1>3. accepted'.attempt = Len(attempts)
    BY <1>1, <1>2 DEF AcceptedRecord
  <1>4. accepted' \in Acceptance
    <2>1. repairing[p] \in BOOLEAN
      BY DEF IInv, TypeOK
    <2>2. attempts[cur[p]].staged \in Response
      BY <1>1, JudgesLast DEF WriteAccepted, Judging
    <2>3. cur[p] \in Nat \ {0}
      BY <1>1
    <2>4. QED BY <1>2, <2>1, <2>2, <2>3 DEF AcceptedRecord, Acceptance
  <1>5. accepted' # None
    BY <1>4, AcceptanceAssumption
  <1>6. ChainOK'
    BY <1>2, <1>3 DEF AInv, ChainOK, RepairsContentOnce
  <1>7. RecordsPass'
    <2>1. (IInv /\ ChainOK /\ accepted # None => RecordsPass)'
      BY AcceptedPasses, PTL
    <2>2. QED BY <1>5, <1>6, <2>1
  <1>8. Knows(p)' /\ Ended(p)'
    BY <1>2, <1>5, <1>7 DEF Knows, Ended, Calling, Judging, Step
  <1>9. QED BY <1>6, <1>8, OneFollowed

LEMMA AloneKept ==
    ASSUME Alone PROVE IInv /\ IInv' /\ AInv /\ [Next]_vars => AInv'
  <1> SUFFICES ASSUME IInv, IInv', AInv, [Next]_vars PROVE AInv'
    OBVIOUS
  <1>1. CASE UNCHANGED vars
    <2>1. ChainOK'
      BY <1>1, ChainRests DEF vars, AInv
    <2>2. QED
      BY <1>1, <2>1
         DEF vars, records, memory, AInv, Knows, Ended, Calling, Judging, Rejected,
             RecordsPass, Intact
  <1>2. ASSUME NEW p \in Proc, Start(p) \/ Crash(p) PROVE AInv'
    BY <1>2, StartAlone
  <1>3. ASSUME NEW p \in Proc, Advance(p) PROVE AInv'
    BY <1>3, ReadAcceptedAlone, InspectAttemptsAlone, CheckLimitAlone, NumberAttemptAlone,
       PlaceAttemptAlone, AttemptTakenAlone, CallRunnerAlone, StageResponseAlone,
       FinalizeAttemptAlone, CheckValidationAlone, WriteValidationAlone,
       CheckTicketAlone, WriteTicketAlone, CheckAcceptedAlone, WriteAcceptedAlone
       DEF Advance
  <1>4. QED BY <1>1, <1>2, <1>3 DEF Next

LEMMA InductiveAlone == ASSUME Alone PROVE Spec => [](IInv /\ AInv)
  <1>1. IInv /\ IInv' /\ AInv /\ [Next]_vars => AInv'
    BY AloneKept
  <1>2. QED BY <1>1, InitOK, InvariantKept, AloneInit, PTL DEF Spec

(* With one process no stop leaves records that a later invocation          *)
(* contradicts: the model is asked at most twice, the second time about the *)
(* answer it gave and that was rejected, no invocation meets a conflicting  *)
(* record, and its outcome can be read off the records.                     *)
THEOREM RecordsAgreeAlone == ASSUME Alone PROVE Spec => []RecordsAgree
  <1>1. IInv /\ AInv => RecordsAgree
    BY DEF IInv, AInv, ChainOK, Ended, RecordsAgree, NeverConflicts, OutcomeMatchesRecords
  <1>2. QED BY <1>1, InductiveAlone, PTL

-----------------------------------------------------------------------------
(* What the steps of the only process do to the saved records.             *)
Asks ==
    /\ accepted = None /\ UNCHANGED <<ticket, accepted>>
    /\ attempts = <<>> \/ Rejected
    /\ Len(attempts) \in 0..1 /\ Len(attempts') = Len(attempts) + 1
    /\ \A n \in 1..Len(attempts) : attempts'[n] = attempts[n]
    /\ Latest'.terminal = None

WritesTicket == ticket = None /\ UNCHANGED <<attempts, accepted>>

Accepts ==
    /\ accepted = None /\ UNCHANGED <<attempts, ticket>>
    /\ accepted' # None /\ accepted'.response = Latest.staged
    /\ Len(attempts) \in 1..2 /\ ValidAnswer(Latest)

LEMMA RecordsStep ==
    ASSUME Alone, IInv, AInv, AInv', NEW p \in Proc,
           Start(p) \/ Crash(p) \/ Advance(p)
    PROVE  \/ UNCHANGED records
           \/ Asks \/ RecordsBytes \/ RecordsEnd \/ RecordsVerdict
           \/ WritesTicket \/ Accepts
  <1>1. ASSUME PlaceAttempt(p) PROVE Asks
    <2> DEFINE a == NewAttempt(PromptOf(p))
    <2>1. a \in Attempt /\ a.terminal = None
      BY <1>1 DEF PlaceAttempt, PromptOf, IInv, PositionOK, NewAttempt, Attempt
    <2>2. attempts' = Append(attempts, a)
      BY <1>1 DEF PlaceAttempt
    <2>3. /\ accepted = None /\ UNCHANGED <<ticket, accepted>>
          /\ attempts = <<>> \/ Rejected
      BY <1>1 DEF PlaceAttempt, AInv, Knows, Step
    <2>4. Len(attempts) \in 0..1
      BY <2>3, Shape DEF AInv, Rejected
    <2> HIDE DEF a
    <2>5. /\ Len(attempts') = Len(attempts) + 1
          /\ attempts'[Len(attempts) + 1] = a
          /\ \A n \in 1..Len(attempts) : attempts'[n] = attempts[n]
      BY <2>1, <2>2, OneReserved DEF IInv, TypeOK
    <2>6. QED BY <2>1, <2>3, <2>4, <2>5 DEF Asks, Latest
  <1>2. ASSUME WriteTicket(p) PROVE WritesTicket
    BY <1>2 DEF WriteTicket, WritesTicket, AInv, Knows
  <1>3. ASSUME WriteAccepted(p) PROVE Accepts
    <2>1. /\ cur[p] = Len(attempts) /\ Len(attempts) \in 1..2 /\ accepted = None
      BY <1>3, JudgesLast DEF WriteAccepted, Judging
    <2>2. accepted' = AcceptedRecord(p) /\ UNCHANGED <<attempts, ticket>>
      BY <1>3 DEF WriteAccepted
    <2>3. ValidAnswer(Latest)
      BY <1>3, <2>1 DEF WriteAccepted, IInv, PositionOK, Latest
    <2>4. accepted' # None
      BY <1>3 DEF WriteAccepted, Goto, IInv, TypeOK, AInv, Ended
    <2>5. QED BY <2>1, <2>2, <2>3, <2>4 DEF Accepts, AcceptedRecord, Latest
  <1>4. ASSUME Advance(p), ~ PlaceAttempt(p), ~ StageResponse(p), ~ FinalizeAttempt(p),
               ~ WriteValidation(p), ~ WriteTicket(p), ~ WriteAccepted(p)
        PROVE  UNCHANGED records
    BY <1>4 DEF Advance, ReadAccepted, InspectAttempts, CheckLimit, NumberAttempt, AttemptTaken,
                CallRunner, CheckValidation, CheckTicket, CheckAccepted
  <1>5. ASSUME Start(p) \/ Crash(p) PROVE UNCHANGED records
    BY <1>5 DEF Start, Crash
  <1>6. QED
    BY <1>1, <1>2, <1>3, <1>4, <1>5, StageResponseSaves, FinalizeAttemptSaves,
       WriteValidationSaves

(* An attempt without a verdict or a chain whose earlier attempt was       *)
(* rejected leaves no question open but the last.                          *)
LEMMA NothingOpen ==
    ASSUME IInv, AInv, attempts = <<>> \/ Rejected PROVE Unfinished = {}
  <1>1. CASE attempts = <<>>
    BY <1>1, Shape DEF AInv, Unfinished
  <1>2. CASE Rejected
    <2>1. Len(attempts) = 1 /\ attempts[1].validation = "invalid"
      BY <1>2 DEF Rejected
    <2>2. attempts[1].terminal # None
      BY <2>1, ResponseAssumption DEF AInv, ChainOK, VerdictOK, Delivered
    <2>3. QED BY <2>1, <2>2 DEF Unfinished
  <1>3. QED BY <1>1, <1>2

LEMMA NeverRewrites ==
    ASSUME Alone, IInv, AInv, AInv', [Next]_vars PROVE RecordsKept
  <1>1. Len(attempts) \in Nat
    BY Shape DEF AInv
  <1>2. CASE UNCHANGED records
    BY <1>1, <1>2 DEF records, RecordsKept, WrittenOnce
  <1>3. CASE Asks
    BY <1>3 DEF Asks, RecordsKept, WrittenOnce
  <1>4. CASE RecordsBytes \/ RecordsEnd \/ RecordsVerdict
    <2>1. OnlyLatest /\ Len(attempts') = Len(attempts)
      BY <1>4 DEF RecordsBytes, RecordsEnd, RecordsVerdict, OnlyLatest
    <2>2. /\ Latest'.prompt = Latest.prompt
          /\ WrittenOnce(Latest.staged, Latest'.staged)
          /\ WrittenOnce(Latest.terminal, Latest'.terminal)
          /\ WrittenOnce(Latest.validation, Latest'.validation)
      BY <1>4 DEF RecordsBytes, RecordsEnd, RecordsVerdict, OnlyLatest, WrittenOnce
    <2>3. ASSUME NEW n \in 1..Len(attempts)
          PROVE  /\ attempts'[n].prompt = attempts[n].prompt
                 /\ WrittenOnce(attempts[n].staged, attempts'[n].staged)
                 /\ WrittenOnce(attempts[n].terminal, attempts'[n].terminal)
                 /\ WrittenOnce(attempts[n].validation, attempts'[n].validation)
      BY <2>1, <2>2 DEF OnlyLatest, WrittenOnce, Latest
    <2>4. WrittenOnce(ticket, ticket') /\ WrittenOnce(accepted, accepted')
      BY <2>1 DEF OnlyLatest, WrittenOnce
    <2>5. Len(attempts') >= Len(attempts)
      BY <1>1, <2>1
    <2>6. QED BY <2>3, <2>4, <2>5 DEF RecordsKept
  <1>5. CASE WritesTicket
    BY <1>1, <1>5 DEF WritesTicket, RecordsKept, WrittenOnce
  <1>6. CASE Accepts
    BY <1>1, <1>6 DEF Accepts, RecordsKept, WrittenOnce
  <1>7. QED
    BY <1>2, <1>3, <1>4, <1>5, <1>6, RecordsStep DEF Next, vars

LEMMA AsksInOrder ==
    ASSUME Alone, IInv, AInv, AInv', [Next]_vars, Len(attempts') > Len(attempts)
    PROVE  Unfinished = {} /\ accepted = None
  <1>1. Len(attempts) \in Nat
    BY Shape DEF AInv
  <1>2. CASE Asks
    BY <1>2, NothingOpen DEF Asks
  <1>3. CASE ~ Asks
    <2>1. Len(attempts') = Len(attempts)
      BY <1>3, RecordsStep
         DEF Next, vars, records, RecordsBytes, RecordsEnd, RecordsVerdict,
             OnlyLatest, WritesTicket, Accepts
    <2>2. QED BY <1>1, <2>1
  <1>4. QED BY <1>2, <1>3

-----------------------------------------------------------------------------
(* The stage the phases read, one case for each kind of last attempt.      *)
StageIsRead ==
    /\ attempts = <<>> => LastStage = "none"
    /\ attempts # <<>> /\ accepted # None => LastStage = "accepted"
    /\ attempts # <<>> /\ accepted = None =>
         /\ Latest.terminal = None => LastStage = "open"
         /\ Latest.terminal = "interrupted" => LastStage = "lost"
         /\ Latest.terminal = "failed" =>
              LastStage = IF Latest.report = "content" THEN "refused" ELSE "failed"
         /\ Latest.terminal = "completed" =>
              /\ Latest.validation = None => LastStage = "answered"
              /\ Latest.validation = "valid" => LastStage = "fit"
              /\ Latest.validation = "invalid" => LastStage = "poor"

LEMMA StageRead == StageIsRead
  BY ResponseAssumption DEF StageIsRead, LastStage

LEMMA StageReadNext == StageIsRead'
  BY StageRead, PTL

(* Each kind of step moves the stage as OperationStages says.              *)
LEMMA StepMovesStage ==
    ASSUME Alone, IInv, IInv', AInv, AInv', [Next]_vars PROVE StageMoves
  <1> USE DEF StageMoves
  <1>1. SavedStage = [calls |-> Len(attempts), last |-> LastStage]
    BY DEF SavedStage
  <1>2. SavedStage' = [calls |-> Len(attempts'), last |-> LastStage']
    BY DEF SavedStage
  <1>3. CASE UNCHANGED <<attempts, accepted>>
    BY <1>3 DEF SavedStage, LastStage, Latest
  <1>4. CASE Asks
    <2>1. attempts' # <<>> /\ LastStage' = "open"
      BY <1>4, StageReadNext DEF StageIsRead, Asks
    <2>2. \/ Len(attempts) = 0 /\ LastStage = "none"
          \/ Len(attempts) = 1 /\ LastStage \in {"poor", "refused"}
      <3>1. CASE attempts = <<>>
        BY <3>1, StageRead, Shape DEF StageIsRead, AInv
      <3>2. CASE Rejected
        <4>1. Len(attempts) = 1 /\ Latest.validation = "invalid" /\ attempts # <<>>
          BY <3>2, Shape DEF Rejected, Latest, AInv
        <4>2. Delivered(Latest)
          BY <4>1, ResponseAssumption DEF AInv, ChainOK, VerdictOK, Latest
        <4>3. QED
          BY <1>4, <4>1, <4>2, StageRead, ResponseAssumption DEF StageIsRead, Asks, Delivered
      <3>3. QED BY <1>4, <3>1, <3>2 DEF Asks
    <2>3. Stages!MayAsk(SavedStage)
      BY <1>1, <2>2 DEF Stages!MayAsk
    <2>4. SavedStage' = Stages!AfterAsk(SavedStage)
      BY <1>1, <1>2, <1>4, <2>1 DEF Stages!AfterAsk, Asks
    <2>5. QED BY <2>3, <2>4 DEF Stages!Moves
  <1>5. CASE OnlyLatest /\ (RecordsBytes \/ RecordsEnd \/ RecordsVerdict)
    <2>1. /\ attempts # <<>> /\ attempts' # <<>> /\ Len(attempts') = Len(attempts)
          /\ accepted = None /\ accepted' = None
      BY <1>5, Shape DEF OnlyLatest, AInv
    <2>2. CASE RecordsBytes
      <3>1. LastStage = "open" /\ LastStage' = "open"
        BY <2>1, <2>2, StageRead, StageReadNext DEF StageIsRead, RecordsBytes
      <3>2. QED BY <1>1, <1>2, <2>1, <3>1
    <2>3. CASE RecordsEnd
      <3>1. LastStage = "open"
        BY <2>1, <2>3, StageRead DEF StageIsRead, RecordsEnd
      <3>2. Latest'.terminal \in {"completed", "failed", "interrupted"}
        BY <2>3 DEF RecordsEnd, OnlyLatest, Attempt
      <3>3. LastStage' \in {"answered", "refused", "failed", "lost"}
        BY <2>1, <2>3, <3>2, StageReadNext DEF StageIsRead, RecordsEnd
      <3>4. SavedStage' = [SavedStage EXCEPT !.last = LastStage']
        BY <1>1, <1>2, <2>1
      <3>5. SavedStage' \in Stages!AfterCall(SavedStage) /\ SavedStage.last = "open"
        BY <1>1, <3>1, <3>3, <3>4 DEF Stages!AfterCall
      <3>6. QED BY <3>5 DEF Stages!Moves
    <2>4. CASE RecordsVerdict
      <3>1. CASE Latest.terminal = "completed"
        <4>1. LastStage = "answered"
          BY <2>1, <2>4, <3>1, StageRead DEF StageIsRead, RecordsVerdict, OnlyLatest
        <4>2. LastStage' \in {"poor", "fit"}
          BY <2>1, <2>4, <3>1, StageReadNext DEF StageIsRead, RecordsVerdict, Judgement
        <4>3. SavedStage' = [SavedStage EXCEPT !.last = LastStage']
          BY <1>1, <1>2, <2>1
        <4>4. /\ SavedStage' \in Stages!AfterVerdict(SavedStage)
              /\ SavedStage.last = "answered"
          BY <1>1, <4>1, <4>2, <4>3 DEF Stages!AfterVerdict
        <4>5. QED BY <4>4 DEF Stages!Moves
      <3>2. CASE Latest.terminal = "failed" /\ Latest.report = "content"
        <4>1. LastStage = "refused" /\ LastStage' = "refused"
          BY <2>1, <2>4, <3>2, StageRead, StageReadNext DEF StageIsRead, RecordsVerdict
        <4>2. QED BY <1>1, <1>2, <2>1, <4>1
      <3>3. QED BY <2>4, <3>1, <3>2 DEF RecordsVerdict, Delivered
    <2>5. QED BY <1>5, <2>2, <2>3, <2>4
  <1>6. CASE Accepts
    <2>1. attempts # <<>> /\ attempts' = attempts
      BY <1>6, Shape DEF Accepts, AInv
    <2>2. LastStage = "fit" /\ LastStage' = "accepted"
      BY <1>6, <2>1, StageRead, StageReadNext DEF StageIsRead, Accepts, ValidAnswer
    <2>3. SavedStage' = Stages!AfterAccept(SavedStage) /\ SavedStage.last = "fit"
      BY <1>1, <1>2, <2>1, <2>2 DEF Stages!AfterAccept
    <2>4. QED BY <2>3 DEF Stages!Moves
  <1>7. QED
    BY <1>3, <1>4, <1>5, <1>6, RecordsStep
       DEF Next, vars, records, RecordsBytes, RecordsEnd, RecordsVerdict, WritesTicket

(* An invocation that has just failed leaves a dead stage, and reports it  *)
(* as the phases expect.                                                   *)
LEMMA StepFailsAsStaged ==
    ASSUME Alone, IInv, IInv', AInv, AInv', NEW p \in Proc,
           Start(p) \/ Crash(p) \/ Advance(p),
           pc'[p] # pc[p],
           pc'[p] \in {"runner_failed", "interrupted", "content_invalid"}
    PROVE  FailsAsStaged(p)
  <1>1. SavedStage' = [calls |-> Len(attempts'), last |-> LastStage']
    BY DEF SavedStage
  <1>2. accepted' = None
    BY DEF AInv, Ended
  <1>3. CASE InspectAttempts(p)
    <2>1. pc[p] = "scan" /\ UNCHANGED records /\ attempts # <<>>
      BY <1>3 DEF InspectAttempts, NothingAsked, Goto, IInv, TypeOK
    <2>2. /\ Latest.terminal # "completed"
          /\ pc'[p] = IF Latest.terminal = "failed" THEN "runner_failed" ELSE "interrupted"
      <3>1. attempts'[Len(attempts')].terminal # "completed"
        <4>1. pc'[p] \in {"runner_failed", "interrupted"}
          BY <1>3 DEF InspectAttempts, Goto, IInv, TypeOK
        <4>2. QED BY <4>1 DEF AInv, Ended
      <3>2. Latest.terminal # "completed"
        BY <2>1, <3>1 DEF records, Latest
      <3>3. CASE Unfinished # {}
        <4>1. Latest.terminal = None
          BY <3>3, EarlierEnded DEF AInv, Unfinished, Latest
        <4>2. QED
          BY <1>3, <2>1, <3>2, <3>3, <4>1, ResponseAssumption
             DEF InspectAttempts, NothingAsked, Goto, IInv, TypeOK
      <3>4. CASE Unfinished = {}
        BY <1>3, <2>1, <3>2, <3>4
           DEF InspectAttempts, NothingAsked, Answered, Goto, IInv, TypeOK
      <3>5. QED BY <3>3, <3>4
    <2>3. Latest \in Attempt
      BY <2>1, Shape DEF AInv, Latest
    <2>4. /\ LastStage \in {"open", "lost", "failed", "refused"}
          /\ LastStage \in {"open", "lost"} <=> Latest.terminal # "failed"
      <3>1. accepted = None
        BY <1>2, <2>1 DEF records
      <3>2. Latest.terminal \in {None, "failed", "interrupted"}
        BY <2>2, <2>3 DEF Attempt
      <3>3. QED BY <2>1, <3>1, <3>2, StageRead, ResponseAssumption DEF StageIsRead
    <2>5. LastStage' = LastStage
      BY <2>1 DEF records, LastStage, Latest
    <2>6. Stages!IsDead(SavedStage')
      BY <1>1, <2>4, <2>5 DEF Stages!IsDead
    <2>7. pc'[p] = Stages!SavedFailure(SavedStage').outcome
      BY <1>1, <2>2, <2>4, <2>5 DEF Stages!SavedFailure
    <2>8. QED BY <2>1, <2>6, <2>7 DEF FailsAsStaged
  <1>4. CASE FinalizeAttempt(p)
    <2>1. /\ RecordsEnd
          /\ Latest'.report = Report(run[p])
          /\ Latest'.terminal = TerminalStatus(run[p])
      BY <1>4, FinalizeAttemptSaves
    <2>2. ~ IsUsable(run[p]) /\ pc'[p] = "runner_failed" /\ pc[p] = "finalize"
      BY <1>4 DEF FinalizeAttempt, Goto, IInv, TypeOK
    <2>3. run[p] \in RunnerResult
      BY <1>4 DEF FinalizeAttempt, IInv, PositionOK
    <2>4. attempts' # <<>>
      BY <2>1 DEF RecordsEnd, OnlyLatest
    <2>5. LastStage' \in {"failed", "lost"}
      BY <1>2, <2>1, <2>2, <2>3, <2>4, StageReadNext
         DEF StageIsRead, IsUsable, IsContentFailure, TerminalStatus, Report, RunnerResult
    <2>6. Stages!IsDead(SavedStage')
      BY <1>1, <2>5 DEF Stages!IsDead
    <2>7. pc'[p] = Stages!LiveFailure(SavedStage').outcome /\ SavedStage'.last # "poor"
      BY <1>1, <2>2, <2>5 DEF Stages!LiveFailure
    <2>8. QED BY <2>2, <2>6, <2>7 DEF FailsAsStaged
  <1>5. CASE CheckValidation(p) \/ WriteValidation(p)
    <2>1. pc'[p] = "content_invalid" /\ pc[p] # "scan"
      BY <1>5 DEF CheckValidation, WriteValidation, SaveOnce, AfterValidation, Goto,
                  IInv, TypeOK
    <2>2. Len(attempts') = 2 /\ attempts'[2].validation = "invalid"
      BY <2>1 DEF AInv, Ended
    <2>3. Latest'.validation = "invalid" /\ attempts' # <<>>
      BY <2>2 DEF Latest
    <2>4. Delivered(Latest')
      BY <2>2, ResponseAssumption DEF AInv, ChainOK, VerdictOK, Latest
    <2>5. LastStage' \in {"poor", "refused"}
      BY <1>2, <2>3, <2>4, StageReadNext DEF StageIsRead, Delivered
    <2>6. Stages!IsDead(SavedStage')
      BY <1>1, <2>2, <2>5 DEF Stages!IsDead
    <2>7. /\ Stages!SavedFailure(SavedStage').outcome = pc'[p]
             \/ SavedStage'.last # "poor"
          /\ Stages!LiveFailure(SavedStage').outcome = pc'[p]
      BY <1>1, <2>1, <2>5 DEF Stages!SavedFailure, Stages!LiveFailure
    <2>8. QED BY <2>1, <2>6, <2>7 DEF FailsAsStaged
  <1>6. CASE ~ (InspectAttempts(p) \/ FinalizeAttempt(p) \/ CheckValidation(p)
                \/ WriteValidation(p))
    BY <1>6 DEF Start, Crash, Advance, ReadAccepted, CheckLimit, NumberAttempt, PlaceAttempt,
                AttemptTaken, CallRunner, StageResponse, CheckTicket, WriteTicket,
                CheckAccepted, WriteAccepted, SaveOnce, Goto, IInv, TypeOK
  <1>7. QED BY <1>3, <1>4, <1>5, <1>6

(* With one process the saved records only grow, by a call only when the   *)
(* earlier one has its end, along the stages the phases rely on, and a     *)
(* failed invocation reports the failure the phases read off the records.  *)
THEOREM RecordsMoveForwardAlone == ASSUME Alone PROVE Spec => RecordsMoveForward
  <1>1. IInv /\ IInv' /\ AInv /\ AInv' /\ [Next]_vars
        => /\ RecordsKept
           /\ AsksWhenSettled
           /\ StageMoves
           /\ \A p \in Proc :
                pc'[p] # pc[p] /\ pc'[p] \in {"runner_failed", "interrupted",
                                            "content_invalid"}
                => FailsAsStaged(p)
    <2> SUFFICES ASSUME IInv, IInv', AInv, AInv', [Next]_vars
                 PROVE  /\ RecordsKept
                        /\ AsksWhenSettled
                        /\ StageMoves
                        /\ \A p \in Proc :
                             pc'[p] # pc[p]
                             /\ pc'[p] \in {"runner_failed", "interrupted",
                                            "content_invalid"}
                             => FailsAsStaged(p)
      OBVIOUS
    <2>1. RecordsKept /\ AsksWhenSettled /\ StageMoves
      BY NeverRewrites, AsksInOrder, StepMovesStage DEF AsksWhenSettled
    <2>2. ASSUME NEW p \in Proc, pc'[p] # pc[p],
                 pc'[p] \in {"runner_failed", "interrupted", "content_invalid"}
          PROVE  FailsAsStaged(p)
      <3>1. PICK q \in Proc : Start(q) \/ Crash(q) \/ Advance(q)
        BY <2>2 DEF Next, vars, memory
      <3>2. q = p
        BY DEF Alone
      <3>3. QED BY <2>2, <3>1, <3>2, StepFailsAsStaged
    <2>3. QED BY <2>1, <2>2
  <1>2. QED
    BY <1>1, InductiveAlone, PTL
       DEF Spec, RecordsMoveForward, RecordsNeverRewritten, NoCallAfterDoubt,
           StagesFollowMoves

-----------------------------------------------------------------------------
(* The records read as the promise of one bounded model call.              *)
RepliesRead ==
    /\ Replies \in Seq(Promise!Reply)
    /\ Len(Replies) = Len(attempts)
    /\ \A n \in 1..Len(attempts) : Replies[n] = Reply(attempts[n])

LEMMA ReplyTyped ==
    ASSUME NEW a \in Attempt, AttemptOK(a) PROVE Reply(a) \in Promise!Reply
  BY DEF Reply, Promise!Reply, AttemptOK

LEMMA RepliesAreRead == IInv => RepliesRead
  <1> SUFFICES ASSUME IInv PROVE RepliesRead
    OBVIOUS
  <1>1. Len(attempts) \in Nat
    BY LenProperties DEF IInv, TypeOK
  <1>2. ASSUME NEW n \in 1..Len(attempts) PROVE Reply(attempts[n]) \in Promise!Reply
    <2>1. attempts[n] \in Attempt /\ AttemptOK(attempts[n])
      BY ElementOfSeq DEF IInv, TypeOK
    <2>2. QED BY <2>1, ReplyTyped
  <1>3. Replies \in [1..Len(attempts) -> Promise!Reply]
    BY <1>2 DEF Replies
  <1>4. Replies \in Seq(Promise!Reply)
    BY <1>1, <1>3, SeqDef
  <1>5. Len(Replies) = Len(attempts)
    <2>1. Len(Replies) \in Nat /\ DOMAIN Replies = 1..Len(Replies)
      BY <1>4, LenProperties
    <2>2. DOMAIN Replies = 1..Len(attempts)
      BY <1>3
    <2>3. 1..Len(Replies) = 1..Len(attempts)
      BY <2>1, <2>2
    <2>4. QED BY <1>1, <2>1, <2>3
  <1>6. \A n \in 1..Len(attempts) : Replies[n] = Reply(attempts[n])
    BY DEF Replies
  <1>7. QED BY <1>4, <1>5, <1>6 DEF RepliesRead

LEMMA RepliesAreReadNext == IInv' => RepliesRead'
  <1>1. (IInv => RepliesRead)'
    BY RepliesAreRead, PTL
  <1>2. QED BY <1>1

(* A step that changes no reply leaves the replies as they are.            *)
LEMMA RepliesRest ==
    ASSUME IInv, IInv', Len(attempts') = Len(attempts),
           \A n \in 1..Len(attempts) : Reply(attempts'[n]) = Reply(attempts[n])
    PROVE  Replies' = Replies
  <1>1. RepliesRead /\ RepliesRead'
    BY RepliesAreRead, RepliesAreReadNext
  <1>2. /\ Replies \in Seq(Promise!Reply) /\ Replies' \in Seq(Promise!Reply)
        /\ Len(Replies') = Len(Replies)
    BY <1>1 DEF RepliesRead
  <1>3. \A n \in 1..Len(Replies') : Replies'[n] = Replies[n]
    BY <1>1 DEF RepliesRead
  <1>4. QED BY <1>2, <1>3, SeqEqual

LEMMA PromiseInit == Init /\ IInv => Promise!Init
  <1> SUFFICES ASSUME Init, IInv PROVE Promise!Init
    OBVIOUS
  <1>1. attempts = <<>> /\ Len(attempts) = 0 /\ accepted = None
    BY EmptySeq DEF Init
  <1>2. Replies \in Seq(Promise!Reply) /\ Len(Replies) = 0
    BY <1>1, RepliesAreRead DEF RepliesRead
  <1>3. Replies = <<>>
    BY <1>2, EmptySeq
  <1>4. QED BY <1>1, <1>3 DEF Promise!Init, Result

LEMMA PromiseAsk ==
    ASSUME IInv, IInv', AInv, Asks PROVE Promise!Ask
  <1>1. RepliesRead /\ RepliesRead'
    BY RepliesAreRead, RepliesAreReadNext
  <1>2. Result = None /\ Result' = None
    BY DEF Asks, Result
  <1>3. Replies' = Append(Replies, "pending")
    <2>1. "pending" \in Promise!Reply
      BY DEF Promise!Reply
    <2>2. Replies \in Seq(Promise!Reply)
      BY <1>1 DEF RepliesRead
    <2>3. /\ Append(Replies, "pending") \in Seq(Promise!Reply)
          /\ Len(Append(Replies, "pending")) = Len(Replies) + 1
          /\ Append(Replies, "pending")[Len(Replies) + 1] = "pending"
          /\ \A n \in 1..Len(Replies) : Append(Replies, "pending")[n] = Replies[n]
      BY <2>1, <2>2, OneReserved
    <2>4. Replies' \in Seq(Promise!Reply) /\ Len(Replies') = Len(Replies) + 1
      BY <1>1 DEF RepliesRead, Asks
    <2>5. ASSUME NEW n \in 1..Len(Replies') PROVE Replies'[n] = Append(Replies, "pending")[n]
      <3>1. Len(Replies) \in 0..1 /\ Len(Replies) = Len(attempts)
        BY <1>1 DEF RepliesRead, Asks
      <3>2. CASE n = Len(Replies) + 1
        <4>1. Replies'[n] = Reply(attempts'[n]) /\ attempts'[n] = Latest'
          BY <1>1, <3>1, <3>2 DEF RepliesRead, Asks, Latest
        <4>2. QED BY <2>3, <3>2, <4>1 DEF Asks, Reply
      <3>3. CASE n \in 1..Len(Replies)
        <4>1. Replies'[n] = Reply(attempts'[n]) /\ attempts'[n] = attempts[n]
          BY <1>1, <3>1, <3>3 DEF RepliesRead, Asks
        <4>2. Replies[n] = Reply(attempts[n])
          BY <1>1, <3>1, <3>3 DEF RepliesRead
        <4>3. QED BY <2>3, <3>3, <4>1, <4>2
      <3>4. QED BY <2>4, <3>1, <3>2, <3>3
    <2>6. QED BY <2>3, <2>4, <2>5, SeqEqual
  <1>4. \/ Replies = <<>>
        \/ Len(Replies) = 1 /\ Replies[1] \in Promise!Poor
    <2>1. CASE attempts = <<>>
      <3>1. Replies \in Seq(Promise!Reply) /\ Len(Replies) = 0
        BY <1>1, <2>1, Shape DEF RepliesRead, AInv
      <3>2. QED BY <3>1, EmptySeq
    <2>2. CASE Rejected
      <3>1. Len(attempts) = 1 /\ attempts[1].validation = "invalid"
        BY <2>2 DEF Rejected
      <3>2. VerdictOK(attempts[1])
        BY <3>1 DEF AInv, ChainOK
      <3>3. /\ Delivered(attempts[1]) /\ attempts[1].staged \in Response
            /\ Judgement(attempts[1]) = "invalid"
        BY <3>1, <3>2, ResponseAssumption DEF VerdictOK
      <3>4. Reply(attempts[1]) \in Promise!Poor
        BY <3>3, ResponseAssumption DEF Delivered, Judgement, Reply, Promise!Poor
      <3>5. QED BY <1>1, <3>1, <3>4 DEF RepliesRead
    <2>3. QED BY <2>1, <2>2 DEF Asks
  <1>5. QED BY <1>2, <1>3, <1>4 DEF Promise!Ask

LEMMA PromiseAnswer ==
    ASSUME IInv, IInv', AInv, RecordsEnd PROVE Promise!Answer
  <1> DEFINE r == Reply(Latest')
  <1>1. RepliesRead /\ RepliesRead'
    BY RepliesAreRead, RepliesAreReadNext
  <1>2. /\ Len(attempts') = Len(attempts) /\ Len(attempts) \in 1..2
        /\ Len(Replies) = Len(attempts) /\ Len(Replies') = Len(attempts)
        /\ Replies \in Seq(Promise!Reply) /\ Replies' \in Seq(Promise!Reply)
        /\ UNCHANGED accepted
    BY <1>1 DEF RecordsEnd, OnlyLatest, RepliesRead
  <1>3. Replies # <<>>
    BY <1>2, EmptySeq
  <1>4. Replies[Len(Replies)] = "pending"
    BY <1>1, <1>2 DEF RepliesRead, RecordsEnd, Latest, Reply
  <1>5. r \in Promise!Reply \ {"pending"}
    BY ResponseAssumption DEF RecordsEnd, Reply, Promise!Reply
  <1>6. \A n \in 1..Len(Replies') :
          Replies'[n] = IF n = Len(Replies) THEN r ELSE Replies[n]
    BY <1>1, <1>2 DEF RepliesRead, RecordsEnd, OnlyLatest, Latest
  <1> HIDE DEF r
  <1>7. Replies' = [Replies EXCEPT ![Len(Replies)] = r]
    <2>1. Len(Replies) \in 1..Len(Replies)
      BY <1>2
    <2>2. /\ [Replies EXCEPT ![Len(Replies)] = r] \in Seq(Promise!Reply)
          /\ Len([Replies EXCEPT ![Len(Replies)] = r]) = Len(Replies)
          /\ \A n \in 1..Len(Replies) : [Replies EXCEPT ![Len(Replies)] = r][n]
                = IF n = Len(Replies) THEN r ELSE Replies[n]
      BY <1>2, <1>5, <2>1, ExceptSeq
    <2>3. \A n \in 1..Len(Replies') :
            Replies'[n] = [Replies EXCEPT ![Len(Replies)] = r][n]
      BY <1>2, <1>6, <2>2
    <2>4. Len(Replies') = Len([Replies EXCEPT ![Len(Replies)] = r])
      BY <1>2, <2>2
    <2>5. QED BY <1>2, <2>2, <2>3, <2>4, SeqEqual
  <1>8. QED BY <1>2, <1>3, <1>4, <1>5, <1>7 DEF Promise!Answer, Result

LEMMA PromiseTake ==
    ASSUME IInv, IInv', AInv, Accepts PROVE Promise!Take
  <1>1. RepliesRead /\ Replies' = Replies
    BY RepliesAreRead DEF Accepts, Replies
  <1>2. Len(Replies) = Len(attempts) /\ Len(attempts) \in 1..2
    BY <1>1 DEF RepliesRead, Accepts
  <1>3. Replies # <<>>
    BY <1>2, EmptySeq
  <1>4. Replies[Len(Replies)] = Latest.staged /\ Latest.staged \in Valid
    BY <1>1, <1>2, ResponseAssumption DEF RepliesRead, Accepts, ValidAnswer, Latest, Reply
  <1>5. Result = None /\ Result' = Latest.staged
    BY DEF Accepts, Result
  <1>6. QED BY <1>1, <1>3, <1>4, <1>5 DEF Promise!Take

LEMMA PromiseStep ==
    ASSUME Alone
    PROVE  IInv /\ IInv' /\ AInv /\ AInv' /\ [Next]_vars
           => [Promise!Next]_<<Replies, Result>>
  <1> SUFFICES ASSUME IInv, IInv', AInv, AInv', [Next]_vars
               PROVE  [Promise!Next]_<<Replies, Result>>
    OBVIOUS
  <1>1. CASE UNCHANGED records \/ WritesTicket
    BY <1>1 DEF records, WritesTicket, Replies, Result
  <1>2. CASE RecordsBytes \/ RecordsVerdict
    <2>1. OnlyLatest /\ Reply(Latest') = Reply(Latest)
      BY <1>2 DEF RecordsBytes, RecordsVerdict, Reply
    <2>2. \A n \in 1..Len(attempts) : Reply(attempts'[n]) = Reply(attempts[n])
      BY <2>1 DEF OnlyLatest, Latest
    <2>3. Replies' = Replies
      BY <2>1, <2>2, RepliesRest DEF OnlyLatest
    <2>4. Result' = Result
      BY <2>1 DEF OnlyLatest, Result
    <2>5. QED BY <2>3, <2>4
  <1>3. CASE Asks
    BY <1>3, PromiseAsk DEF Promise!Next
  <1>4. CASE RecordsEnd
    BY <1>4, PromiseAnswer DEF Promise!Next
  <1>5. CASE Accepts
    BY <1>5, PromiseTake DEF Promise!Next
  <1>6. QED
    BY <1>1, <1>2, <1>3, <1>4, <1>5, RecordsStep DEF Next, vars

(* With one process the operation implements BoundedModelCall: it asks     *)
(* once, once more only about a poor answer, and takes the last answer     *)
(* when it is valid; every other step, every stop included, is a stutter.  *)
THEOREM PromiseKept == ASSUME Alone PROVE Spec => KeepsPromise
  <1>1. IInv /\ IInv' /\ AInv /\ AInv' /\ [Next]_vars
        => [Promise!Next]_<<Replies, Result>>
    BY PromiseStep
  <1>2. QED
    BY <1>1, PromiseInit, InductiveAlone, PTL DEF Spec, KeepsPromise, Promise!Spec
=============================================================================
