------------------------ MODULE OperationSequenceProofs ------------------------
(***************************************************************************)
(* What every phase that extends OperationSequence keeps, whatever it      *)
(* saves between the operations: a phase proves its own invariant from     *)
(* these lemmas, one for each action it takes from OperationSequence.      *)
(***************************************************************************)
EXTENDS OperationSequence, TLAPS

(* The steps at which the operation at is under way or just over.          *)
Busy == OperationStep \cup {"running"}

(* The operations before at are accepted, at itself once it is saved; what *)
(* this invocation accepted is among them.                                 *)
PlaceOK ==
    /\ pc \in Busy => at \in 1..N /\ \A i \in 1..(at - 1) : Accepted(i)
    /\ pc \in {"pick", "call", "judge", "accept"} => fresh < at
    /\ pc \in {"save", "running"} => fresh <= at /\ Accepted(at)
    /\ pc \in {"call", "judge", "accept"} => ~ Accepted(at)
    /\ pc = "judge" => op[at].last = "answered"
    /\ pc = "accept" => op[at].last = "fit"
    /\ pc = "call" => op[at].last = "open" \/ MayAsk(op[at])
    /\ pc = "fail" => reason # None

(* An operation has a stage exactly when it was asked for.                 *)
StageOK(s) == s.calls = 0 <=> s.last = "none"

SInv ==
    /\ SequenceTypeOK
    /\ \A i \in 1..N : StageOK(op[i])
    /\ OperationsInOrder
    /\ PlaceOK

-----------------------------------------------------------------------------
(* One more step of the operation at, taken from where all before it are   *)
(* accepted and it is not, keeps the operations in order.                  *)
LEMMA OneMoved ==
    ASSUME SInv, NEW s \in Stage, StageOK(s), at \in 1..N,
           \A i \in 1..(at - 1) : Accepted(i),
           ~ Accepted(at),
           op' = [op EXCEPT ![at] = s]
    PROVE  /\ op' \in [1..N -> Stage]
           /\ \A i \in 1..N : StageOK(op'[i])
           /\ OperationsInOrder'
           /\ op'[at] = s
           /\ \A i \in 1..(at - 1) : Accepted(i)'
  <1>1. op \in [1..N -> Stage] /\ N \in Nat
    BY SizeAssumption DEF SInv, SequenceTypeOK
  <1>2. op'[at] = s /\ \A i \in 1..N : i # at => op'[i] = op[i]
    BY <1>1
  <1>3. \A i \in 1..N : StageOK(op'[i])
    BY <1>2 DEF SInv
  <1>4. \A i \in 1..(at - 1) : Accepted(i)'
    BY <1>1, <1>2 DEF Accepted
  <1>5. OperationsInOrder'
    <2>1. SUFFICES ASSUME NEW i \in 1..N, NEW j \in 1..N, i < j, op'[j].calls > 0
                   PROVE  Accepted(i)'
      BY DEF OperationsInOrder
    <2>2. CASE j = at
      BY <2>1, <2>2, <1>4, <1>1
    <2>3. CASE j # at
      <3>1. Accepted(i)
        BY <2>1, <2>3, <1>2 DEF SInv, OperationsInOrder
      <3>2. i # at
        BY <3>1
      <3>3. QED BY <3>1, <3>2, <1>2 DEF Accepted
    <2>4. QED BY <2>2, <2>3
  <1>6. QED BY <1>1, <1>2, <1>3, <1>4, <1>5

(* The stages an operation moves through are stages.                       *)
LEMMA MovesAreStages ==
    ASSUME NEW s \in Stage, StageOK(s)
    PROVE  /\ MayAsk(s) => AfterAsk(s) \in Stage /\ StageOK(AfterAsk(s))
           /\ s.last = "open" =>
                \A t \in AfterCall(s) : t \in Stage /\ StageOK(t) /\ t.calls = s.calls
           /\ s.last = "answered" =>
                \A t \in AfterVerdict(s) : t \in Stage /\ StageOK(t) /\ t.calls = s.calls
           /\ s.last = "fit" =>
                /\ AfterAccept(s) \in Stage /\ StageOK(AfterAccept(s))
                /\ AfterAccept(s).calls = s.calls
  BY DEF Stage, Last, StageOK, MayAsk, AfterAsk, AfterCall, AfterVerdict, AfterAccept

(* Failures are failures, and never the absence of one.                    *)
LEMMA FailuresAreFailures ==
    ASSUME NEW s \in Stage
    PROVE  SavedFailure(s) \in Failure /\ LiveFailure(s) \in Failure
  BY DEF SavedFailure, LiveFailure, Failure

-----------------------------------------------------------------------------
(* Where a phase starts.                                                   *)
LEMMA InitKeeps == ASSUME SequenceInit PROVE SInv
  <1>1. N \in Nat \ {0} /\ \A i \in 1..N : op[i] = Untouched
    BY SizeAssumption DEF SequenceInit
  <1>2. Untouched \in Stage /\ Untouched.calls = 0 /\ Untouched.last = "none"
    BY DEF Untouched, Stage, Last
  <1>3. SequenceTypeOK
    BY <1>1, <1>2 DEF SequenceInit, SequenceTypeOK
  <1>4. PlaceOK
    BY DEF SequenceInit, PlaceOK, Busy, OperationStep
  <1>5. (\A i \in 1..N : StageOK(op[i])) /\ OperationsInOrder
    BY <1>1, <1>2 DEF StageOK, OperationsInOrder
  <1>6. QED BY <1>3, <1>4, <1>5 DEF SInv

(* An invocation that begins, and a process that stops.                    *)
LEMMA BeginKeeps ==
    ASSUME SInv, NEW next, next \notin Busy, Begin(next) PROVE SInv'
  BY SizeAssumption DEF SInv, Begin, SequenceTypeOK, OperationsInOrder, Accepted,
     PlaceOK, Busy, OperationStep

LEMMA StopKeeps == ASSUME SInv, Stop PROVE SInv'
  BY SizeAssumption DEF SInv, Stop, SequenceTypeOK, OperationsInOrder, Accepted,
     PlaceOK, Busy, OperationStep

(* A step to a place of the phase's own, where no operation is under way.  *)
LEMMA LeaveKeeps ==
    ASSUME SInv, pc' \notin Busy,
           UNCHANGED <<op, at, budget, fresh>>, reason' \in Failure \cup {None}
    PROVE  SInv'
  BY DEF SInv, SequenceTypeOK, OperationsInOrder, Accepted, PlaceOK, Busy,
     OperationStep

(* The first operation is picked before any of it is done.                 *)
LEMMA EnterKeeps ==
    ASSUME SInv, at = 1, fresh = 0, pc' = "pick",
           UNCHANGED <<op, at, budget, fresh, reason>>
    PROVE  SInv'
  <1>1. N >= 1 /\ N \in Nat
    BY SizeAssumption
  <1>2. PlaceOK'
    BY <1>1 DEF PlaceOK, Busy, OperationStep
  <1>3. QED
    BY <1>2 DEF SInv, SequenceTypeOK, OperationsInOrder, Accepted

(* The output of an accepted operation is saved.                           *)
LEMMA SaveKeeps ==
    ASSUME SInv, pc = "save", Goto("running") PROVE SInv'
  BY DEF SInv, Goto, SequenceTypeOK, OperationsInOrder, Accepted, PlaceOK, Busy,
     OperationStep

(* The loop goes on or is left.                                            *)
LEMMA ProceedKeeps ==
    ASSUME SInv, pc \in {"save", "running"}, NEW last, last \notin Busy, ProceedTo(last)
    PROVE  SInv'
  <1>1. /\ N \in Nat \ {0} /\ at \in 1..N /\ fresh \in 0..N /\ fresh <= at
        /\ \A i \in 1..at : Accepted(i)
    BY SizeAssumption DEF SInv, SequenceTypeOK, PlaceOK, Busy, OperationStep
  <1>2. PlaceOK'
    BY <1>1 DEF ProceedTo, PlaceOK, Busy, OperationStep, Accepted
  <1>3. SequenceTypeOK'
    BY <1>1 DEF SInv, SequenceTypeOK, ProceedTo
  <1>4. QED
    BY <1>2, <1>3 DEF SInv, ProceedTo, OperationsInOrder, Accepted

-----------------------------------------------------------------------------
(* Every step of the operation under way.                                  *)
LEMMA OperateKeeps == ASSUME SInv, Operate PROVE SInv'
  <1>1. /\ pc \in OperationStep \ {"save", "fail"}
        /\ N \in Nat \ {0} /\ at \in 1..N
        /\ op \in [1..N -> Stage] /\ op[at] \in Stage /\ StageOK(op[at])
        /\ \A i \in 1..(at - 1) : Accepted(i)
        /\ fresh \in 0..N /\ fresh < at
    BY SizeAssumption
       DEF Operate, Pick, Return, AskAgain, Judge, Accept, OperationStep, SInv,
           SequenceTypeOK, PlaceOK, Busy
  <1> DEFINE Rest == UNCHANGED <<at, budget>> /\ fresh' \in 0..N
  (* what is left to show when the records did not change *)
  <1>2. ASSUME UNCHANGED <<op, at, budget, fresh>>,
               reason' \in Failure \cup {None}, PlaceOK'
        PROVE  SInv'
    BY <1>2 DEF SInv, SequenceTypeOK, OperationsInOrder, Accepted
  (* ... and when the operation moved *)
  <1>3. ASSUME NEW s \in Stage, StageOK(s), ~ Accepted(at),
               op' = [op EXCEPT ![at] = s], Rest,
               reason' \in Failure \cup {None},
               PlaceOK'
        PROVE  SInv'
    <2>1. /\ op' \in [1..N -> Stage]
          /\ \A i \in 1..N : StageOK(op'[i])
          /\ OperationsInOrder'
      BY <1>3, <1>1, OneMoved
    <2>2. SequenceTypeOK'
      BY <2>1, <1>3 DEF SInv, SequenceTypeOK
    <2>3. QED BY <1>3, <2>1, <2>2 DEF SInv
  <1>4. CASE Pick
    <2>1. CASE Accepted(at) /\ pc' = "save" /\ UNCHANGED <<op, reason>>
      <3>1. PlaceOK'
        BY <2>1, <1>4, <1>1 DEF Pick, PlaceOK, Busy, OperationStep, Accepted
      <3>2. QED BY <3>1, <2>1, <1>4, <1>2 DEF Pick, SInv, SequenceTypeOK
    <2>2. CASE IsDead(op[at]) /\ Fails(SavedFailure(op[at])) /\ UNCHANGED op
      <3>1. reason' \in Failure /\ reason' # None
        BY <2>2, <1>1, FailuresAreFailures, NoneAssumption DEF Fails
      <3>2. PlaceOK'
        BY <3>1, <2>2, <1>4, <1>1 DEF Pick, Fails, PlaceOK, Busy, OperationStep,
           Accepted
      <3>3. QED BY <3>1, <3>2, <1>4, <2>2, <1>2 DEF Pick
    <2>3. CASE /\ MayAsk(op[at]) /\ ~ IsDead(op[at])
               /\ op' = [op EXCEPT ![at] = AfterAsk(@)]
               /\ pc' = "call" /\ UNCHANGED reason
      <3>1. op' = [op EXCEPT ![at] = AfterAsk(op[at])] BY <2>3
      <3>2. /\ AfterAsk(op[at]) \in Stage /\ StageOK(AfterAsk(op[at]))
            /\ AfterAsk(op[at]).last = "open"
        BY <2>3, <1>1, MovesAreStages DEF AfterAsk
      <3>3. ~ Accepted(at)
        BY <2>3 DEF MayAsk, Accepted
      <3>4. op'[at] = AfterAsk(op[at]) /\ \A i \in 1..(at - 1) : Accepted(i)'
        BY <3>1, <3>2, <3>3, <1>1, OneMoved
      <3>5. PlaceOK'
        BY <3>4, <3>2, <2>3, <1>4, <1>1 DEF Pick, PlaceOK, Busy, OperationStep,
           Accepted
      <3>6. QED BY <3>1, <3>2, <3>3, <3>5, <2>3, <1>4, <1>1, <1>3
                DEF Pick, SInv, SequenceTypeOK
    <2>4. CASE op[at].last = "answered" /\ pc' = "judge" /\ UNCHANGED <<op, reason>>
      <3>1. PlaceOK'
        BY <2>4, <1>4, <1>1 DEF Pick, PlaceOK, Busy, OperationStep, Accepted
      <3>2. QED BY <3>1, <2>4, <1>4, <1>2 DEF Pick, SInv, SequenceTypeOK
    <2>5. CASE op[at].last = "fit" /\ pc' = "accept" /\ UNCHANGED <<op, reason>>
      <3>1. PlaceOK'
        BY <2>5, <1>4, <1>1 DEF Pick, PlaceOK, Busy, OperationStep, Accepted
      <3>2. QED BY <3>1, <2>5, <1>4, <1>2 DEF Pick, SInv, SequenceTypeOK
    <2>6. QED BY <1>4, <2>1, <2>2, <2>3, <2>4, <2>5 DEF Pick
  <1>5. CASE Return
    <2>1. PICK s \in AfterCall(op[at]) :
            /\ op' = [op EXCEPT ![at] = s]
            /\ \/ s.last = "answered" /\ pc' = "judge" /\ UNCHANGED reason
               \/ MayAsk(s) /\ pc' = "call" /\ UNCHANGED reason
               \/ s.last # "answered" /\ ~ MayAsk(s) /\ Fails(LiveFailure(s))
      BY <1>5 DEF Return
    <2>2. s \in Stage /\ StageOK(s)
      BY <2>1, <1>5, <1>1, MovesAreStages DEF Return
    <2>3. ~ Accepted(at) /\ s.last # "accepted"
      BY <2>1, <1>5, <1>1 DEF Return, Accepted, AfterCall, Stage
    <2>4. op'[at] = s /\ \A i \in 1..(at - 1) : Accepted(i)'
      BY <2>1, <2>2, <2>3, <1>1, OneMoved
    <2>5. UNCHANGED <<at, budget, fresh>>
      BY <1>5 DEF Return
    <2>6. reason' \in Failure \cup {None} /\ (pc' = "fail" => reason' # None)
      BY <2>1, <2>2, FailuresAreFailures, NoneAssumption
         DEF Fails, SInv, SequenceTypeOK
    <2>7. pc' \in {"judge", "call", "fail"}
      BY <2>1 DEF Fails
    <2>8. PlaceOK'
      BY <2>1, <2>3, <2>4, <2>5, <2>6, <2>7, <1>1
         DEF Fails, PlaceOK, Busy, OperationStep, Accepted
    <2>9. QED BY <2>1, <2>2, <2>3, <2>5, <2>6, <2>8, <1>1, <1>3
  <1>6. CASE AskAgain
    <2>1. op' = [op EXCEPT ![at] = AfterAsk(op[at])]
      BY <1>6 DEF AskAgain
    <2>2. /\ AfterAsk(op[at]) \in Stage /\ StageOK(AfterAsk(op[at]))
          /\ AfterAsk(op[at]).last = "open"
      BY <1>6, <1>1, MovesAreStages DEF AskAgain, AfterAsk
    <2>3. ~ Accepted(at)
      BY <1>6 DEF AskAgain, MayAsk, Accepted
    <2>4. op'[at] = AfterAsk(op[at]) /\ \A i \in 1..(at - 1) : Accepted(i)'
      BY <2>1, <2>2, <2>3, <1>1, OneMoved
    <2>5. PlaceOK'
      BY <2>4, <2>2, <1>6, <1>1 DEF AskAgain, PlaceOK, Busy, OperationStep,
         Accepted
    <2>6. QED BY <2>1, <2>2, <2>3, <2>5, <1>6, <1>1, <1>3
              DEF AskAgain, SInv, SequenceTypeOK
  <1>7. CASE Judge
    <2>1. PICK s \in AfterVerdict(op[at]) :
            /\ op' = [op EXCEPT ![at] = s]
            /\ \/ s.last = "fit" /\ pc' = "accept" /\ UNCHANGED reason
               \/ MayAsk(s) /\ pc' = "call" /\ UNCHANGED reason
               \/ s.last = "poor" /\ ~ MayAsk(s) /\ Fails(LiveFailure(s))
      BY <1>7 DEF Judge
    <2>2. op[at].last = "answered"
      BY <1>7 DEF Judge, SInv, PlaceOK
    <2>3. s \in Stage /\ StageOK(s)
      BY <2>1, <2>2, <1>1, MovesAreStages
    <2>4. ~ Accepted(at) /\ s.last # "accepted"
      BY <2>1, <2>2, <1>1 DEF Accepted, AfterVerdict, Stage
    <2>5. op'[at] = s /\ \A i \in 1..(at - 1) : Accepted(i)'
      BY <2>1, <2>3, <2>4, <1>1, OneMoved
    <2>6. UNCHANGED <<at, budget, fresh>>
      BY <1>7 DEF Judge
    <2>7. reason' \in Failure \cup {None} /\ (pc' = "fail" => reason' # None)
      BY <2>1, <2>3, FailuresAreFailures, NoneAssumption
         DEF Fails, SInv, SequenceTypeOK
    <2>8. pc' \in {"accept", "call", "fail"}
      BY <2>1 DEF Fails
    <2>9. PlaceOK'
      BY <2>1, <2>4, <2>5, <2>6, <2>7, <2>8, <1>1
         DEF Fails, PlaceOK, Busy, OperationStep, Accepted
    <2>10. QED BY <2>1, <2>3, <2>4, <2>6, <2>7, <2>9, <1>1, <1>3
  <1>8. CASE Accept
    <2>1. op' = [op EXCEPT ![at] = AfterAccept(op[at])]
      BY <1>8 DEF Accept
    <2>2. op[at].last = "fit"
      BY <1>8 DEF Accept, SInv, PlaceOK
    <2>3. /\ AfterAccept(op[at]) \in Stage /\ StageOK(AfterAccept(op[at]))
          /\ AfterAccept(op[at]).last = "accepted"
      BY <2>2, <1>1, MovesAreStages DEF AfterAccept, Stage
    <2>4. ~ Accepted(at)
      BY <2>2 DEF Accepted
    <2>5. op'[at] = AfterAccept(op[at]) /\ \A i \in 1..(at - 1) : Accepted(i)'
      BY <2>1, <2>3, <2>4, <1>1, OneMoved
    <2>6. PlaceOK'
      BY <2>5, <2>3, <1>8, <1>1 DEF Accept, PlaceOK, Busy, OperationStep, Accepted
    <2>7. Rest
      BY <1>8, <1>1 DEF Accept
    <2>8. QED BY <2>1, <2>3, <2>4, <2>6, <2>7, <1>8, <1>1, <1>3
              DEF Accept, SInv, SequenceTypeOK
  <1>9. QED BY <1>4, <1>5, <1>6, <1>7, <1>8 DEF Operate

-----------------------------------------------------------------------------
(* A step of the operation touches no other, nothing once it is accepted,  *)
(* and asks the model only where the stage allows it.                      *)
LEMMA OperateTouches ==
    ASSUME SInv, Operate
    PROVE  /\ at \in 1..N
           /\ \A i \in 1..N : i # at => op'[i] = op[i]
           /\ Accepted(at) => op' = op
           /\ op'[at].calls > op[at].calls => MayAsk(op[at])
  <1>1. at \in 1..N /\ op \in [1..N -> Stage] /\ op[at] \in Stage
    BY DEF Operate, Pick, Return, AskAgain, Judge, Accept, OperationStep, SInv,
           SequenceTypeOK, PlaceOK, Busy
  <1>2. CASE op' = op
    BY <1>1, <1>2 DEF Stage
  <1>3. ASSUME NEW s, op' = [op EXCEPT ![at] = s], ~ Accepted(at),
               s.calls = op[at].calls \/ MayAsk(op[at])
        PROVE  /\ \A i \in 1..N : i # at => op'[i] = op[i]
               /\ Accepted(at) => op' = op
               /\ op'[at].calls > op[at].calls => MayAsk(op[at])
    BY <1>1, <1>3 DEF Stage
  <1>4. StageOK(op[at])
    BY <1>1 DEF SInv
  <1>5. CASE Pick
    <2>1. CASE MayAsk(op[at]) /\ op' = [op EXCEPT ![at] = AfterAsk(@)]
      <3>1. ~ Accepted(at) /\ op' = [op EXCEPT ![at] = AfterAsk(op[at])]
        BY <2>1 DEF MayAsk, Accepted
      <3>2. QED BY <2>1, <3>1, <1>1, <1>3
    <2>2. QED BY <2>1, <1>2, <1>1, <1>5 DEF Pick
  <1>6. CASE Return
    <2>1. PICK s \in AfterCall(op[at]) : op' = [op EXCEPT ![at] = s]
      BY <1>6 DEF Return
    <2>2. op[at].last = "open"
      BY <1>6 DEF Return
    <2>3. s.calls = op[at].calls
      BY <2>1, <2>2, <1>1, <1>4, MovesAreStages
    <2>4. ~ Accepted(at)
      BY <2>2 DEF Accepted
    <2>5. QED BY <2>1, <2>3, <2>4, <1>1, <1>3
  <1>7. CASE AskAgain
    <2>1. /\ op' = [op EXCEPT ![at] = AfterAsk(op[at])]
          /\ MayAsk(op[at]) /\ ~ Accepted(at)
      BY <1>7 DEF AskAgain, MayAsk, Accepted
    <2>2. QED BY <2>1, <1>1, <1>3
  <1>8. CASE Judge
    <2>1. PICK s \in AfterVerdict(op[at]) : op' = [op EXCEPT ![at] = s]
      BY <1>8 DEF Judge
    <2>2. op[at].last = "answered" /\ ~ Accepted(at)
      BY <1>8 DEF Judge, SInv, PlaceOK, Accepted
    <2>3. s.calls = op[at].calls
      BY <2>1, <2>2, <1>1, <1>4, MovesAreStages
    <2>4. QED BY <2>1, <2>2, <2>3, <1>1, <1>3
  <1>9. CASE Accept
    <2>1. op[at].last = "fit" /\ ~ Accepted(at)
      BY <1>9 DEF Accept, SInv, PlaceOK, Accepted
    <2>2. /\ op' = [op EXCEPT ![at] = AfterAccept(op[at])]
          /\ AfterAccept(op[at]).calls = op[at].calls
      BY <2>1, <1>9, <1>1, <1>4, MovesAreStages DEF Accept
    <2>3. QED BY <2>1, <2>2, <1>1, <1>3
  <1>10. QED BY <1>5, <1>6, <1>7, <1>8, <1>9 DEF Operate

(* No accepted operation is touched again.                                 *)
LEMMA AcceptedStays ==
    ASSUME SInv, Operate, NEW i \in 1..N, Accepted(i) PROVE op'[i] = op[i]
  BY OperateTouches

(* No call is made while an earlier one failed or has no known end.        *)
LEMMA CallsAreAllowed ==
    ASSUME SInv, Operate, \E i \in 1..N : op'[i].calls > op[i].calls
    PROVE  \A i \in 1..N : op[i].last \notin {"open", "failed", "lost"}
  <1>1. /\ at \in 1..N /\ N \in Nat /\ op \in [1..N -> Stage]
        /\ \A i \in 1..(at - 1) : Accepted(i)
    BY SizeAssumption
       DEF Operate, Pick, Return, AskAgain, Judge, Accept, OperationStep, SInv,
           SequenceTypeOK, PlaceOK, Busy
  <1>2. PICK k \in 1..N : op'[k].calls > op[k].calls
    OBVIOUS
  <1>3. k = at
    BY <1>1, <1>2, OperateTouches DEF Stage
  <1>4. MayAsk(op[at])
    BY <1>2, <1>3, OperateTouches
  <1>5. TAKE i \in 1..N
  <1>6. CASE i < at
    BY <1>6, <1>1 DEF Accepted
  <1>7. CASE i = at
    BY <1>7, <1>4 DEF MayAsk
  <1>8. CASE i > at
    <2>1. ~ Accepted(at)
      BY <1>4 DEF MayAsk, Accepted
    <2>2. op[i].calls = 0
      BY <2>1, <1>8, <1>1 DEF SInv, OperationsInOrder, Stage
    <2>3. op[i].last = "none"
      BY <2>2 DEF SInv, StageOK
    <2>4. QED BY <2>3
  <1>9. QED BY <1>6, <1>7, <1>8, <1>1

-----------------------------------------------------------------------------
(* Where a step of the operation leads; it fails only over a dead stage.   *)
LEMMA OperateGoes ==
    ASSUME SInv, Operate
    PROVE  /\ pc \in {"pick", "call", "judge", "accept"}
           /\ pc' \in {"call", "judge", "accept", "save", "fail"}
           /\ at' = at
           /\ pc' = "fail" => IsDead(op'[at])
  <1>1. /\ pc \in {"pick", "call", "judge", "accept"}
        /\ pc' \in {"call", "judge", "accept", "save", "fail"}
        /\ at' = at
    BY DEF Operate, Pick, Return, AskAgain, Judge, Accept, Fails
  <1>2. at \in 1..N /\ op \in [1..N -> Stage] /\ op[at] \in Stage /\ StageOK(op[at])
    BY <1>1 DEF SInv, SequenceTypeOK, PlaceOK, Busy, OperationStep
  <1>3. CASE Pick
    BY <1>3 DEF Pick, Fails
  <1>4. CASE Return
    <2>1. PICK s \in AfterCall(op[at]) :
            /\ op' = [op EXCEPT ![at] = s]
            /\ pc' = "fail" => s.last # "answered" /\ ~ MayAsk(s)
      BY <1>4 DEF Return, Fails
    <2>2. op'[at] = s /\ s.last \in {"answered", "refused", "failed", "lost"}
      BY <2>1, <1>2 DEF AfterCall, Stage
    <2>3. QED BY <1>1, <2>1, <2>2 DEF IsDead
  <1>5. CASE Judge
    <2>1. PICK s \in AfterVerdict(op[at]) :
            /\ op' = [op EXCEPT ![at] = s]
            /\ pc' = "fail" => s.last = "poor" /\ ~ MayAsk(s)
      BY <1>5 DEF Judge, Fails
    <2>2. s \in Stage /\ StageOK(s) /\ op'[at] = s
      BY <2>1, <1>2, <1>5, MovesAreStages DEF SInv, PlaceOK, Judge
    <2>3. pc' = "fail" => s.last = "poor" /\ s.calls = 2
      BY <2>1, <2>2 DEF MayAsk, Stage, StageOK
    <2>4. QED BY <1>1, <2>2, <2>3 DEF IsDead
  <1>6. CASE AskAgain \/ Accept
    BY <1>1, <1>6 DEF AskAgain, Accept
  <1>7. QED BY <1>1, <1>3, <1>4, <1>5, <1>6 DEF Operate

(* The first operation that is dead on disk is as far as any gets.         *)
FirstDead(i) == IsDead(op[i]) /\ \A j \in 1..(i - 1) : Accepted(j)

LEMMA DeadIsNotAccepted ==
    ASSUME NEW i \in 1..N, IsDead(op[i]) PROVE ~ Accepted(i)
  BY DEF IsDead, Accepted

(* The operation an invocation is at is that one, or an accepted one before*)
(* it.                                                                     *)
LEMMA AtFirstDead ==
    ASSUME SInv, pc \in Busy, NEW i \in 1..N, FirstDead(i)
    PROVE  /\ at \in 1..N
           /\ at = i \/ Accepted(at)
  <1>1. at \in 1..N /\ \A j \in 1..(at - 1) : Accepted(j)
    BY DEF SInv, PlaceOK
  <1>2. ~ (i < at)
    BY <1>1, DeadIsNotAccepted DEF FirstDead
  <1>3. at < i => Accepted(at)
    BY <1>1 DEF FirstDead
  <1>4. QED BY <1>1, <1>2, <1>3

(* A step from "pick" then leaves all records as they are.                 *)
LEMMA DeadIsNotPassed ==
    ASSUME SInv, Operate, pc = "pick", NEW i \in 1..N, FirstDead(i)
    PROVE  op' = op /\ pc' \in {"save", "fail"}
  <1>1. Pick /\ (IsDead(op[at]) \/ Accepted(at))
    BY AtFirstDead DEF Operate, Return, AskAgain, Judge, Accept, Busy, OperationStep, FirstDead
  <1>2. QED BY <1>1 DEF Pick, Fails, IsDead, Accepted, MayAsk
=============================================================================
