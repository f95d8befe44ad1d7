-------------------------- MODULE OperationSequence --------------------------
(***************************************************************************)
(* A recorded phase executes its finite model operations one after the     *)
(* other (the loops of realize_phase3, realize_score and realize_phase7).  *)
(* The actions here take the operation at from what its saved records say  *)
(* to "save", when its response is accepted, or to "fail"; the phase that  *)
(* extends this module says what it saves around them.                     *)
(***************************************************************************)
EXTENDS OperationStages

CONSTANTS
    N,          \* operations of the phase
    None        \* an absent file or value

ASSUME SizeAssumption == N \in Nat \ {0}

ASSUME NoneAssumption == None \notin Failure

VARIABLES
    op,         \* the stage of the saved records of each operation
    pc, at,     \* the next step of the phase, and the operation it is for
    budget,     \* max_new_operations of the invocation, or None
    fresh,      \* operations this invocation accepted
    reason      \* the failure the phase is about to report

sequence == <<op, pc, at, budget, fresh, reason>>

OperationStep == {"pick", "call", "judge", "accept", "save", "fail"}

FailureOutcome == {"runner_failed", "interrupted", "content_invalid"}

SequenceTypeOK ==
    /\ op \in [1..N -> Stage]
    /\ at \in 0..N
    /\ budget \in {None} \cup 1..N
    /\ fresh \in 0..N
    /\ reason \in Failure \cup {None}

SequenceInit ==
    /\ op = [i \in 1..N |-> Untouched]
    /\ pc = "idle" /\ at = 0 /\ fresh = 0
    /\ budget = None /\ reason = None

Accepted(i) == op[i].last = "accepted"

(* call_attempt_count counts the attempts of all operations.  None of them *)
(* ever decreases, so two sums are equal exactly when all counts are.      *)
Calls == [i \in 1..N |-> op[i].calls]

-----------------------------------------------------------------------------
(* An invocation starts before the first operation.                        *)
Begin(next) ==
    /\ pc' = next
    /\ at' = 1
    /\ budget' \in {None} \cup 1..N
    /\ fresh' = 0
    /\ reason' = None
    /\ UNCHANGED op

(* The process stops; only the records are left.                           *)
Stop ==
    /\ pc' = "idle" /\ at' = 0 /\ fresh' = 0
    /\ budget' = None /\ reason' = None
    /\ UNCHANGED op

Fails(failure) == reason' = failure /\ pc' = "fail"

Pauses ==
    /\ pc = "pick"
    /\ ~ Accepted(at)
    /\ budget # None
    /\ fresh >= budget

(* execute_finite_model_operation looks at what is saved.                  *)
Pick ==
    /\ pc = "pick" /\ ~ Pauses
    /\ \/ Accepted(at) /\ pc' = "save" /\ UNCHANGED <<op, reason>>
       \/ IsDead(op[at]) /\ Fails(SavedFailure(op[at])) /\ UNCHANGED op
       \/ /\ MayAsk(op[at]) /\ ~ IsDead(op[at])
          /\ op' = [op EXCEPT ![at] = AfterAsk(@)]
          /\ pc' = "call" /\ UNCHANGED reason
       \/ op[at].last = "answered" /\ pc' = "judge" /\ UNCHANGED <<op, reason>>
       \/ op[at].last = "fit" /\ pc' = "accept" /\ UNCHANGED <<op, reason>>
    /\ UNCHANGED <<at, budget, fresh>>

(* The call ends; content the runner refused is asked for once more.       *)
Return ==
    /\ pc = "call"
    /\ op[at].last = "open"
    /\ \E s \in AfterCall(op[at]) :
          /\ op' = [op EXCEPT ![at] = s]
          /\ \/ s.last = "answered" /\ pc' = "judge" /\ UNCHANGED reason
             \/ MayAsk(s) /\ pc' = "call" /\ UNCHANGED reason
             \/ s.last # "answered" /\ ~ MayAsk(s) /\ Fails(LiveFailure(s))
    /\ UNCHANGED <<at, budget, fresh>>

AskAgain ==
    /\ pc = "call"
    /\ MayAsk(op[at])
    /\ op' = [op EXCEPT ![at] = AfterAsk(@)]
    /\ UNCHANGED <<pc, at, budget, fresh, reason>>

Judge ==
    /\ pc = "judge"
    /\ \E s \in AfterVerdict(op[at]) :
          /\ op' = [op EXCEPT ![at] = s]
          /\ \/ s.last = "fit" /\ pc' = "accept" /\ UNCHANGED reason
             \/ MayAsk(s) /\ pc' = "call" /\ UNCHANGED reason
             \/ s.last = "poor" /\ ~ MayAsk(s) /\ Fails(LiveFailure(s))
    /\ UNCHANGED <<at, budget, fresh>>

Accept ==
    /\ pc = "accept"
    /\ op' = [op EXCEPT ![at] = AfterAccept(@)]
    /\ fresh' = fresh + 1
    /\ pc' = "save"
    /\ UNCHANGED <<at, budget, reason>>

Operate == Pick \/ Return \/ AskAgain \/ Judge \/ Accept

ProceedsByFresh(last) ==                 \* faulty: counts new operations only
    /\ IF fresh = N THEN pc' = last /\ UNCHANGED at
                    ELSE pc' = "pick" /\ at' = fresh + 1
    /\ UNCHANGED <<op, budget, fresh, reason>>

(* The loop goes on with the next operation or leaves for last.            *)
ProceedTo(last) ==
    /\ IF at = N THEN pc' = last /\ UNCHANGED at
                 ELSE pc' = "pick" /\ at' = at + 1
    /\ UNCHANGED <<op, budget, fresh, reason>>

Goto(next) == pc' = next /\ UNCHANGED <<op, at, budget, fresh, reason>>

(* _write_immutable_json with the saved and the new content of a file.     *)
WritesOnce(saved, value, next) ==
    Goto(IF saved \in {None, value} THEN next ELSE "conflict")

WrittenLatest(saved, value) == value                   \* faulty: overwrites

Written(saved, value) == IF saved = None THEN value ELSE saved

-----------------------------------------------------------------------------
(* An operation is only asked for once every operation it builds on has    *)
(* been accepted.                                                          *)
OperationsInOrder ==
    \A i, j \in 1..N : i < j /\ op[j].calls > 0 => Accepted(i)

(* The model is never asked while an earlier call of the phase failed for  *)
(* another reason than its content or has no known end.                    *)
NoCallAfterFailedCall ==
    [][(\E i \in 1..N : op'[i].calls > op[i].calls) =>
         \A i \in 1..N : op[i].last \notin {"open", "failed", "lost"}]_sequence
=============================================================================
