------------------------ MODULE FiniteModelOperation ------------------------
(***************************************************************************)
(* One finite model operation of scoim (finite_model_operation.py): a      *)
(* typed question is put to a language model at most twice, every step of  *)
(* the exchange is saved below the run directory before the next one is    *)
(* taken, and the first valid response is accepted.  A process may stop    *)
(* between any two writes; a later process reads the saved records and     *)
(* goes on from them.  Nothing locks the run directory, so Proc may hold   *)
(* more than one process.                                                  *)
(*                                                                         *)
(* Saved records (they survive a crash):                                   *)
(*   attempts   attempts/<operation>/attempt-NNN, oldest first             *)
(*   ticket     repairs/<operation>.json, the response it asks to repair   *)
(*   accepted   events/<operation>/accepted.json                           *)
(* Memory of a process (lost in a crash):                                  *)
(*   pc, cur, run, repairing, source                                       *)
(***************************************************************************)
EXTENDS Naturals, Sequences, FiniteSets

CONSTANTS
    Proc,       \* processes that may execute the operation
    Response,   \* the bytes a runner may return
    Valid,      \* those that decode to an object and pass schema and content
    Limit,      \* max_calls of the run's RunStore
    Original,   \* the prompt of the first question
    None        \* an absent file or value

ASSUME ResponseAssumption ==
    /\ Valid \subseteq Response
    /\ Original \notin Response
    /\ None \notin Response \cup {Original, "completed", "failed", "interrupted",
                                   "valid", "invalid", "content", "other"}
    /\ Response \cap {"pending", "refused", "lost"} = {}

ASSUME LimitAssumption == Limit \in Nat \ {0}

ASSUME ProcAssumption == IsFiniteSet(Proc)

VARIABLES attempts, ticket, accepted, pc, cur, run, repairing, source

records == <<attempts, ticket, accepted>>
memory == <<pc, cur, run, repairing, source>>
vars == <<records, memory>>

-----------------------------------------------------------------------------
(* What a runner may report (proposal.ProposalRun).  "timeout" stands for  *)
(* the states timeout and interrupted, which the code treats alike; issue  *)
(* says whether every reported issue is MODEL_OUTPUT_INVALID ("content").  *)
RunnerResult ==
    [state : {"completed", "failed", "timeout"},
     raw : Response \cup {None},
     issue : {"none", "content", "other"}]

IsContentFailure(r) ==
    r.state = "completed" /\ r.raw # None /\ r.issue = "content"

(* Faulty: every answer with bytes is worth a repair.                      *)
HasBytes(r) == r.raw # None

(* An answer that was delivered, whatever its content.                     *)
IsUsable(r) ==
    \/ r.state = "completed" /\ r.raw # None /\ r.issue = "none"
    \/ IsContentFailure(r)

TerminalStatus(r) ==
    IF r.state = "completed" /\ r.raw # None /\ r.issue = "none" THEN "completed"
    ELSE IF r.state = "timeout" THEN "interrupted" ELSE "failed"

(* What runner.json tells of the run.                                      *)
Report(r) == IF IsContentFailure(r) THEN "content" ELSE "other"

(* prompt is the original prompt or, for a repair, the response it quotes; *)
(* terminal.json of a completed attempt holds the hash of staged.          *)
Attempt ==
    [prompt : Response \cup {Original},
     report : {"content", "other", None},
     staged : Response \cup {None},
     terminal : {"completed", "failed", "interrupted", None},
     validation : {"valid", "invalid", None}]

NewAttempt(prompt) ==
    [prompt |-> prompt, report |-> None, staged |-> None,
     terminal |-> None, validation |-> None]

Acceptance ==
    [attempt : Nat \ {0}, response : Response, repaired : BOOLEAN]

ASSUME AcceptanceAssumption == None \notin Acceptance

(* The ways one invocation ends: the four outcomes of the result, then the *)
(* exceptions StateConflictError, OSError (the attempt directory exists)   *)
(* and RuntimeError (the call limit).                                      *)
Outcome == {"complete", "content_invalid", "runner_failed", "interrupted",
            "conflict", "os_error", "limit"}

Step == {"lookup", "scan", "number", "count", "rename", "call", "stage", "finalize",
         "validate", "write_validation", "ticket", "write_ticket",
         "accept", "write_accepted"}

TypeOK ==
    /\ attempts \in Seq(Attempt)
    /\ ticket \in Response \cup {None}
    /\ accepted \in Acceptance \cup {None}
    /\ pc \in [Proc -> {"idle"} \cup Step \cup Outcome]
    /\ cur \in [Proc -> Nat]
    /\ run \in [Proc -> RunnerResult \cup {None}]
    /\ repairing \in [Proc -> BOOLEAN]
    /\ source \in [Proc -> Response \cup {None}]

Init ==
    /\ attempts = <<>>
    /\ ticket = None
    /\ accepted = None
    /\ pc = [p \in Proc |-> "idle"]
    /\ cur = [p \in Proc |-> 0]
    /\ run = [p \in Proc |-> None]
    /\ repairing = [p \in Proc |-> FALSE]
    /\ source = [p \in Proc |-> None]

-----------------------------------------------------------------------------
Goto(p, step) == pc' = [pc EXCEPT ![p] = step]

(* _write_immutable_bytes tests the file and only then writes it: absent,  *)
(* go on to the write; equal, the record is already saved; different, the  *)
(* call raises StateConflictError.                                         *)
SaveOnce(p, saved, value, write, next) ==
    \/ saved = None /\ Goto(p, write)
    \/ saved = value /\ Goto(p, next)
    \/ saved \notin {None, value} /\ Goto(p, "conflict")

Forget(p) ==
    /\ cur' = [cur EXCEPT ![p] = 0]
    /\ run' = [run EXCEPT ![p] = None]
    /\ repairing' = [repairing EXCEPT ![p] = FALSE]
    /\ source' = [source EXCEPT ![p] = None]

(* An invocation begins; nothing says how often the operation is invoked.  *)
Start(p) ==
    /\ pc[p] \in {"idle"} \cup Outcome
    /\ Goto(p, "lookup")
    /\ Forget(p)
    /\ UNCHANGED records

(* The process stops, between two writes or during the model call.         *)
Crash(p) ==
    /\ pc[p] \in Step
    /\ Goto(p, "idle")
    /\ Forget(p)
    /\ UNCHANGED records

-----------------------------------------------------------------------------
(* The links read_accepted_model_operation follows from accepted.json.     *)
Intact(a) ==
    /\ a.response \in Valid
    /\ a.attempt \in 1..Len(attempts)
    /\ attempts[a.attempt].staged = a.response
    /\ attempts[a.attempt].validation = "valid"
    /\ attempts[a.attempt].terminal = "completed"

ReadAccepted(p) ==
    /\ pc[p] = "lookup"
    /\ Goto(p, IF accepted = None THEN "scan"
               ELSE IF Intact(accepted) THEN "complete" ELSE "conflict")
    /\ UNCHANGED <<records, cur, run, repairing, source>>

Unfinished == {n \in 1..Len(attempts) : attempts[n].terminal = None}

Latest == attempts[Len(attempts)]

NothingAsked == attempts = <<>>

AnsweredAndJudged ==                                   \* faulty: forgets answers
    /\ Latest.terminal = "completed"
    /\ Latest.staged # None
    /\ Latest.validation # None

Answered == Latest.terminal = "completed" /\ Latest.staged # None

RepairedTwice == Len(attempts) > 2                     \* faulty: off by one

IsRepaired == Len(attempts) > 1

(* What the saved attempts of an unaccepted operation allow: a first call, *)
(* another look at a completed one, or nothing because the last call       *)
(* failed, was interrupted, or has no known end.                           *)
InspectAttempts(p) ==
    /\ pc[p] = "scan"
    /\ \/ NothingAsked /\ Goto(p, "number")
       \/ ~ NothingAsked /\ Unfinished # {} /\ Goto(p, "interrupted")
       \/ /\ ~ NothingAsked /\ Unfinished = {}
          /\ \/ Answered /\ Goto(p, "validate")
             \/ Latest.terminal = "failed" /\ Goto(p, "runner_failed")
             \/ ~ Answered /\ Latest.terminal # "failed" /\ Goto(p, "interrupted")
    /\ cur' = [cur EXCEPT ![p] = Len(attempts)]
    /\ repairing' = [repairing EXCEPT ![p] = IsRepaired]
    /\ UNCHANGED <<records, run, source>>

-----------------------------------------------------------------------------
(* RunStore.reserve_attempt looks at the directories twice: at all of them *)
(* for the limit of the run ...                                            *)
CheckLimit(p) ==
    /\ pc[p] = "number"
    /\ Goto(p, IF Len(attempts) >= Limit THEN "limit" ELSE "count")
    /\ UNCHANGED <<records, cur, run, repairing, source>>

(* ... then at those of the operation for the number of the new one; what  *)
(* other processes have placed in between is counted, not checked again.   *)
NumberAttempt(p) ==
    /\ pc[p] = "count"
    /\ Goto(p, "rename")
    /\ cur' = [cur EXCEPT ![p] = Len(attempts) + 1]
    /\ UNCHANGED <<records, run, repairing, source>>

PromptOf(p) == IF repairing[p] THEN source[p] ELSE Original

(* Faulty: the repair is asked in the directory of the first attempt.      *)
PlaceAttemptOver(p) ==
    /\ pc[p] = "rename"
    /\ attempts' = <<NewAttempt(PromptOf(p))>>
    /\ Goto(p, "call")
    /\ cur' = [cur EXCEPT ![p] = 1]
    /\ UNCHANGED <<ticket, accepted, run, repairing, source>>

(* Faulty: a directory that another process has just made is used as well. *)
PlaceAttemptInside(p) ==
    /\ pc[p] = "rename"
    /\ attempts' = IF cur[p] <= Len(attempts) THEN attempts
                   ELSE Append(attempts, NewAttempt(PromptOf(p)))
    /\ Goto(p, "call")
    /\ UNCHANGED <<ticket, accepted, cur, run, repairing, source>>

(* ... and a finished directory is then renamed to that number, which      *)
(* fails when another process has taken the number meanwhile.              *)
PlaceAttempt(p) ==
    /\ pc[p] = "rename"
    /\ cur[p] = Len(attempts) + 1
    /\ attempts' = Append(attempts, NewAttempt(PromptOf(p)))
    /\ Goto(p, "call")
    /\ UNCHANGED <<ticket, accepted, cur, run, repairing, source>>

AttemptTaken(p) ==
    /\ pc[p] = "rename"
    /\ cur[p] # Len(attempts) + 1
    /\ Goto(p, "os_error")
    /\ UNCHANGED <<records, cur, run, repairing, source>>

CallRunner(p) ==
    /\ pc[p] = "call"
    /\ \E r \in RunnerResult : run' = [run EXCEPT ![p] = r]
    /\ Goto(p, "stage")
    /\ UNCHANGED <<records, cur, repairing, source>>

(* A record is added to the directory of the attempt the process works on. *)
SaveInAttempt(p, attempt) ==
    attempts' = [attempts EXCEPT ![cur[p]] = attempt]

(* runner.json and, when the runner returned bytes, response.staged.json.  *)
StageResponse(p) ==
    /\ pc[p] = "stage"
    /\ SaveInAttempt(p, [attempts[cur[p]] EXCEPT !.report = Report(run[p]),
                                                 !.staged = run[p].raw])
    /\ Goto(p, "finalize")
    /\ UNCHANGED <<ticket, accepted, cur, run, repairing, source>>

(* A run without a usable response ends the invocation, unless its content *)
(* is what failed: that is validated and repaired like an invalid object.  *)
FinalizeAttempt(p) ==
    /\ pc[p] = "finalize"
    /\ SaveInAttempt(p, [attempts[cur[p]] EXCEPT !.terminal = TerminalStatus(run[p])])
    /\ Goto(p, IF IsUsable(run[p]) THEN "validate" ELSE "runner_failed")
    /\ run' = [run EXCEPT ![p] = None]
    /\ UNCHANGED <<ticket, accepted, cur, repairing, source>>

-----------------------------------------------------------------------------
Judgement(a) ==
    IF a.terminal = "completed" /\ a.staged \in Valid THEN "valid" ELSE "invalid"

AfterValidation(p) ==
    IF Judgement(attempts[cur[p]]) = "valid" THEN "accept"
    ELSE IF repairing[p] THEN "content_invalid" ELSE "ticket"

CheckValidation(p) ==
    /\ pc[p] = "validate"
    /\ SaveOnce(p, attempts[cur[p]].validation, Judgement(attempts[cur[p]]),
                "write_validation", AfterValidation(p))
    /\ UNCHANGED <<records, cur, run, repairing, source>>

WriteValidation(p) ==
    /\ pc[p] = "write_validation"
    /\ SaveInAttempt(p, [attempts[cur[p]] EXCEPT
                           !.validation = Judgement(attempts[cur[p]])])
    /\ Goto(p, AfterValidation(p))
    /\ UNCHANGED <<ticket, accepted, cur, run, repairing, source>>

(* _repair_operation saves the repair record before it asks again.         *)
Repairs(p) ==
    /\ repairing' = [repairing EXCEPT ![p] = TRUE]
    /\ source' = [source EXCEPT ![p] = attempts[cur[p]].staged]

CheckTicket(p) ==
    /\ pc[p] = "ticket"
    /\ SaveOnce(p, ticket, attempts[cur[p]].staged, "write_ticket", "number")
    /\ Repairs(p)
    /\ UNCHANGED <<records, cur, run>>

WriteTicket(p) ==
    /\ pc[p] = "write_ticket"
    /\ ticket' = source[p]
    /\ Goto(p, "number")
    /\ UNCHANGED <<attempts, accepted, cur, run, repairing, source>>

AcceptedRecord(p) ==
    [attempt |-> cur[p], response |-> attempts[cur[p]].staged,
     repaired |-> repairing[p]]

CheckAccepted(p) ==
    /\ pc[p] = "accept"
    /\ SaveOnce(p, accepted, AcceptedRecord(p), "write_accepted", "complete")
    /\ UNCHANGED <<records, cur, run, repairing, source>>

WriteAccepted(p) ==
    /\ pc[p] = "write_accepted"
    /\ accepted' = AcceptedRecord(p)
    /\ Goto(p, "complete")
    /\ UNCHANGED <<attempts, ticket, cur, run, repairing, source>>

-----------------------------------------------------------------------------
Advance(p) ==
    \/ ReadAccepted(p)
    \/ InspectAttempts(p)
    \/ CheckLimit(p)
    \/ NumberAttempt(p)
    \/ PlaceAttempt(p)
    \/ AttemptTaken(p)
    \/ CallRunner(p)
    \/ StageResponse(p)
    \/ FinalizeAttempt(p)
    \/ CheckValidation(p)
    \/ WriteValidation(p)
    \/ CheckTicket(p)
    \/ WriteTicket(p)
    \/ CheckAccepted(p)
    \/ WriteAccepted(p)

Next == \E p \in Proc : Start(p) \/ Crash(p) \/ Advance(p)

Spec == Init /\ [][Next]_vars

(* A running process takes its next step; the runner's timeout makes the   *)
(* model call one of them.  Nobody has to start a process, and it may stop.*)
FairSpec == Spec /\ \A p \in Proc : WF_vars(Advance(p))

-----------------------------------------------------------------------------
(* What the operation promises its caller, read off the saved attempts.    *)
Reply(a) ==
    IF a.terminal = None THEN "pending"
    ELSE IF a.terminal = "completed" THEN a.staged
    ELSE IF a.report = "content" THEN "refused" ELSE "lost"

Replies == [n \in 1..Len(attempts) |-> Reply(attempts[n])]

Result == IF accepted = None THEN None ELSE accepted.response

Promise == INSTANCE BoundedModelCall WITH replies <- Replies, result <- Result

(* The saved records implement that promise step by step.                  *)
KeepsPromise == Promise!Spec

(* The stage of the saved records, as the phases calling the operation see *)
(* it: they read the records through OperationStages.                      *)
Stages == INSTANCE OperationStages

LastStage ==
    IF attempts = <<>> THEN "none"
    ELSE IF accepted # None THEN "accepted"
    ELSE IF Latest.terminal = None THEN "open"
    ELSE IF Latest.terminal = "interrupted" THEN "lost"
    ELSE IF Latest.terminal = "failed"
         THEN IF Latest.report = "content" THEN "refused" ELSE "failed"
    ELSE IF Latest.validation = None THEN "answered"
    ELSE IF Latest.validation = "valid" THEN "fit" ELSE "poor"

SavedStage == [calls |-> Len(attempts), last |-> LastStage]

-----------------------------------------------------------------------------
(* The offline check of the saved records (check_finite_model_operation_   *)
(* records), as the resumed public run applies it.                         *)
RecordsPass ==
    /\ \A n \in 1..Len(attempts) :
          /\ attempts[n].terminal # None
          /\ attempts[n].terminal = "completed" => attempts[n].validation # None
    /\ accepted # None => Intact(accepted)

(* Whatever happened before, an accepted record names an attempt that      *)
(* completed, was found valid and holds that very response.                *)
AcceptedIsLinked == accepted # None => Intact(accepted)

(* Two processes never work in the same attempt directory while its model  *)
(* call is open: reserve_attempt gives one number away once.               *)
AttemptIsExclusive ==
    \A p, q \in Proc :
       /\ pc[p] \in {"call", "stage", "finalize"}
       /\ pc[q] \in {"call", "stage", "finalize"}
       /\ cur[p] = cur[q]
       => p = q

(* max_calls binds one process exactly; of several that pass the check of  *)
(* reserve_attempt together, each but the first may call once past it.     *)
LimitIsNearlyKept == Len(attempts) < Limit + Cardinality(Proc)

(* However many processes work in one directory, all of it holds.          *)
DirectoryHolds ==
    TypeOK /\ AcceptedIsLinked /\ AttemptIsExclusive /\ LimitIsNearlyKept

(* The model is asked at most twice, and the second time only to repair a  *)
(* delivered response that was found invalid and has its repair record.    *)
RepairsContentOnce ==
    /\ Len(attempts) <= 2
    /\ Len(attempts) >= 1 => attempts[1].prompt = Original
    /\ Len(attempts) = 2 =>
          /\ attempts[1].validation = "invalid"
          /\ attempts[1].staged \in Response
          /\ ticket = attempts[1].staged
          /\ attempts[2].prompt = ticket

(* No crash leaves records that a later invocation contradicts: it never   *)
(* meets a conflicting record, a taken directory or the call limit.        *)
NeverConflicts ==
    \A p \in Proc : pc[p] \notin {"conflict", "os_error", "limit"}

(* An outcome can be read off the saved records: complete leaves records   *)
(* the offline check passes, content_invalid only ends two rejected        *)
(* answers, and an operation that failed has accepted nothing.             *)
OutcomeMatchesRecords ==
    \A p \in Proc :
      /\ pc[p] = "complete" => accepted # None /\ RecordsPass
      /\ pc[p] = "content_invalid" =>
            /\ accepted = None
            /\ Len(attempts) = 2
            /\ \A n \in 1..2 : attempts[n].validation = "invalid"
      /\ pc[p] \in {"runner_failed", "interrupted"} =>
            /\ accepted = None
            /\ attempts # <<>>
            /\ attempts[Len(attempts)].terminal # "completed"

WrittenOnce(old, new) == old # None => new = old

RecordsKept ==
    /\ Len(attempts') >= Len(attempts)
    /\ \A n \in 1..Len(attempts) :
         /\ attempts'[n].prompt = attempts[n].prompt
         /\ WrittenOnce(attempts[n].staged, attempts'[n].staged)
         /\ WrittenOnce(attempts[n].terminal, attempts'[n].terminal)
         /\ WrittenOnce(attempts[n].validation, attempts'[n].validation)
    /\ WrittenOnce(ticket, ticket')
    /\ WrittenOnce(accepted, accepted')

(* Saved records are never removed or rewritten.                           *)
RecordsNeverRewritten == [][RecordsKept]_vars

AsksWhenSettled ==
    Len(attempts') > Len(attempts) => Unfinished = {} /\ accepted = None

(* The model is not asked again while the end of an earlier call is        *)
(* unknown, nor after a response was accepted.                             *)
NoCallAfterDoubt == [][AsksWhenSettled]_vars

StageMoves == SavedStage' # SavedStage => SavedStage' \in Stages!Moves(SavedStage)

FailsAsStaged(p) ==
    /\ Stages!IsDead(SavedStage')
    /\ pc'[p] = IF pc[p] = "scan" \/ SavedStage'.last = "poor"
                THEN Stages!SavedFailure(SavedStage').outcome
                ELSE Stages!LiveFailure(SavedStage').outcome

(* Seen from outside the records move only as OperationStages says, and an *)
(* invocation that ends on a dead stage reports one of its two failures.   *)
StagesFollowMoves ==
    [][/\ StageMoves
       /\ \A p \in Proc :
            pc'[p] # pc[p] /\ pc'[p] \in {"runner_failed", "interrupted",
                                        "content_invalid"}
            => FailsAsStaged(p)]_vars

(* No stop leaves records that a later invocation contradicts: the model is*)
(* asked twice at most, the second time about its rejected answer, and the *)
(* outcome can be read off the records.                                    *)
RecordsAgree ==
    TypeOK /\ RepairsContentOnce /\ NeverConflicts /\ OutcomeMatchesRecords

(* Records only grow, as OperationStages says, and never by a call while an*)
(* earlier one is in doubt.                                                *)
RecordsMoveForward == RecordsNeverRewritten /\ NoCallAfterDoubt /\ StagesFollowMoves

(* The last saved answer is valid although no process accepted it.         *)
Recoverable ==
    /\ accepted = None
    /\ Len(attempts) > 0
    /\ attempts[Len(attempts)].terminal = "completed"
    /\ attempts[Len(attempts)].staged \in Valid

(* An invocation that is not stopped ends with an outcome.                 *)
InvocationEnds ==
    \A p \in Proc : pc[p] = "lookup" ~> pc[p] \in {"idle"} \cup Outcome

(* A valid answer whose acceptance was interrupted is accepted by the next *)
(* invocation that is not stopped, without another call.                   *)
RecoversAnswer ==
    \A p \in Proc :
        pc[p] = "lookup" /\ Recoverable ~> accepted # None \/ pc[p] = "idle"

(* An invocation that is not stopped ends, and accepts a valid answer that *)
(* an earlier one has left.                                                *)
AnswersAreRecovered == InvocationEnds /\ RecoversAnswer
=============================================================================
