--------------------------- MODULE RealizationRun ---------------------------
(***************************************************************************)
(* A workspace run: a list of operations, each with its saved attempts,    *)
(* response, checked diff and review, from which the state is rebuilt      *)
(* (scoim.realization_run and the advance functions of                     *)
(* realization_operations).  Processes advance the run or review it; each  *)
(* record is immutable and written under a lock that refuses to wait and   *)
(* that a stop frees.  Between the looks and the locks anything may happen.*)
(*                                                                         *)
(* A workspace is the sequence of what the applied diffs have written, one *)
(* answer per operation.  A diff remembers the workspace it was built on,  *)
(* which stands for the read hashes it is checked against.                 *)
(***************************************************************************)
EXTENDS Naturals, Sequences

CONSTANTS
    Proc,
    Reviewer,           \* the processes that also review
    Answer,             \* what the model or a reviewer may answer
    Bad,                \* ... with issues whatever the workspace
    Awkward,            \* ... no deterministic operation can build on it
    N,                  \* number of operations
    Uses,               \* of each operation, those before it whose values it reads
    Modelled,           \* the operations that call the model
    Checked,            \* ... those of them with execute_checked_model_call
    Reviewed,           \* review_after
    RepairLimit,        \* content_repair_limit
    MaxCrash,           \* bound: how many processes are stopped
    None

Op == 1 .. N

VARIABLES
    request, attempts, response, diff, review,      \* the records of each operation
    lock, crashes,
    pc,                 \* of each process: its next step, or how it ended
    seen,               \* ... the workspace it rebuilt
    at,                 \* ... the operation it works on
    held,               \* ... the answer it has in hand
    choice              \* ... a reviewer's decision

disk == <<request, attempts, response, diff, review>>
mind == <<seen, at, held, choice>>
vars == <<disk, lock, crashes, pc, mind>>

Written == Answer \cup {None}
Workspace == Seq(Written)
Diff == [base : Workspace, answer : Written]
Choice == [decision : {"approve"}] \cup [decision : {"replace"}, answer : Answer]
Review == [decision : {"approve"}] \cup [decision : {"replace"}, diff : Diff]
Attempt == [answer : Written, ended : {"open", "completed", "failed", "interrupted"}]

(* How an invocation of the run ends, as far as it matters here: unable is *)
(* told that the run is in progress or the runner unavailable, and over is *)
(* everything else, a status, a recorded review or another error.          *)
Outcome == {"over", "unable", "conflict"}

Locked == {"execute", "ask", "asked", "inspect", "save", "keep", "note"}
Working == Locked \cup {"look", "call", "build", "review", "replace", "decide"}

TypeOK ==
    /\ request \in [Op -> BOOLEAN]
    /\ attempts \in [Op -> Seq(Attempt)]
    /\ response \in [Op -> Written]
    /\ diff \in [Op -> Diff \cup {None}]
    /\ review \in [Op -> Review \cup {None}]
    /\ lock \in Proc \cup {None} /\ crashes \in 0 .. MaxCrash
    /\ pc \in [Proc -> Working \cup Outcome]
    /\ seen \in [Proc -> Workspace]
    /\ at \in [Proc -> Op \cup {None}]
    /\ held \in [Proc -> Written]
    /\ choice \in [Proc -> Choice \cup {None}]
    /\ \A p \in Proc : pc[p] \in Locked <=> lock = p

Init ==
    /\ request = [i \in Op |-> FALSE]
    /\ attempts = [i \in Op |-> <<>>]
    /\ response = [i \in Op |-> None]
    /\ diff = [i \in Op |-> None]
    /\ review = [i \in Op |-> None]
    /\ lock = None /\ crashes = 0
    /\ pc = [p \in Proc |-> "over"]
    /\ seen = [p \in Proc |-> <<>>]
    /\ at = [p \in Proc |-> None]
    /\ held = [p \in Proc |-> None]
    /\ choice = [p \in Proc |-> None]

-----------------------------------------------------------------------------
(* What its check finds wrong with a diff of operation i: the answer, or a *)
(* value it reads that is not there or that it can make nothing of.        *)
Flawed(i, d) ==
    \/ d.answer \in Bad
    \/ ~ (Uses[i] \subseteq DOMAIN d.base)
    \/ i \notin Modelled /\ \E k \in Uses[i] : d.base[k] \in Awkward

Decided(i) == diff[i] # None /\ (i \in Reviewed => review[i] # None)

(* The diff of operation i that counts: its own or the one of its review.  *)
Effective(i) ==
    IF i \in Reviewed /\ review[i].decision = "replace" THEN review[i].diff ELSE diff[i]

(* apply_checked_diff takes a diff without issues that was built on this   *)
(* revision, whether or not it reads what the last operations have written.*)
Applies(i) ==
    /\ Decided(i)
    /\ ~ Flawed(i, Effective(i))
    /\ Effective(i).base = [k \in 1 .. i - 1 |-> Effective(k).answer]

(* rebuild: operations apply in order, up to the first that does not.      *)
Completed == CHOOSE n \in 0 .. N : /\ \A i \in 1 .. n : Applies(i)
                                   /\ n < N => ~ Applies(n + 1)

Applied == [i \in 1 .. Completed |-> Effective(i).answer]

Following == Completed + 1

Status ==
    IF Completed = N THEN "completed"
    ELSE IF diff[Following] = None THEN "running"
    ELSE IF ~ Decided(Following) THEN "awaiting_review"
    ELSE "failed"

-----------------------------------------------------------------------------
Goes(p, next) == pc' = [pc EXCEPT ![p] = next]

Knows(p, base, i, a, c) ==
    /\ seen' = [seen EXCEPT ![p] = base]
    /\ at' = [at EXCEPT ![p] = i]
    /\ held' = [held EXCEPT ![p] = a]
    /\ choice' = [choice EXCEPT ![p] = c]

(* The invocation ends with an outcome and forgets.                        *)
Ends(p, outcome) == Goes(p, outcome) /\ Knows(p, <<>>, None, None, None)

Leaves(p, outcome) == Ends(p, outcome) /\ lock' = None

Idle(p) == pc[p] \in Outcome

StartAdvance(p) ==
    /\ Idle(p)
    /\ Goes(p, "look")
    /\ UNCHANGED <<disk, lock, crashes, mind>>

(* The loop of the advance functions.  An operation that calls no model    *)
(* has its diff built at once.                                             *)
Look(p) ==
    /\ pc[p] = "look"
    /\ IF Status # "running" THEN Ends(p, "over")
       ELSE /\ Knows(p, Applied, Following, None, None)
            /\ Goes(p, IF Following \in Modelled THEN "call" ELSE "build")
    /\ UNCHANGED <<disk, lock, crashes>>

(* What each lock is taken for.                                            *)
Inside == [call |-> "execute", build |-> "keep", decide |-> "note"]

(* RunLock is refused at once when another process has it.                 *)
TakeLock(p) ==
    /\ pc[p] \in DOMAIN Inside
    /\ IF lock = None THEN lock' = p /\ Goes(p, Inside[pc[p]]) /\ UNCHANGED mind
       ELSE Ends(p, "unable") /\ UNCHANGED lock
    /\ UNCHANGED <<disk, crashes>>

Latest(i) == attempts[i][Len(attempts[i])]

Holds(p, a) == held' = [held EXCEPT ![p] = a] /\ UNCHANGED <<seen, at, choice>>

ExecuteRecoverAny(p) ==                      \* faulty: how an attempt ended is not read
    /\ pc[p] = "execute"
    /\ LET i == at[p] IN
       IF response[i] # None
       THEN lock' = None /\ Holds(p, response[i]) /\ Goes(p, "build") /\ UNCHANGED request
       ELSE IF attempts[i] # <<>>
       THEN /\ Holds(p, Latest(i).answer)
            /\ Goes(p, IF i \in Checked THEN "inspect" ELSE "save")
            /\ UNCHANGED <<lock, request>>
       ELSE \/ Leaves(p, "unable") /\ UNCHANGED request
            \/ /\ request' = [request EXCEPT ![i] = TRUE]
               /\ Goes(p, "ask") /\ UNCHANGED <<mind, lock>>
    /\ UNCHANGED <<attempts, response, diff, review, crashes>>

(* execute_model_call and execute_checked_model_call: a saved response is  *)
(* used again, a completed attempt is recovered, and any other attempt     *)
(* ends this run for good.                                                 *)
Execute(p) ==
    /\ pc[p] = "execute"
    /\ LET i == at[p] IN
       IF response[i] # None
       THEN lock' = None /\ Holds(p, response[i]) /\ Goes(p, "build") /\ UNCHANGED request
       ELSE IF attempts[i] # <<>> /\ Latest(i).ended # "completed"
       THEN Leaves(p, "over") /\ UNCHANGED request
       ELSE IF attempts[i] # <<>>
       THEN /\ Holds(p, Latest(i).answer)
            /\ Goes(p, IF i \in Checked THEN "inspect" ELSE "save")
            /\ UNCHANGED <<lock, request>>
       ELSE \/ Leaves(p, "unable") /\ UNCHANGED request
            \/ /\ request' = [request EXCEPT ![i] = TRUE]
               /\ Goes(p, "ask") /\ UNCHANGED <<mind, lock>>
    /\ UNCHANGED <<attempts, response, diff, review, crashes>>

(* _execute_attempt: the attempt is reserved before the runner is started. *)
Reserve(p) ==
    /\ pc[p] = "ask"
    /\ attempts' = [attempts EXCEPT ![at[p]] = Append(@, [answer |-> None, ended |-> "open"])]
    /\ Goes(p, "asked")
    /\ UNCHANGED <<request, response, diff, review, lock, crashes, mind>>

Settle(i, a, how) ==
    attempts' = [attempts EXCEPT ![i][Len(attempts[i])] = [answer |-> a, ended |-> how]]

(* The runner ends; the terminal record makes its answer recoverable.      *)
Finish(p) ==
    /\ pc[p] = "asked"
    /\ \/ \E a \in Answer :
            /\ Settle(at[p], a, "completed")
            /\ Holds(p, a)
            /\ Goes(p, IF at[p] \in Checked THEN "inspect" ELSE "save")
            /\ UNCHANGED lock
       \/ Settle(at[p], None, "failed") /\ Leaves(p, "over")
       \/ Settle(at[p], None, "interrupted") /\ Leaves(p, "over")
    /\ UNCHANGED <<request, response, diff, review, crashes>>

Built(p) == [base |-> seen[p], answer |-> held[p]]

(* A response with issues is sent back while the limit allows; the last    *)
(* one is kept whatever it is.                                             *)
Inspect(p) ==
    /\ pc[p] = "inspect"
    /\ \/ /\ Flawed(at[p], Built(p)) /\ Len(attempts[at[p]]) < RepairLimit + 1
          /\ \/ Leaves(p, "unable")
             \/ Goes(p, "ask") /\ UNCHANGED <<mind, lock>>
       \/ /\ ~ Flawed(at[p], Built(p)) \/ Len(attempts[at[p]]) >= RepairLimit + 1
          /\ Goes(p, "save") /\ UNCHANGED <<mind, lock>>
    /\ UNCHANGED <<disk, crashes>>

Save(p) ==
    /\ pc[p] = "save"
    /\ IF response[at[p]] \notin {None, held[p]} THEN Leaves(p, "conflict") /\ UNCHANGED response
       ELSE /\ response' = [response EXCEPT ![at[p]] = held[p]]
            /\ lock' = None /\ Goes(p, "build") /\ UNCHANGED mind
    /\ UNCHANGED <<request, attempts, diff, review, crashes>>

(* record_checked_diff, under a lock of its own: a diff that is already    *)
(* there must be the same.                                                 *)
RecordDiff(p) ==
    /\ pc[p] = "keep"
    /\ IF diff[at[p]] \notin {None, Built(p)} THEN Leaves(p, "conflict") /\ UNCHANGED diff
       ELSE /\ diff' = [diff EXCEPT ![at[p]] = Built(p)]
            /\ lock' = None /\ Goes(p, "look") /\ Knows(p, <<>>, None, None, None)
    /\ UNCHANGED <<request, attempts, response, review, crashes>>

-----------------------------------------------------------------------------
(* A reviewer approves, or replaces after a first look at the workspace.   *)
StartReview(p) ==
    /\ p \in Reviewer /\ Idle(p)
    /\ \E c \in Choice :
         /\ Knows(p, <<>>, None, None, c)
         /\ Goes(p, IF c.decision = "replace" THEN "replace" ELSE "review")
    /\ UNCHANGED <<disk, lock, crashes>>

LookReplace(p) ==
    /\ pc[p] = "replace"
    /\ Knows(p, Applied, None, None, choice[p])
    /\ Goes(p, "review")
    /\ UNCHANGED <<disk, lock, crashes>>

(* pending_checked_diff: which operation waits, from a look of its own.  A *)
(* replacement is built on the workspace of the first look, which may be   *)
(* an older one, and refused when it has issues or the operation takes none.*)
LookPending(p) ==
    /\ pc[p] = "review"
    /\ IF Status # "awaiting_review" THEN Ends(p, "over")
       ELSE IF choice[p].decision = "replace"
               /\ (\/ Following \notin Modelled
                   \/ Flawed(Following, [base |-> seen[p], answer |-> choice[p].answer]))
       THEN Ends(p, "over")
       ELSE Knows(p, seen[p], Following, None, choice[p]) /\ Goes(p, "decide")
    /\ UNCHANGED <<disk, lock, crashes>>

Verdict(p) ==
    IF choice[p].decision = "approve" THEN choice[p]
    ELSE [decision |-> "replace", diff |-> [base |-> seen[p], answer |-> choice[p].answer]]

RecordOver(p) ==                                \* faulty: the latest review is kept
    /\ pc[p] = "note"
    /\ review' = [review EXCEPT ![at[p]] = Verdict(p)] /\ Leaves(p, "over")
    /\ UNCHANGED <<request, attempts, response, diff, crashes>>

(* record_review: the diff under review is immutable, and so is a review.  *)
RecordReview(p) ==
    /\ pc[p] = "note"
    /\ IF review[at[p]] \notin {None, Verdict(p)} THEN Leaves(p, "conflict") /\ UNCHANGED review
       ELSE review' = [review EXCEPT ![at[p]] = Verdict(p)] /\ Leaves(p, "over")
    /\ UNCHANGED <<request, attempts, response, diff, crashes>>

Crash(p) ==
    /\ pc[p] \in Working /\ crashes < MaxCrash
    /\ crashes' = crashes + 1
    /\ lock' = IF lock = p THEN None ELSE lock
    /\ Ends(p, "over")
    /\ UNCHANGED disk

Work(p) == Look(p) \/ TakeLock(p) \/ Execute(p) \/ Reserve(p) \/ Finish(p) \/ Inspect(p)
           \/ Save(p) \/ RecordDiff(p) \/ LookReplace(p) \/ LookPending(p) \/ RecordReview(p)

Next == \E p \in Proc : StartAdvance(p) \/ StartReview(p) \/ Work(p) \/ Crash(p)

Spec == Init /\ [][Next]_vars

(* Whoever has begun goes on unless it is stopped, and whoever only        *)
(* advances the run does so again.  Nothing is assumed of the answers or   *)
(* of the reviewers.                                                       *)
Fairness ==
    /\ \A p \in Proc : WF_vars(Work(p))
    /\ \A p \in Proc \ Reviewer : WF_vars(StartAdvance(p))

FairSpec == Init /\ [][Next]_vars /\ Fairness

-----------------------------------------------------------------------------
(* No process that advances the run ever meets a record it did not expect: *)
(* only a review can conflict, with the review of somebody else.           *)
OnlyReviewsConflict ==
    \A p \in Proc : pc[p] # "note" /\ pc'[p] = "conflict" => pc[p] = "conflict"

NeverConflicts == [][OnlyReviewsConflict]_vars

(* The diff of an operation was built on what the operations before it     *)
(* have written, their reviews included, whoever built it and when.        *)
NoDiffIsStale ==
    \A i \in Op : diff[i] # None /\ Completed >= i - 1 => diff[i].base = SubSeq(Applied, 1, i - 1)

(* A model is asked again only after an answer with issues, and only as    *)
(* often as content repair allows, however often the run is started.       *)
AskedAtMost ==
    \A i \in Op :
       /\ Len(attempts[i]) <= (IF i \in Checked THEN RepairLimit + 1 ELSE 1)
       /\ \A k \in 1 .. Len(attempts[i]) - 1 :
            /\ attempts[i][k].ended = "completed"
            /\ attempts[i][k].answer \in Bad

(* A diff rests on the last answer of the model, and on a saved one.       *)
DiffIsBacked ==
    \A i \in Modelled : diff[i] # None =>
       /\ response[i] = diff[i].answer
       /\ Latest(i) = [answer |-> response[i], ended |-> "completed"]

(* A replacement that is recorded was built on what the first operations   *)
(* of the run have written, among them all it reads.  It applies if these  *)
(* are all that come before it; if it was prepared before the last of them *)
(* had ended, the run has failed for good, with everything before it kept. *)
ReplacementHolds ==
    \A i \in Reviewed : review[i] # None /\ review[i].decision = "replace" =>
       LET base == review[i].diff.base IN
       /\ i \in Modelled /\ review[i].diff.answer \notin Bad
       /\ Uses[i] \subseteq DOMAIN base
       /\ Len(base) <= i - 1 /\ base = SubSeq(Applied, 1, Len(base))
       /\ IF Len(base) = i - 1 THEN Applies(i)
          ELSE Completed = i - 1 /\ Status = "failed"

Stage == INSTANCE StageRun
    WITH applied <- Applied, pending <- Status = "awaiting_review", failed <- Status = "failed"

(* The run keeps to StageRun: in order, once, and final.                   *)
KeepsStagePromise == Stage!Spec

Dead(i) == attempts[i] # <<>> /\ Latest(i).ended # "completed"

(* A run is completed, failed or put up for review, unless one of its      *)
(* calls was left without an answer, its runner is unavailable for good or *)
(* its invocations refuse each other for good.                             *)
AnsweredRunEnds ==
    \/ []<>(\E p \in Proc : pc[p] = "unable")
    \/ <>(Status # "running")
    \/ <>[](\E i \in Op : Dead(i))
=============================================================================
