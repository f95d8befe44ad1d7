------------------------- MODULE StagedRealization -------------------------
(***************************************************************************)
(* The stages of a v1 realization as one run                               *)
(* (scoim.staged_realization).  Each stage is a workspace run of its own,  *)
(* which keeps the promise of StageRun, in a child directory made when the *)
(* stage before it is complete.  The parent keeps no state but what it     *)
(* rebuilds from the children.  Processes advance the whole, a reviewer    *)
(* decides in the child, and a process may be stopped anywhere.            *)
(***************************************************************************)
EXTENDS Naturals, Sequences, SequencesExt

CONSTANTS
    Proc,
    Answer,         \* what an operation may write
    S,              \* number of stages
    K,              \* number of operations of each stage
    Reviewed,       \* review_after: operations, numbered through the stages
    MaxCrash,       \* bound: how many processes are stopped
    None

Stage == 1 .. S

VARIABLES
    made,           \* how much of each child directory is there
    source,         \* the workspace its specification says it continues
    applied, pending, failed,       \* the workspace run of each stage
    crashes,
    pc, at, seen    \* of each process: its step, stage and parent workspace

children == <<made, source, applied, pending, failed>>
vars == <<children, crashes, pc, at, seen>>

Written == Answer \cup {None}

(* initialize: the directory, its specification, the script and at last    *)
(* the workspace the stage begins with.                                    *)
Files == <<"absent", "directory", "spec", "script", "whole">>

Part == Range(Files)

Working == {"rebuild", "create", "fill", "advance"}

(* How advance_staged_realization ends: with a status, with an error of    *)
(* the stage, on a directory it cannot read, or on a wrong chain.          *)
Outcome == {"over", "error", "unreadable", "mismatch"}

TypeOK ==
    /\ made \in [Stage -> Part]
    /\ source \in [Stage -> Seq(Written) \cup {None}]
    /\ applied \in [Stage -> Seq(Written)]
    /\ pending \in [Stage -> BOOLEAN] /\ failed \in [Stage -> BOOLEAN]
    /\ crashes \in 0 .. MaxCrash
    /\ pc \in [Proc -> Working \cup Outcome]
    /\ at \in [Proc -> Stage \cup {None}]
    /\ seen \in [Proc -> Seq(Written)]
    /\ \A s \in Stage : /\ Len(applied[s]) <= K
                        /\ made[s] # "whole" => applied[s] = <<>> /\ ~ pending[s] /\ ~ failed[s]

Init ==
    /\ made = [s \in Stage |-> "absent"]
    /\ source = [s \in Stage |-> None]
    /\ applied = [s \in Stage |-> <<>>]
    /\ pending = [s \in Stage |-> FALSE]
    /\ failed = [s \in Stage |-> FALSE]
    /\ crashes = 0
    /\ pc = [p \in Proc |-> "over"]
    /\ at = [p \in Proc |-> None]
    /\ seen = [p \in Proc |-> <<>>]

-----------------------------------------------------------------------------
IsComplete(s) == made[s] = "whole" /\ Len(applied[s]) = K

(* The workspace after the first n stages.                                 *)
After(n) == FlattenSeq(SubSeq(applied, 1, n))

(* The first stage that is not complete, 0 when all are.                   *)
CurrentStage == SelectInSeq([s \in Stage |-> ~ IsComplete(s)], LAMBDA open : open)

Chain(s) == IF s = 1 THEN None ELSE After(s - 1)

Goes(p, next) == pc' = [pc EXCEPT ![p] = next]

Ends(p, outcome) ==
    /\ Goes(p, outcome)
    /\ at' = [at EXCEPT ![p] = None] /\ seen' = [seen EXCEPT ![p] = <<>>]

Start(p) ==
    /\ pc[p] \in Outcome
    /\ Goes(p, "rebuild")
    /\ UNCHANGED <<children, crashes, at, seen>>

RebuildOnce(p) ==                               \* faulty: only new stages are advanced
    /\ pc[p] = "rebuild"
    /\ LET s == CurrentStage IN
       IF s = 0 THEN Ends(p, "over")
       ELSE IF made[s] \in {"directory", "spec", "script"} THEN Ends(p, "unreadable")
       ELSE IF made[s] = "whole" /\ source[s] # Chain(s) THEN Ends(p, "mismatch")
       ELSE IF made[s] = "whole" THEN Ends(p, "over")
       ELSE /\ Goes(p, "create")
            /\ at' = [at EXCEPT ![p] = s]
            /\ seen' = [seen EXCEPT ![p] = After(s - 1) \o applied[s]]
    /\ UNCHANGED <<children, crashes>>

(* rebuild_staged_realization walks the children in order.  A directory    *)
(* that is there must hold a whole run that continues the one before it.   *)
Rebuild(p) ==
    /\ pc[p] = "rebuild"
    /\ LET s == CurrentStage IN
       IF s = 0 THEN Ends(p, "over")
       ELSE IF made[s] \in {"directory", "spec", "script"} THEN Ends(p, "unreadable")
       ELSE IF made[s] = "whole" /\ source[s] # Chain(s) THEN Ends(p, "mismatch")
       ELSE IF pending[s] \/ failed[s] THEN Ends(p, "over")
       ELSE /\ Goes(p, "create")
            /\ at' = [at EXCEPT ![p] = s]
            /\ seen' = [seen EXCEPT ![p] = After(s - 1) \o applied[s]]
    /\ UNCHANGED <<children, crashes>>

(* _initialize_stage is called only if the directory does not exist.       *)
Create(p) ==
    /\ pc[p] = "create"
    /\ IF made[at[p]] # "absent" THEN Goes(p, "advance") /\ UNCHANGED made
       ELSE made' = [made EXCEPT ![at[p]] = "directory"] /\ Goes(p, "fill")
    /\ UNCHANGED <<source, applied, pending, failed, crashes, at, seen>>

FillFromInitial(p) ==                   \* faulty: the source is what that stage began with
    /\ pc[p] = "fill"
    /\ LET s == at[p] IN
       IF made[s] = "directory" THEN
              /\ made' = [made EXCEPT ![s] = "spec"]
              /\ source' = [source EXCEPT ![s] = Chain(s - 1)]
              /\ UNCHANGED <<pc, at, seen>>
       ELSE IF made[s] = "spec" THEN
              /\ made' = [made EXCEPT ![s] = "script"]
              /\ UNCHANGED <<source, pc, at, seen>>
       ELSE IF made[s] = "script" THEN
              /\ made' = [made EXCEPT ![s] = "whole"]
              /\ Goes(p, "advance")
              /\ UNCHANGED <<source, at, seen>>
       ELSE Goes(p, "advance") /\ UNCHANGED <<made, source, at, seen>>
    /\ UNCHANGED <<applied, pending, failed, crashes>>

(* The rest of initialize, one immutable file after the other, with the    *)
(* workspace the parent saw.  Another process may be doing the same.       *)
Fill(p) ==
    /\ pc[p] = "fill"
    /\ LET s == at[p] IN
       IF made[s] = "directory" THEN
              /\ made' = [made EXCEPT ![s] = "spec"]
              /\ source' = [source EXCEPT ![s] = IF s = 1 THEN None ELSE seen[p]]
              /\ UNCHANGED <<pc, at, seen>>
       ELSE IF made[s] = "spec" THEN
              /\ made' = [made EXCEPT ![s] = "script"]
              /\ UNCHANGED <<source, pc, at, seen>>
       ELSE IF made[s] = "script" THEN
              /\ made' = [made EXCEPT ![s] = "whole"]
              /\ Goes(p, "advance")
              /\ UNCHANGED <<source, at, seen>>
       ELSE Goes(p, "advance") /\ UNCHANGED <<made, source, at, seen>>
    /\ UNCHANGED <<applied, pending, failed, crashes>>

Number(s, k) == (s - 1) * K + k

(* A step of the workspace run of stage s.                                 *)
Proposes(s, write, fails) ==
    LET next == Len(applied[s]) + 1 IN
    /\ ~ pending[s] /\ ~ failed[s] /\ next <= K
    /\ IF Number(s, next) \in Reviewed
       THEN pending' = [pending EXCEPT ![s] = TRUE] /\ UNCHANGED <<applied, failed>>
       ELSE /\ IF fails THEN failed' = [failed EXCEPT ![s] = TRUE] /\ UNCHANGED applied
               ELSE applied' = [applied EXCEPT ![s] = Append(@, write)] /\ UNCHANGED failed
            /\ UNCHANGED pending

(* _advance_stage: the child goes on until it stops, which an error can do *)
(* at any operation; a complete child sends the parent round again.        *)
Advance(p) ==
    /\ pc[p] = "advance"
    /\ LET s == at[p] IN
       IF made[s] # "whole" THEN Ends(p, "unreadable") /\ UNCHANGED <<applied, pending, failed>>
       ELSE IF IsComplete(s) THEN Ends(p, "rebuild") /\ UNCHANGED <<applied, pending, failed>>
       ELSE IF pending[s] \/ failed[s] THEN Ends(p, "over") /\ UNCHANGED <<applied, pending, failed>>
       ELSE \/ Ends(p, "error") /\ UNCHANGED <<applied, pending, failed>>
            \/ /\ \E write \in Written, fails \in BOOLEAN : Proposes(s, write, fails)
               /\ UNCHANGED <<pc, at, seen>>
    /\ UNCHANGED <<made, source, crashes>>

(* A review of a stage, in its own directory.                              *)
Review(s) ==
    /\ pending[s]
    /\ pending' = [pending EXCEPT ![s] = FALSE]
    /\ \/ failed' = [failed EXCEPT ![s] = TRUE] /\ UNCHANGED applied
       \/ \E write \in Written :
            applied' = [applied EXCEPT ![s] = Append(@, write)] /\ UNCHANGED failed
    /\ UNCHANGED <<made, source, crashes, pc, at, seen>>

Crash(p) ==
    /\ pc[p] \in Working /\ crashes < MaxCrash
    /\ crashes' = crashes + 1
    /\ Ends(p, "over")
    /\ UNCHANGED children

Work(p) == Rebuild(p) \/ Create(p) \/ Fill(p) \/ Advance(p)

Next ==
    \/ \E p \in Proc : Start(p) \/ Work(p) \/ Crash(p)
    \/ \E s \in Stage : Review(s)

Spec == Init /\ [][Next]_vars

(* The run is started again whenever it has ended, and goes on unless it   *)
(* is stopped.  Nothing is assumed of reviewers.                           *)
FairSpec == Spec /\ \A p \in Proc : WF_vars(Start(p)) /\ WF_vars(Work(p))

-----------------------------------------------------------------------------
(* Every stage begins with the workspace that the stages before it end     *)
(* with, whoever made its directory, and no process ever finds it wrong.   *)
ChainHolds ==
    /\ \A s \in Stage : made[s] \notin {"absent", "directory"} =>
          source[s] = Chain(s) /\ \A r \in 1 .. s - 1 : IsComplete(r)
    /\ \A p \in Proc : pc[p] # "mismatch"

IsFilling(s) == \E p \in Proc : pc[p] = "fill" /\ at[p] = s

(* A directory without its files that nobody is filling.                   *)
Spoiled(s) == made[s] \notin {"absent", "whole"} /\ ~ IsFilling(s)

(* Only a stop during its initialization leaves a stage unreadable.        *)
OnlyStopsSpoil == \A s \in Stage : Spoiled(s) => crashes > 0

Whole == INSTANCE StageRun
    WITH applied <- After(S), N <- S * K,
         pending <- \E s \in Stage : pending[s], failed <- \E s \in Stage : failed[s]

(* Stage after stage is one workspace run with all their operations.       *)
KeepsWholePromise == Whole!Spec

(* The whole is completed, failed or put up for review, unless its stages  *)
(* fail with errors for good or a stop has spoiled one of them.            *)
StagesEnd ==
    \/ <>(CurrentStage = 0 \/ \E s \in Stage : pending[s] \/ failed[s])
    \/ []<>(\E p \in Proc : pc[p] = "error")
    \/ <>[](\E s \in Stage : Spoiled(s))
=============================================================================
