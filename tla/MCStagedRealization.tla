------------------------- MODULE MCStagedRealization -------------------------
(***************************************************************************)
(* The run of one stage (RealizationRun), the chain of stages that such    *)
(* runs make (StagedRealization) and the workspace their diffs are applied *)
(* to (RealizationWorkspace), beside each other, and the schedule of the   *)
(* operations that perform the music (PerformanceSchedule).  The single run*)
(* is advanced by both processes; it is reviewed by both, or by one while  *)
(* the other only advances it and one of them may be stopped.  A workspace *)
(* is written by one author, or by all that meet in it.  The directions of *)
(* a script are added one by one.                                          *)
(***************************************************************************)
EXTENDS Naturals, Sequences

CONSTANTS
    Running,        \* what is run, of the parts above
    Proc, Answer, None, MaxCrash,
    Advancing,      \* the process that does not review when one does
    Bad, Awkward, N, Uses, Modelled, Checked, Reviewed, RepairLimit,
                    \* of the single run, see RealizationRun
    S, K,
    StageReviewed,  \* of the chain, see StagedRealization
    Key, Val, Reads, Operation, Needs, InitialWorkspaces, MaxRevision, Missing,
    Author,         \* of the workspace, see RealizationWorkspace, ...
    Position,       \* ... where in the order of the operations a key is written, ...
    First,          \* ... the author who writes alone ...
    Shared,         \* ... but for the workspaces in which all of them meet
    Parent, MaxDirections   \* of the directions, see PerformanceSchedule

VARIABLES
    running,
    request, attempts, response, diff, review, lock, crashes, pc, seen, at, held, choice,
    made, source, applied, pending, failed, chainCrashes, chainPc, chainAt, chainSeen,
    workspace, revision, built, applying, music, provenance, stale, handled,
    directions

single == <<request, attempts, response, diff, review, lock, crashes, pc, seen, at, held, choice>>

chain == <<made, source, applied, pending, failed, chainCrashes, chainPc, chainAt, chainSeen>>

written == <<workspace, revision, built, applying, music, provenance, stale, handled>>

(* In the single run every process may review.                             *)
Run == INSTANCE RealizationRun WITH Reviewer <- Proc

(* No answer of the chain is bad: what it writes was checked in its stage. *)
Stages == INSTANCE StagedRealization WITH
    Reviewed <- StageReviewed, Answer <- Answer \ (Bad \cup Awkward),
    crashes <- chainCrashes, pc <- chainPc, at <- chainAt, seen <- chainSeen

Diffs == INSTANCE RealizationWorkspace WITH diff <- built, pending <- stale

Schedules == INSTANCE PerformanceSchedule

ASSUME SizeAssumption ==
    /\ N \in Nat /\ RepairLimit \in Nat /\ MaxCrash \in Nat
    /\ S \in Nat /\ K \in Nat

ASSUME OperationAssumption ==
    /\ Modelled \subseteq Run!Op /\ Checked \subseteq Modelled
    /\ Reviewed \subseteq Run!Op

(* An operation may read what earlier ones have written, or, as the first  *)
(* of the performance that is asked for, nothing that the run writes.      *)
ASSUME UsesAssumption ==
    /\ Uses \in [Run!Op -> SUBSET Run!Op]
    /\ \A i \in Run!Op : \A k \in Uses[i] : k < i

ASSUME NoneAssumption ==
    /\ None \notin Answer /\ None \notin Proc /\ None \notin Stages!Stage
    /\ None \notin Run!Diff /\ None \notin Run!Review /\ None \notin Run!Choice
    /\ None \notin Seq(Stages!Written) /\ None \notin DOMAIN Parent

ASSUME ReadsAssumption == Reads \in [Key -> SUBSET Key]

ASSUME WritesAssumption ==
    /\ Operation \subseteq SUBSET Key
    /\ Needs \in [Operation -> SUBSET Key]
    /\ \A op \in Operation, k \in Key :
          k \in op => Reads[k] \ {k} \subseteq Needs[op]

(***************************************************************************)
(* The operations are ordered: each reads only what earlier ones write,    *)
(* and, as the plan does, the key it writes itself.                        *)
(***************************************************************************)
ASSUME PositionAssumption ==
    /\ Position \in [Key -> Nat]
    /\ \A k \in Key : \A r \in Reads[k] \ {k} : Position[r] < Position[k]
    /\ \A op \in Operation : \A k, j \in op : \A r \in Reads[k] \ {k} : Position[r] < Position[j]

ASSUME AuthorAssumption == None \notin Author /\ Missing \notin Val

ASSUME InitialAssumption ==
    /\ InitialWorkspaces \subseteq Diffs!Workspace
    /\ \A w \in InitialWorkspaces : Diffs!Current(w) /\ Diffs!Explained(w)

ASSUME ParentAssumption ==
    /\ Parent \in Seq(Nat) /\ \A n \in DOMAIN Parent : Parent[n] < n
    /\ MaxDirections \in Nat

(* What does not run stays as it began.                                    *)
Init ==
    /\ Run!Init /\ Stages!Init /\ Diffs!Init /\ Schedules!Init
    /\ running \in Running
    /\ \/ /\ running \in {"reviewed by both", "reviewed by one", "stages", "directions"}
          /\ workspace = CHOOSE w \in InitialWorkspaces : TRUE
       \/ running = "written by one" /\ workspace \notin Shared
       \/ running = "written by all" /\ workspace \in Shared

RunReviewedByBoth ==
    /\ running = "reviewed by both"
    /\ \E p \in Proc : Run!StartAdvance(p) \/ Run!StartReview(p) \/ Run!Work(p)
    /\ UNCHANGED <<chain, written, directions, running>>

Advances(p) ==
    /\ running = "reviewed by one"
    /\ Run!StartAdvance(p)
    /\ UNCHANGED <<chain, written, directions, running>>

Works(p) ==
    /\ running = "reviewed by one"
    /\ Run!Work(p)
    /\ UNCHANGED <<chain, written, directions, running>>

RunReviewedByOne ==
    /\ running = "reviewed by one"
    /\ \/ \E p \in Proc : Run!StartAdvance(p) \/ Run!Work(p) \/ Run!Crash(p)
       \/ \E p \in Proc \ {Advancing} : Run!StartReview(p)
    /\ UNCHANGED <<chain, written, directions, running>>

RunStages == running = "stages" /\ Stages!Next /\ UNCHANGED <<single, written, directions, running>>

RunDiffs ==
    /\ running \in {"written by one", "written by all"}
    /\ Diffs!Next
    /\ running = "written by one" => \A a \in Author \ {First} : built'[a] = None
    /\ UNCHANGED <<single, chain, directions, running>>

vars == <<single, chain, written, directions, running>>

StageStarts(p) == running = "stages" /\ Stages!Start(p) /\ UNCHANGED <<single, written, directions, running>>

StageWorks(p) == running = "stages" /\ Stages!Work(p) /\ UNCHANGED <<single, written, directions, running>>

AddDirection ==
    /\ running = "directions" /\ Schedules!AddDirection
    /\ UNCHANGED <<single, chain, written, running>>

(* The bound on the diffs, or on the directions, is reached.               *)
BoundIsReached ==
    /\ \/ /\ running \in {"written by one", "written by all"}
          /\ revision = MaxRevision /\ \A a \in Author : built[a] = None
       \/ running = "directions" /\ Len(directions) = MaxDirections
    /\ UNCHANGED vars

DiffGoesOn ==
    /\ running \in {"written by one", "written by all"}
    /\ (\E changed \in stale : Diffs!Invalidate(changed)) \/ Diffs!Finish
    /\ UNCHANGED <<single, chain, directions, running>>

Next ==
    \/ RunReviewedByBoth \/ RunReviewedByOne \/ RunStages
    \/ RunDiffs \/ AddDirection \/ BoundIsReached

Spec ==
    /\ Init /\ [][Next]_vars
    /\ WF_vars(Advances(Advancing)) /\ \A p \in Proc : WF_vars(Works(p))
    /\ \A p \in Proc : WF_vars(StageStarts(p)) /\ WF_vars(StageWorks(p))
    /\ WF_vars(DiffGoesOn)

-----------------------------------------------------------------------------
(* Every diff was built on what the operations before it have written, and *)
(* rests on the last answer of a model that is asked again only after an   *)
(* answer with issues; a replacement that a review has accepted applies, or*)
(* was prepared before the last operation had ended (RealizationRun).      *)
RunIsBacked ==
    running \in {"reviewed by both", "reviewed by one"} =>
    /\ Run!TypeOK /\ Run!NoDiffIsStale /\ Run!AskedAtMost /\ Run!DiffIsBacked
    /\ Run!ReplacementHolds

(* Every stage begins with the workspace that the stages before it end     *)
(* with, and only a stop while it is set up spoils it (StagedRealization). *)
ChainHolds ==
    running = "stages" => Stages!TypeOK /\ Stages!ChainHolds /\ Stages!OnlyStopsSpoil

(* The single run, and the chain as one, keep to StageRun: in order, once, *)
(* and final; and only a review meets a record it did not expect.          *)
KeepStagePromises ==
    Run!KeepsStagePromise /\ Stages!KeepsWholePromise /\ Run!NeverConflicts

(* Whatever is rewritten, in whatever order the operations are repeated,   *)
(* no value stays in the workspace that was made from a value that is not  *)
(* there any more, and none is removed without need: a value that was not  *)
(* written stays unless something it was made from has changed             *)
(* (RealizationWorkspace).                                                 *)
NothingIsStale == Diffs!NothingIsStale

KeepsWhatHolds == Diffs!KeepsWhatHolds

(* Following what a change makes stale comes to an end.                    *)
ApplyingEnds == Diffs!ApplyingEnds

(* The waves of performance operations settle everything a node is compared*)
(* with before it, as early as possible, and a script is refused only for  *)
(* directions that wait for each other; what the directions require of a   *)
(* node can be met (performance_operation_schedule).                       *)
WavesSettle ==
    running = "directions" =>
        /\ Schedules!ComparedIsSettled /\ Schedules!FewestWaves
        /\ Schedules!RefusedMeansCircle /\ Schedules!RequirementsCanBeMet

(* A run that is advanced again and again, and a chain that is, are        *)
(* completed, failed or put up for review, unless a call was left without  *)
(* an answer, a runner stays unavailable, a stage ends in errors or a stop *)
(* has spoiled it.                                                         *)
AdvancedRunsEnd ==
    /\ running = "reviewed by one" => Run!AnsweredRunEnds
    /\ running = "stages" => Stages!StagesEnd

-----------------------------------------------------------------------------
(* The second operation is computed from the first, and so is what the     *)
(* model is asked for in the third: it does not read the second.           *)
RunUses == <<{}, {1}, {1}>>

(* The script of the run: an ordinary material, a transition from it to its*)
(* repetition and an ending, where one of two sections is played in        *)
(* comparison with the other.                                              *)
Script == INSTANCE RealizationOperations WITH
    Ordinary <- {"a"}, Connecting <- {"c"}, EndingMaterial <- "e",
    Previous <- "a", Transition <- {"t"},
    Source <- [t \in {"t"} |-> "a"], Target <- [t \in {"t"} |-> "a"],
    Connector <- [t \in {"t"} |-> "c"],
    Node <- {"n", "o"},
    Plays <- [i \in {"n", "o"} |-> IF i = "n" THEN {"t"} ELSE {"a", "e"}],
    Directed <- {"o"}, Compared <- [i \in {"o"} |-> {"n"}]

ScriptKey == Script!ScriptKey

ScriptReads == Script!ScriptReads

ScriptOperation == Script!ScriptOperation

ScriptNeeds == Script!ScriptNeeds

(* The operations in the order of the stages.                              *)
StageOf(k) ==
    CASE k[1] = "plan" -> 1
      [] k \in Script!EndingKeys -> 7
      [] k[1] = "harmonies" /\ k \notin Script!EndingKeys -> 2
      [] k[1] = "melodies" /\ k \notin Script!EndingKeys -> 3
      [] k[1] = "transition_melodies" -> 4
      [] k[1] = "accompaniments" /\ k \notin Script!EndingKeys -> 5
      [] k[1] = "transition_accompaniments" -> 6
      [] k[1] = "performances" /\ k[2] # "o" -> 8
      [] k = <<"performances", "o">> -> 9

ScriptPosition == [k \in ScriptKey |-> StageOf(k)]

(* What the first n stages leave: everything has the same value.           *)
After(n) ==
    [value |-> [k \in ScriptKey |-> IF StageOf(k) <= n THEN 1 ELSE Missing],
     source |-> [k \in ScriptKey |->
        IF StageOf(k) > n THEN {}
        ELSE {<<r, IF r = Script!Plan /\ k = r THEN Missing ELSE 1>> : r \in ScriptReads[k]}]]

(* Two diffs of one author are applied to what some of the stages leave;   *)
(* two authors meet in the workspace of the first two stages.              *)
Earlier == {After(n) : n \in {0, 2, 6, 9}}

Met == {After(2)}

(* A plan of three sections below the root, the first with one of its own. *)
Sections == <<0, 1, 1, 1, 2>>
=============================================================================
