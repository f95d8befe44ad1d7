------------------------------ MODULE PilotRun ------------------------------
(***************************************************************************)
(* The pilot loop (pilot_loop.run_pilot): N candidates are composed, each  *)
(* is repaired once if it is not valid, the best is revised once, and the  *)
(* better of the two is published.  Every invocation replays the whole     *)
(* loop: calls that ended are answered from their attempts (RecoveredCall) *)
(* and steps that were recorded are compared with what is found now.       *)
(*                                                                         *)
(* Saved: answer (how the call of a step ended), record (steps/*.json), and*)
(* the final source and rendering.  Judging a valid source writes files and*)
(* may fail for want of storage alone, which counts as a fault of the      *)
(* source; another replay may then judge it differently.                   *)
(***************************************************************************)
EXTENDS Naturals, FiniteSets

CONSTANTS
    N,          \* candidates, at least one
    MaxWanting, \* bound: for how many sources storage is ever wanting
    None

Candidate == 1..N

(* A source: not valid, or valid and better, as good as it can be revised, *)
(* or with an outlier on an axis that can be revised.                      *)
Source == {"invalid", "inside", "fixed", "outlier"}

Revision == {"invalid", "outside", "worse", "better"}

Fault == {"none", "content", "storage"}

Compose(c) == <<"compose", c>>
Repair(c) == <<"repair", c>>
Revise == <<"revise", 0>>
Evaluate == <<"evaluate", 0>>
Publish == <<"publish", 0>>

Call == {Compose(c) : c \in Candidate} \cup {Repair(c) : c \in Candidate} \cup {Revise}

VARIABLES
    answer,         \* of each call: what was asked for and what came of it
    record,         \* of each step: its record
    final,          \* the final source and its rendering
    pc, at,         \* the next step, and the candidate it is about
    judged,         \* of each candidate: the call of its source, its fault
    revised,        \* the fault of the revision, when it was judged
    wanting         \* the sources for which storage was ever wanting

saved == <<answer, record, final>>

vars == <<saved, pc, at, judged, revised, wanting>>

Outcome == {"completed", "no_valid", "failed", "conflict"}

Working == {"compose", "skip", "repair", "evaluate", "revise", "keep", "drop",
            "hopeless", "source", "midi", "publish"}

Init ==
    /\ answer = [s \in Call |-> None]
    /\ record = [s \in Call \cup {Evaluate, Publish} |-> None]
    /\ final = [source |-> None, midi |-> None]
    /\ pc = "idle" /\ at = 1
    /\ judged = [c \in Candidate |-> None]
    /\ revised = None
    /\ wanting = {}

-----------------------------------------------------------------------------
Text(s) == answer[s].text

(* _evaluate_source.                                                       *)
FaultsOf(s) ==
    IF Text(s) = "invalid" THEN {"content"}
    ELSE {"none"} \cup
         (IF Cardinality(wanting \cup {s}) <= MaxWanting THEN {"storage"} ELSE {})

Judges(s, fault) ==
    /\ fault \in FaultsOf(s)
    /\ wanting' = IF fault = "storage" THEN wanting \cup {s} ELSE wanting

ValidCandidates == {c \in Candidate : judged[c].fault = "none"}

Grade == [inside |-> 0, fixed |-> 1, outlier |-> 2]

GradeOf(c) == Grade[Text(judged[c].of)]

FirstValid ==                                     \* faulty: the order they were made
    CHOOSE c \in ValidCandidates : \A d \in ValidCandidates : c <= d

(* _candidate_sort_key.                                                    *)
Selected ==
    CHOOSE c \in ValidCandidates :
        \A d \in ValidCandidates :
            GradeOf(c) < GradeOf(d) \/ (GradeOf(c) = GradeOf(d) /\ c <= d)

SelectedSource == judged[Selected].of

(* The inputs the request of a call is hashed from.                        *)
Inputs(s) ==
    CASE s[1] = "compose" -> None
      [] s[1] = "repair" -> judged[s[2]].fault
      [] OTHER -> SelectedSource

(* record_step compares with the record there is.                          *)
Records(s, value) ==
    /\ record[s] \in {None, value}
    /\ record' = [record EXCEPT ![s] = value]

Conflicts(s, value) ==
    /\ record[s] \notin {None, value}
    /\ pc' = "conflict"
    /\ UNCHANGED <<saved, at, judged, revised, wanting>>

ThenNext ==
    /\ pc' = IF at < N THEN "compose" ELSE "evaluate"
    /\ at' = IF at < N THEN at + 1 ELSE at

Start ==
    /\ pc \in {"idle"} \cup Outcome
    /\ pc' = "compose" /\ at' = 1
    /\ judged' = [c \in Candidate |-> None] /\ revised' = None
    /\ UNCHANGED <<saved, wanting>>

Crash == pc \in Working /\ pc' = "idle" /\ UNCHANGED <<saved, at, judged, revised, wanting>>

(* The call the loop has come to.                                          *)
Current ==
    CASE pc = "compose" -> Compose(at)
      [] pc = "repair" -> Repair(at)
      [] OTHER -> Revise

(* Calls end for good, also when they fail.                                *)
Ask ==
    /\ pc \in {"compose", "repair", "revise"}
    /\ answer[Current] = None
    /\ \E text \in {"dead"} \cup (IF Current = Revise THEN Revision ELSE Source) :
          answer' = [answer EXCEPT ![Current] = [from |-> Inputs(Current), text |-> text]]
    /\ UNCHANGED <<record, final, pc, at, judged, revised, wanting>>

(* Nothing comes of a call that failed, or of one saved for other inputs.  *)
GiveUp ==
    /\ pc \in {"compose", "repair", "revise"}
    /\ answer[Current] # None
    /\ \/ answer[Current].from # Inputs(Current) /\ pc' = "conflict"
       \/ answer[Current].from = Inputs(Current) /\ Text(Current) = "dead" /\ pc' = "failed"
    /\ UNCHANGED <<saved, at, judged, revised, wanting>>

Answered ==
    /\ answer[Current] # None
    /\ answer[Current].from = Inputs(Current)
    /\ Text(Current) # "dead"

UseComposed ==
    /\ pc = "compose" /\ Answered
    /\ Records(Compose(at), "completed")
    /\ \E fault \in Fault :
          /\ Judges(Compose(at), fault)
          /\ judged' = [judged EXCEPT ![at] = [of |-> Compose(at), fault |-> fault]]
          /\ pc' = IF fault = "none" THEN "skip" ELSE "repair"
    /\ UNCHANGED <<answer, final, at, revised>>

SkipRepair ==
    /\ pc = "skip"
    /\ \/ /\ Records(Repair(at), "skipped")
          /\ ThenNext
          /\ UNCHANGED <<answer, final, judged, revised, wanting>>
       \/ Conflicts(Repair(at), "skipped")

UseRepaired ==
    /\ pc = "repair" /\ Answered
    /\ \/ /\ Records(Repair(at), judged[at].fault)
          /\ \E fault \in Fault :
                /\ Judges(Repair(at), fault)
                /\ judged' = [judged EXCEPT ![at] = [of |-> Repair(at), fault |-> fault]]
          /\ ThenNext
          /\ UNCHANGED <<answer, final, revised>>
       \/ Conflicts(Repair(at), judged[at].fault)

(* The record holds the sources and the evaluations of all candidates, and *)
(* those decide whether there is anything to revise.                       *)
EvaluateCandidates ==
    /\ pc = "evaluate"
    /\ \/ /\ Records(Evaluate, judged)
          /\ pc' = IF ValidCandidates = {} THEN "hopeless"
                   ELSE IF Text(SelectedSource) = "outlier" THEN "revise" ELSE "keep"
          /\ UNCHANGED <<answer, final, at, judged, revised, wanting>>
       \/ Conflicts(Evaluate, judged)

(* Nothing is valid, or nothing is to be revised.                          *)
SkipRevision ==
    /\ pc \in {"hopeless", "keep"}
    /\ Records(Revise, pc)
    /\ pc' = IF pc = "keep" THEN "source" ELSE "drop"
    /\ UNCHANGED <<answer, final, at, judged, revised, wanting>>

(* Nothing was written that the record of the failure could name.          *)
FailPublication ==
    /\ pc = "drop"
    /\ Records(Publish, final)
    /\ pc' = "no_valid"
    /\ UNCHANGED <<answer, final, at, judged, revised, wanting>>

UseRevision ==
    /\ pc = "revise" /\ Answered
    /\ Records(Revise, "completed")
    /\ \E fault \in Fault : Judges(Revise, fault) /\ revised' = fault
    /\ pc' = "source"
    /\ UNCHANGED <<answer, final, at, judged>>

(* The revision is taken if it is valid, within its scope and an           *)
(* improvement, otherwise the candidate.                                   *)
FinalSource ==
    IF revised = "none" /\ Text(Revise) = "better" THEN Revise ELSE SelectedSource

WriteSource ==
    /\ pc = "source"
    /\ final' = [final EXCEPT !.source = FinalSource]
    /\ pc' = "midi"
    /\ UNCHANGED <<answer, record, at, judged, revised, wanting>>

WriteRendering ==
    /\ pc = "midi"
    /\ final' = [final EXCEPT !.midi = FinalSource]
    /\ pc' = "publish"
    /\ UNCHANGED <<answer, record, at, judged, revised, wanting>>

RecordPublication ==
    /\ pc = "publish"
    /\ \/ /\ Records(Publish, final)
          /\ pc' = "completed"
          /\ UNCHANGED <<answer, final, at, judged, revised, wanting>>
       \/ Conflicts(Publish, final)

-----------------------------------------------------------------------------
Advance ==
    \/ Ask
    \/ GiveUp
    \/ UseComposed
    \/ SkipRepair
    \/ UseRepaired
    \/ EvaluateCandidates
    \/ SkipRevision
    \/ FailPublication
    \/ UseRevision
    \/ WriteSource
    \/ WriteRendering
    \/ RecordPublication

Next == Start \/ Crash \/ Advance

Spec == Init /\ [][Next]_vars

(* A loop that was started goes on; nobody has to start one.               *)
FairSpec == Spec /\ WF_vars(Advance)

-----------------------------------------------------------------------------
TypeOK ==
    /\ \A s \in Call : answer[s] # None =>
          /\ answer[s].from \in (CASE s[1] = "compose" -> {None}
                                  [] s[1] = "repair" -> Fault
                                  [] OTHER -> Call)
          /\ Text(s) \in Source \cup Revision \cup {"dead"}
    /\ final \in [source : Call \cup {None}, midi : Call \cup {None}]
    /\ pc \in {"idle"} \cup Working \cup Outcome
    /\ at \in Candidate
    /\ revised \in Fault \cup {None}
    /\ wanting \subseteq Call

(* What is recorded as published passed every check it had to: a valid     *)
(* source that no other valid candidate is better than, or a revision that *)
(* improves it, and the rendering of that source.                          *)
FinalIsBest ==
    LET published == record[Publish]
    IN  published # None /\ published.source # None =>
            /\ published.source = published.midi
            /\ \/ published.source = Revise /\ Text(Revise) = "better"
               \/ \A c \in Candidate :
                     LET best == Grade[Text(published.source)]
                         other == record[Evaluate][c]
                     IN  other.fault = "none" => best <= Grade[Text(other.of)]

(* Later replays, also those that judge a candidate differently, leave what*)
(* was published as it is, unless storage was wanting for the revision.    *)
PublishedIsFinal ==
    [][record[Publish] # None /\ Revise \notin wanting' => UNCHANGED final]_vars

(* As long as storage was never wanting, a replay finds what was recorded, *)
(* wherever the loop was stopped.                                          *)
ReplayAgrees == wanting = {} => pc # "conflict"

(* A loop that is not stopped publishes the best of its candidates unless  *)
(* a call fails or all of them are invalid; so does one that is replayed   *)
(* after its last call was answered.                                       *)
Answerable == pc = "compose" /\ \A s \in Call : answer[s] # None => Text(s) # "dead"

LoopEnded ==
    \/ pc \in {"idle", "completed", "no_valid"}
    \/ wanting # {} /\ pc = "conflict"
    \/ \E s \in Call : answer[s] # None /\ Text(s) = "dead"

=============================================================================
