--------------------------- MODULE OperationStages ---------------------------
(***************************************************************************)
(* The saved records of one finite model operation as the phases that call *)
(* it tell them apart: how often the model was asked, and what the records *)
(* of the last question say.  FiniteModelOperation moves through these     *)
(* stages only as Moves allows (its property StagesFollowMoves).           *)
(***************************************************************************)
EXTENDS Naturals

(* none      nothing was asked                                             *)
(* open      asked, and no end of the call is saved                        *)
(* answered  completed with a response that has no saved verdict           *)
(* poor      completed, and the response was found invalid                 *)
(* fit       completed and found valid, not yet accepted                   *)
(* accepted  accepted.json names the response                              *)
(* refused   failed because the runner rejected the content                *)
(* failed    failed for any other reason                                   *)
(* lost      timed out or interrupted                                      *)
Last == {"none", "open", "answered", "poor", "fit", "accepted",
         "refused", "failed", "lost"}

Stage == [calls : 0..2, last : Last]

Untouched == [calls |-> 0, last |-> "none"]

MayAsk(s) ==
    \/ s.last = "none"
    \/ s.calls = 1 /\ s.last \in {"poor", "refused"}

AfterAsk(s) == [calls |-> s.calls + 1, last |-> "open"]

AfterCall(s) == {[s EXCEPT !.last = end] :
                   end \in {"answered", "refused", "failed", "lost"}}

AfterVerdict(s) == {[s EXCEPT !.last = verdict] : verdict \in {"poor", "fit"}}

AfterAccept(s) == [s EXCEPT !.last = "accepted"]

Moves(s) ==
    (IF MayAsk(s) THEN {AfterAsk(s)} ELSE {})
    \cup (IF s.last = "open" THEN AfterCall(s) ELSE {})
    \cup (IF s.last = "answered" THEN AfterVerdict(s) ELSE {})
    \cup (IF s.last = "fit" THEN {AfterAccept(s)} ELSE {})

(* An invocation that finds a dead stage on disk asks no more.  refused is *)
(* dead on disk although the invocation that saved it goes on to repair.   *)
IsDead(s) ==
    \/ s.last \in {"open", "refused", "failed", "lost"}
    \/ s.last = "poor" /\ s.calls = 2

(* The failures an invocation reports: why names the text of the issues.   *)
Failure == [outcome : {"runner_failed", "interrupted", "content_invalid"},
            why : {"preflight", "live", "saved", "content"}]

(* ... when it finds the stage on disk,                                    *)
SavedFailure(s) ==
    IF s.last = "poor" THEN [outcome |-> "content_invalid", why |-> "content"]
    ELSE [outcome |-> IF s.last \in {"open", "lost"} THEN "interrupted"
                      ELSE "runner_failed",
          why |-> "saved"]

(* ... and when it has just saved that stage itself.                       *)
LiveFailure(s) ==
    IF s.last = "poor" THEN [outcome |-> "content_invalid", why |-> "content"]
    ELSE [outcome |-> IF s.last = "refused" THEN "content_invalid"
                      ELSE "runner_failed",
          why |-> "live"]
=============================================================================
