---------------------------- MODULE RecordedPhase ----------------------------
(***************************************************************************)
(* What a recorded phase promises the public run that invokes it, without  *)
(* operations or files: it ends for good at most once, and an invocation   *)
(* that reports the end, good or bad, reports the one that is saved.       *)
(* Phase2Run, Phase3Run, ScoreRun and Phase7Run implement it.              *)
(***************************************************************************)
CONSTANT None

VARIABLES ending,     \* None, or how the phase ended for good
          telling     \* what the latest invocation is doing or reported

vars == <<ending, telling>>

Ending == {"complete", "failed"}

(* busy is under way, silent was stopped, open reported that the phase has *)
(* not ended or that it could not say.                                     *)
Telling == {"silent", "busy", "open"} \cup Ending

TypeOK == ending \in Ending \cup {None} /\ telling \in Telling

Init == ending = None /\ telling = "silent"

Begin ==
    /\ telling # "busy"
    /\ telling' \in {"busy"} \cup ({ending} \cap {"complete"})
    /\ UNCHANGED ending

Work ==
    /\ telling = "busy"
    /\ ending' \in (IF ending = None THEN Ending \cup {None} ELSE {ending})
    /\ telling' \in {"busy", "silent", "open"} \cup ({ending'} \cap Ending)

Next == Begin \/ Work

Spec == Init /\ [][Next]_vars
=============================================================================
