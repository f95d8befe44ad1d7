------------------------- MODULE MCPublicRealization -------------------------
(***************************************************************************)
(* The public realization as a whole (PublicRun), invoked by one process   *)
(* at a time or by two at once, and beside it phase 7, whose run the other *)
(* modules do not contain.  A behaviour is one of these three; what does   *)
(* not run rests in its initial state.                                     *)
(***************************************************************************)
EXTENDS Phase7Run

CONSTANTS
    Proc, Request, Flow, Temp,
    First       \* the process that is invoked alone

VARIABLES
    running,
    root, done, maker, bundle, state3, doubt, litter, trial, pcs, req, temp, files

Public == INSTANCE PublicRun WITH pc <- pcs

ASSUME FirstAssumption == First \in Proc

ASSUME AbsentFileAssumption ==
    None \notin Request \cup Temp \cup Public!Trial \cup {"running", "complete", "failed"}

public == <<root, done, maker, bundle, state3, doubt, litter, trial, pcs, req, temp, files>>

realization == <<vars, public, running>>

RealizationInit ==
    /\ running \in {"phase 7", "alone", "shared"}
    /\ Init /\ Public!Init
    /\ running # "phase 7" => verdict = None

RunPhase7 == running = "phase 7" /\ Next /\ UNCHANGED <<public, running>>

RunPublic ==
    /\ \/ running = "shared" /\ Public!Next
       \/ running = "alone"
          /\ (Public!Start(First) \/ Public!Crash(First) \/ Public!Advance(First))
    /\ UNCHANGED <<vars, running>>

RealizationSpec ==
    /\ RealizationInit /\ [][RunPhase7 \/ RunPublic]_realization
    /\ WF_realization(RunPhase7 /\ Advance)
    /\ WF_realization(running = "alone" /\ Public!Advance(First) /\ UNCHANGED <<vars, running>>)

-----------------------------------------------------------------------------
(* However many processes are invoked with whatever request, all that an   *)
(* output root holds was made for its request, phase after phase, and      *)
(* success is told only over a trial bundle of that request.  With one     *)
(* invocation at a time, the summary that lets later ones skip phase 3     *)
(* stands over a state that can be loaded.                                 *)
RequestsStayApart ==
    /\ Public!TypeOK /\ Public!NeverMixesRequests
    /\ Public!ResumesInOrder /\ Public!SuccessIsATrial
    /\ running = "alone" => Public!CompletePhaseLoads

(* What is published is never replaced, also by two processes at once.     *)
PublishedIsFinal == Public!PublishedIsFinal

(* Once its choices are accepted phase 7 reaches its end; and invoked alone*)
(* and not stopped, a process finds the answer of a run whose phases are   *)
(* all complete.                                                           *)
AcceptedRunsEnd ==
    /\ AcceptedWorkIsFinished
    /\ running = "alone" /\ Public!AllIsSaved(First) ~> pcs[First] \in {"idle", "succeeded"}
=============================================================================
