------------------------------ MODULE PublicRun ------------------------------
(***************************************************************************)
(* The public v2 realization (v2_public_realization._realize): an output   *)
(* root that belongs to one request, the composition bundle, the phases,   *)
(* which are resumed or reused, and the trial bundle that copies all their *)
(* files and is compared with them ever after.  Nothing locks the root, so *)
(* any number of processes may work in it.                                 *)
(*                                                                         *)
(* Saved: root (public-run.json), done (how each phase ended for good),    *)
(* bundle (the directory composition), state3 (phase3-state.json, which is *)
(* rewritten while phase 3 works), doubt (the runs that hold a record whose*)
(* check fails), litter (temporary files that stops left in the score run) *)
(* and trial.  A phase itself is RecordedPhase here; the composition is one*)
(* that has a work plan and whose artifacts pass their own check.          *)
(***************************************************************************)
EXTENDS Naturals, FiniteSets

CONSTANTS
    Proc,       \* processes
    Request,    \* requests that are made of one output directory
    Flow,       \* those of Request that start from a flow; the others from a bundle
    Temp,       \* names of temporary files; each is used once
    None

VARIABLES root, done, maker, bundle, state3, doubt, litter, trial,
          pc, req,      \* of each process: its next step and its request
          temp,         \* the temporary file it has open
          files         \* the temporary files in the copy it is making

saved == <<root, done, maker, bundle, state3, doubt, litter, trial>>

vars == <<saved, pc, req, temp, files>>

Phase == {"phase2", "phase3", "score", "phase7"}

Outcome == {"succeeded", "failed", "conflict", "refused", "differs"}

Working == {"phase2", "phase3", "phase3_work", "phase3_publish", "score_work", "phase7"}

Step == Working \cup
    {"root", "place", "bundle", "score_gate", "score_open", "score_state",
     "trial", "copy", "publish"}

Trial == [from : Request, files : SUBSET Temp]

TypeOK ==
    /\ root \in Request \cup {None}
    /\ done \in [Phase -> {None, "complete", "failed"}]
    /\ maker \in [Phase -> Request \cup {None}]
    /\ bundle \in Request \cup {None}
    /\ state3 \in {None, "running", "complete"}
    /\ doubt \subseteq Phase
    /\ litter \subseteq Temp
    /\ trial \in Trial \cup {None}
    /\ pc \in [Proc -> {"idle"} \cup Step \cup Outcome]
    /\ req \in [Proc -> Request \cup {None}]
    /\ temp \in [Proc -> Temp \cup {None}]
    /\ files \in [Proc -> SUBSET Temp]

Init ==
    /\ root = None
    /\ done = [h \in Phase |-> None]
    /\ maker = [h \in Phase |-> None]
    /\ bundle = None
    /\ state3 = None
    /\ doubt = {}
    /\ litter = {}
    /\ trial = None
    /\ pc = [p \in Proc |-> "idle"]
    /\ req = [p \in Proc |-> None]
    /\ temp = [p \in Proc |-> None]
    /\ files = [p \in Proc |-> {}]

-----------------------------------------------------------------------------
IsComplete(h) == done[h] = "complete"

Open == {temp[p] : p \in Proc} \ {None}

Goes(p, next) == pc' = [pc EXCEPT ![p] = next]

Goto(p, next) == Goes(p, next) /\ UNCHANGED <<saved, req, temp, files>>

Start(p) ==
    /\ pc[p] \in {"idle"} \cup Outcome
    /\ \E r \in Request : req' = [req EXCEPT ![p] = r]
    /\ files' = [files EXCEPT ![p] = {}]
    /\ Goes(p, "root")
    /\ UNCHANGED <<saved, temp>>

(* A stop while a phase asks may leave a call or an answer without the     *)
(* record the check needs.  The score run is checked before it is resumed; *)
(* the others resolve that, or fail, unless another process completes them.*)
LeavesDoubt(p) ==
    CASE pc[p] = "score_work" -> {"score"}
      [] pc[p] \in {"phase3_work", "phase7"} /\ (\E q \in Proc \ {p} : pc[q] = pc[p]) ->
            {IF pc[p] = "phase7" THEN "phase7" ELSE "phase3"}
      [] OTHER -> {}

(* A stop also leaves the temporary file that is open.                     *)
Crash(p) ==
    /\ pc[p] \in Step
    /\ litter' = litter \cup ({temp[p]} \ {None})
    /\ temp' = [temp EXCEPT ![p] = None]
    /\ doubt' \in {doubt, doubt \cup LeavesDoubt(p)}
    /\ Goes(p, "idle")
    /\ UNCHANGED <<root, done, maker, bundle, state3, trial, req, files>>

-----------------------------------------------------------------------------
FirstWork(p) == IF req[p] \in Flow THEN "phase2" ELSE "phase3"

EnsureAnyRoot(p) ==                                    \* faulty: any identity
    /\ pc[p] = "root"
    /\ Goto(p, IF root = None THEN "place" ELSE FirstWork(p))

(* ensure_public_v2_run looks for the root, ...                            *)
EnsureRoot(p) ==
    /\ pc[p] = "root"
    /\ Goto(p, IF root = None THEN "place"
               ELSE IF root = req[p] THEN FirstWork(p) ELSE "conflict")

(* ... and renames a finished one into place, which fails over another.    *)
PlaceRoot(p) ==
    /\ pc[p] = "place"
    /\ root' = IF root = None THEN req[p] ELSE root
    /\ Goes(p, IF root = None THEN FirstWork(p) ELSE "conflict")
    /\ UNCHANGED <<done, maker, bundle, state3, doubt, litter, trial, req, temp, files>>

(* A phase that was invoked ends for good, well or badly.                  *)
Ends(p, h, end) ==
    /\ done[h] = None
    /\ done' = [done EXCEPT ![h] = end]
    /\ maker' = [maker EXCEPT ![h] = req[p]]

(* _compile_flow: compile unless there is a bundle, which is then checked. *)
CompileFlow(p) ==
    /\ pc[p] = "phase2"
    /\ \/ bundle # None /\ Goto(p, "phase3")
       \/ /\ bundle = None
          /\ \E end \in {"complete", "failed"} : Ends(p, "phase2", end)
          /\ UNCHANGED <<root, bundle, state3, doubt, litter, trial, pc, req, temp, files>>
       \/ bundle = None /\ IsComplete("phase2") /\ Goto(p, "bundle")

(* create_v2_composition_bundle refuses an existing bundle, whenever it    *)
(* finds it, also when it renames its copy.                                *)
CreateBundle(p) ==
    /\ pc[p] = "bundle"
    /\ bundle' = IF bundle = None THEN req[p] ELSE bundle
    /\ Goes(p, IF bundle = None THEN "phase3" ELSE "failed")
    /\ UNCHANGED <<root, done, maker, state3, doubt, litter, trial, req, temp, files>>

(* _model_record_issues of a run; records that another process is still    *)
(* making fail the check too.                                              *)
RecordsFail(p, h, work) ==
    h \in doubt \/ \E q \in Proc \ {p} : pc[q] = work

RecordsPass(h) == h \notin doubt

(* A complete phase 3 is not invoked again; its records are checked and    *)
(* its saved state is loaded.                                              *)
Phase3(p) ==
    /\ pc[p] = "phase3"
    /\ \/ ~ IsComplete("phase3") /\ Goto(p, "phase3_work")
       \/ /\ IsComplete("phase3")
          /\ RecordsFail(p, "phase3", "phase3_work") /\ Goto(p, "refused")
       \/ /\ IsComplete("phase3")
          /\ RecordsPass("phase3")
          /\ Goto(p, IF state3 = "complete" THEN "score_gate" ELSE "failed")

(* realize_phase3 rewrites the state after each operation, also one that   *)
(* an earlier invocation completed, ...                                    *)
RewriteState(p) ==
    /\ pc[p] = "phase3_work"
    /\ \/ state3' = "running" /\ UNCHANGED pc
       \/ state3' = "complete" /\ Goes(p, "phase3_publish")
    /\ UNCHANGED <<root, done, maker, bundle, doubt, litter, trial, req, temp, files>>

(* ... and saves its summary once, over the complete state or a failure.   *)
PublishPhase3(p) ==
    /\ \/ /\ pc[p] = "phase3_publish"
          /\ Ends(p, "phase3", "complete")
          /\ Goes(p, "phase3")
       \/ /\ pc[p] = "phase3_work"
          /\ Ends(p, "phase3", "failed")
          /\ Goes(p, "failed")
       \/ /\ pc[p] = "phase3_publish" /\ IsComplete("phase3")
          /\ Goes(p, "phase3")
          /\ UNCHANGED <<done, maker>>
    /\ UNCHANGED <<root, bundle, state3, doubt, litter, trial, req, temp, files>>

ScoreGate(p) ==
    /\ pc[p] = "score_gate"
    /\ \/ RecordsFail(p, "score", "score_work") /\ Goto(p, "refused")
       \/ RecordsPass("score") /\ Goto(p, "score_open")

(* realize_score is invoked in any case: initialize rewrites run-state.json*)
(* through a temporary file ...                                            *)
OpenScore(p) ==
    /\ pc[p] = "score_open"
    /\ \E t \in Temp \ (litter \cup Open \cup UNION {files[q] : q \in Proc}
                        \cup (IF trial = None THEN {} ELSE trial.files)) :
          temp' = [temp EXCEPT ![p] = t]
    /\ Goes(p, "score_state")
    /\ UNCHANGED <<saved, req, files>>

(* ... that is renamed.                                                    *)
SaveRunState(p) ==
    /\ pc[p] = "score_state"
    /\ temp' = [temp EXCEPT ![p] = None]
    /\ Goes(p, IF IsComplete("score") THEN "phase7" ELSE "score_work")
    /\ UNCHANGED <<saved, req, files>>

(* The outputs of the score appear at once; no failure of it is final.     *)
FinishScore(p) ==
    /\ pc[p] = "score_work"
    /\ \/ Ends(p, "score", "complete") /\ Goes(p, "phase7")
       \/ IsComplete("score") /\ Goes(p, "failed") /\ UNCHANGED <<done, maker>>
    /\ UNCHANGED <<root, bundle, state3, doubt, litter, trial, req, temp, files>>

Phase7(p) ==
    /\ pc[p] = "phase7"
    /\ \/ IsComplete("phase7") /\ Goto(p, "trial")
       \/ /\ \E end \in {"complete", "failed"} : Ends(p, "phase7", end)
          /\ UNCHANGED <<root, bundle, state3, doubt, litter, trial, pc, req, temp, files>>

(* An invocation of a phase may end without success: a runner that is not  *)
(* ready, a failed or interrupted call, invalid content, a conflict.       *)
GiveUp(p) ==
    /\ pc[p] \in Working
    /\ pc[p] = "phase2" => bundle = None
    /\ pc[p] = "phase7" => ~ IsComplete("phase7")
    /\ pc[p] # "phase3"
    /\ pc[p] = "phase3_publish" => done["phase3"] = "failed"
    /\ Goto(p, "failed")

-----------------------------------------------------------------------------
RemakeTrial(p) ==                                      \* faulty: always copies
    pc[p] = "trial" /\ Goto(p, "copy")

(* A trial bundle that exists must hold exactly the files of the runs.     *)
CheckTrial(p) ==
    /\ pc[p] = "trial"
    /\ Goto(p, IF trial = None THEN "copy"
               ELSE IF trial.files = litter \cup Open THEN "succeeded" ELSE "differs")

(* create_phase8_bundle checks the records again and copies every file of   *)
(* the run directories; one that is renamed meanwhile is copied, missed, or*)
(* fails the copying.                                                      *)
CopyRuns(p) ==
    /\ pc[p] = "copy"
    /\ \/ /\ doubt = {}
          /\ \E others \in SUBSET Open :
                files' = [files EXCEPT ![p] = litter \cup others]
          /\ Goes(p, "publish")
       \/ Open # {} /\ Goes(p, "failed") /\ UNCHANGED files
       \/ /\ doubt # {} \/ \E q \in Proc \ {p} : pc[q] \in Working
          /\ Goes(p, "failed") /\ UNCHANGED files
    /\ UNCHANGED <<saved, req, temp>>

PublishAnyTrial(p) ==                                  \* faulty: replaces
    /\ pc[p] = "publish"
    /\ trial' = [from |-> req[p], files |-> files[p]]
    /\ Goes(p, "succeeded")
    /\ UNCHANGED <<root, done, maker, bundle, state3, doubt, litter, req, temp, files>>

PublishTrial(p) ==
    /\ pc[p] = "publish"
    /\ trial' = IF trial = None THEN [from |-> req[p], files |-> files[p]] ELSE trial
    /\ Goes(p, IF trial = None THEN "succeeded" ELSE "failed")
    /\ UNCHANGED <<root, done, maker, bundle, state3, doubt, litter, req, temp, files>>

-----------------------------------------------------------------------------
Advance(p) ==
    \/ EnsureRoot(p)
    \/ PlaceRoot(p)
    \/ CompileFlow(p)
    \/ CreateBundle(p)
    \/ Phase3(p)
    \/ RewriteState(p)
    \/ PublishPhase3(p)
    \/ ScoreGate(p)
    \/ OpenScore(p)
    \/ SaveRunState(p)
    \/ FinishScore(p)
    \/ Phase7(p)
    \/ GiveUp(p)
    \/ CheckTrial(p)
    \/ CopyRuns(p)
    \/ PublishTrial(p)

Next == \E p \in Proc : Start(p) \/ Crash(p) \/ Advance(p)

Spec == Init /\ [][Next]_vars

(* A running process takes its next step; nobody has to start one.         *)
FairSpec == Spec /\ \A p \in Proc : WF_vars(Advance(p))

-----------------------------------------------------------------------------
Before == [h \in Phase |-> CASE h = "phase2" -> {}
                             [] h = "phase3" -> {}
                             [] h = "score" -> {"phase3"}
                             [] h = "phase7" -> {"phase3", "score"}]

(* Everything in an output root was made for the one request the root      *)
(* belongs to, whoever was invoked with whatever in between.               *)
NeverMixesRequests ==
    /\ \A h \in Phase : maker[h] \in {None, root}
    /\ bundle \in {None, root}
    /\ trial # None => trial.from = root

(* A phase only ends once all it builds on is complete for good, and a     *)
(* trial bundle holds a whole realization.                                 *)
ResumesInOrder ==
    /\ \A h \in Phase : done[h] # None => \A b \in Before[h] : IsComplete(b)
    /\ root \in Flow /\ done["phase3"] # None => bundle # None
    /\ bundle # None => IsComplete("phase2")
    /\ trial # None => \A h \in Phase \ {"phase2"} : IsComplete(h)

(* The summary that lets every later invocation skip phase 3 stands over a *)
(* state that can be loaded.                                               *)
CompletePhaseLoads == IsComplete("phase3") => state3 = "complete"

(* A request is told of success only over a trial bundle of its own.       *)
SuccessIsATrial ==
    \A p \in Proc : pc[p] = "succeeded" => trial # None /\ trial.from = req[p]

(* What is published once is never replaced, whoever comes later.          *)
PublishedIsFinal ==
    [][/\ root # None => root' = root
       /\ \A h \in Phase : IsComplete(h) => done'[h] = "complete"
       /\ bundle # None => bundle' = bundle
       /\ trial # None => trial' = trial]_saved

AllIsSaved(p) ==
    /\ pc[p] = "root" /\ root = req[p] /\ doubt = {}
    /\ \A h \in {"phase3", "score", "phase7"} : IsComplete(h)
    /\ root \in Flow => bundle # None
    /\ litter # Temp
    /\ trial # None => trial.files = litter

(* A published trial is never refused by the run it was made from.         *)
PublishedTrialIsReused == \A p \in Proc : pc[p] # "differs"
=============================================================================
