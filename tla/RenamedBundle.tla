--------------------------- MODULE RenamedBundle ---------------------------
(***************************************************************************)
(* The results that are built in a temporary directory and renamed into    *)
(* place: proposals (proposal), composition bundles (composition_bundle),  *)
(* scores of phase 6 (phase6_realization), trials (trial_bundle), final    *)
(* bundles (phase8_bundle) and replays of both.  Several processes build   *)
(* them, may be stopped at any step, and lock nothing; what keeps their    *)
(* results apart is that a directory that is not empty is not replaced.    *)
(***************************************************************************)
EXTENDS Naturals, FiniteSets

CONSTANTS
    Process,
    Temp,       \* names mkdtemp gives, each once
    None

Kind == {"proposal", "composition", "score", "trial", "final", "replay"}

Part == {"inputs", "run", "result"}

Bundle ==
    [kind : Kind, maker : Temp, source : Temp \cup {None},
     outcome : {"succeeded", "failed"}, parts : SUBSET Part,
     listed : (SUBSET Part) \cup {None}]

VARIABLES
    target,         \* the directory of each kind
    temporary,      \* the temporary directories that are left
    pc, doing, at,  \* of each process: its step, the kind, its directory
    stopped         \* directories whose process was stopped

bundles == <<target, temporary, pc, doing, at, stopped>>

BundleInit ==
    /\ target = [k \in Kind |-> None]
    /\ temporary = [t \in Temp |-> None]
    /\ pc = [e \in Process |-> "idle"]
    /\ doing = [e \in Process |-> None]
    /\ at = [e \in Process |-> None]
    /\ stopped = {}

Working == {"save", "list", "check", "rename"}

Fresh == {t \in Temp : temporary[t] = None
                       /\ t \notin stopped \cup {at[e] : e \in Process}
                       /\ \A k \in Kind : target[k] = None \/ target[k].maker # t}

-----------------------------------------------------------------------------
(* A directory that exists is a conflict; phase 6 raises FileExistsError.  *)
Conflict(e, k) ==
    /\ pc[e] \notin Working
    /\ target[k] # None
    /\ pc' = [pc EXCEPT ![e] = "refused"]
    /\ doing' = [doing EXCEPT ![e] = k]
    /\ at' = [at EXCEPT ![e] = None]
    /\ UNCHANGED <<target, temporary, stopped>>

Open(e, k, t, source, outcome) ==
    /\ pc[e] \notin Working
    /\ target[k] = None
    /\ t \in Fresh
    /\ temporary' = [temporary EXCEPT ![t] =
          [kind |-> k, maker |-> t, source |-> source,
           outcome |-> outcome, parts |-> {}, listed |-> None]]
    /\ pc' = [pc EXCEPT ![e] = "save"]
    /\ doing' = [doing EXCEPT ![e] = k]
    /\ at' = [at EXCEPT ![e] = t]
    /\ UNCHANGED <<target, stopped>>

(* propose_script, compose_flow: the model has answered, well or not.      *)
BeginProposal(e, t) == \E o \in {"succeeded", "failed"} : Open(e, "proposal", t, None, o)

BeginComposition(e, t) == \E o \in {"succeeded", "failed"} : Open(e, "composition", t, None, o)

(* Inputs that phase 6 refuses get a directory too, for the failure.       *)
BeginScore(e, t) == \E o \in {"succeeded", "failed"} : Open(e, "score", t, None, o)

IsReadyAnyhow(k) == target[k] # None                     \* faulty: failed ones too

(* A verified bundle of a run that succeeded.                              *)
IsReady(k) == target[k] # None /\ target[k].outcome = "succeeded"

(* create_trial_bundle, or create_failed_model_trial without an answer.    *)
BeginTrial(e, t) ==
    /\ IsReady("composition")
    /\ \E o \in {"succeeded", "failed"} : Open(e, "trial", t, target["composition"].maker, o)

BeginFinal(e, t) ==
    /\ IsReady("composition")
    /\ Open(e, "final", t, target["composition"].maker, "succeeded")

(* replay_trial_bundle and replay_phase8_bundle.                           *)
BeginReplay(e, t) ==
    \E k \in {"trial", "final"} :
        IsReady(k) /\ Open(e, "replay", t, target[k].maker, "succeeded")

-----------------------------------------------------------------------------
Mine(e) == temporary[at[e]]

(* What a finished result of a kind consists of.                           *)
Needed(k, outcome) ==
    CASE k = "replay" -> {"result"}
      [] k = "score" -> IF outcome = "failed" THEN {} ELSE {"inputs", "result"}
      [] OTHER -> {"inputs", "run"} \cup (IF outcome = "failed" THEN {} ELSE {"result"})

Missing(c) == Needed(c.kind, c.outcome) \ c.parts

Save(e, part) ==
    /\ pc[e] = "save"
    /\ part \in Missing(Mine(e))
    /\ temporary' = [temporary EXCEPT ![at[e]].parts = @ \cup {part}]
    /\ UNCHANGED <<target, pc, doing, at, stopped>>

(* A score that failed stays where it is, with its failure record.         *)
AfterParts(c) ==
    IF Missing(c) # {} THEN "save"
    ELSE IF c.kind = "score" /\ c.outcome = "failed" THEN "kept"
    ELSE IF c.kind = "replay" THEN "check" ELSE "list"

Saved(e) ==
    /\ pc[e] = "save"
    /\ AfterParts(Mine(e)) # "save"
    /\ pc' = [pc EXCEPT ![e] = AfterParts(Mine(e))]
    /\ UNCHANGED <<target, temporary, doing, at, stopped>>

(* The manifest, last, with the hash of every file that is there (for a    *)
(* score its state).                                                       *)
List(e) ==
    /\ pc[e] = "list"
    /\ temporary' = [temporary EXCEPT ![at[e]].listed = Mine(e).parts]
    /\ pc' = [pc EXCEPT ![e] =
          IF Mine(e).kind \in {"proposal", "trial"} THEN "rename" ELSE "check"]
    /\ UNCHANGED <<target, doing, at, stopped>>

(* finally: the temporary directory goes, but for a score.                 *)
Removed(e) == IF doing[e] = "score" THEN temporary ELSE [temporary EXCEPT ![at[e]] = None]

(* The bundle is verified, the replay compared with the original and the   *)
(* score loaded; an artifact that is wrong ends the attempt.               *)
Check(e) ==
    /\ pc[e] = "check"
    /\ \/ /\ Missing(Mine(e)) = {}
          /\ pc' = [pc EXCEPT ![e] = "rename"]
          /\ UNCHANGED temporary
       \/ /\ pc' = [pc EXCEPT ![e] = IF doing[e] = "score" THEN "kept" ELSE "failed"]
          /\ temporary' = Removed(e)
    /\ UNCHANGED <<target, doing, at, stopped>>

(* A file that cannot be written ends the attempt as well, and so does a   *)
(* composition whose runner was not ready: there is no run to publish.     *)
StorageFails(e) ==
    /\ pc[e] \in Working
    /\ temporary' = Removed(e)
    /\ pc' = [pc EXCEPT ![e] = IF doing[e] = "score" THEN "kept" ELSE "failed"]
    /\ UNCHANGED <<target, doing, at, stopped>>

RenameOver(e) ==                                         \* faulty: clears the place first
    /\ pc[e] = "rename"
    /\ target' = [target EXCEPT ![doing[e]] = Mine(e)]
    /\ temporary' = [temporary EXCEPT ![at[e]] = None]
    /\ pc' = [pc EXCEPT ![e] = "published"]
    /\ UNCHANGED <<doing, at, stopped>>

(* The other process may have been first: StorageFails.                    *)
Rename(e) ==
    /\ pc[e] = "rename"
    /\ target[doing[e]] = None
    /\ target' = [target EXCEPT ![doing[e]] = Mine(e)]
    /\ temporary' = [temporary EXCEPT ![at[e]] = None]
    /\ pc' = [pc EXCEPT ![e] = "published"]
    /\ UNCHANGED <<doing, at, stopped>>

Stop(e) ==
    /\ pc[e] \in Working
    /\ stopped' = stopped \cup {at[e]}
    /\ pc' = [pc EXCEPT ![e] = "idle"]
    /\ at' = [at EXCEPT ![e] = None]
    /\ UNCHANGED <<target, temporary, doing>>

-----------------------------------------------------------------------------
BundleNext ==
    \E e \in Process :
        \/ \E k \in Kind : Conflict(e, k)
        \/ \E t \in Temp :
              \/ BeginProposal(e, t) \/ BeginComposition(e, t) \/ BeginScore(e, t)
              \/ BeginTrial(e, t) \/ BeginFinal(e, t) \/ BeginReplay(e, t)
        \/ \E part \in Part : Save(e, part)
        \/ Saved(e) \/ List(e) \/ Check(e) \/ StorageFails(e) \/ Rename(e) \/ Stop(e)

-----------------------------------------------------------------------------
(* What is in place is complete, whoever built it and wherever others were *)
(* stopped, and lists all its files if it has a list.                      *)
BundlesAreWhole ==
    \A k \in Kind : target[k] # None =>
        LET c == target[k]
        IN  /\ c.kind = k /\ c.parts = Needed(k, c.outcome)
            /\ c.listed = IF k = "replay" THEN None ELSE c.parts
            /\ k = "score" => c.outcome = "succeeded"

(* What was made from another result was made from the one in place, and   *)
(* that is one of a success.                                               *)
LineageIsPublished ==
    \A k \in Kind : target[k] # None /\ target[k].source # None =>
        \E s \in Kind :
            /\ target[s] # None /\ target[s].maker = target[k].source
            /\ target[s].outcome = "succeeded"

(* Whoever reports a result reports its own, and a temporary directory is  *)
(* left only by a stop, or on purpose by phase 6.                          *)
ReportsItsOwn ==
    /\ \A e \in Process :
          pc[e] = "published" => target[doing[e]] # None /\ target[doing[e]].maker = at[e]
    /\ \A t \in Temp : temporary[t] # None =>
          \/ t \in stopped
          \/ temporary[t].kind = "score"
          \/ \E e \in Process : at[e] = t /\ pc[e] \in Working

BundlesHold == BundlesAreWhole /\ LineageIsPublished /\ ReportsItsOwn

(* A result in place is never changed, by a later invocation or by one that*)
(* was building the same result.                                           *)
BundlesAreFinal ==
    [][\A k \in Kind : target[k] # None => target'[k] = target[k]]_bundles
=============================================================================
