------------------------ MODULE RealizationWorkspace ------------------------
(***************************************************************************)
(* The workspace of a version 1 realization (realization_workspace.py): a  *)
(* value per key, and for each value what was read to make it.  A checked  *)
(* diff rewrites the keys of one operation; values that were made from     *)
(* what it changed are removed, and those made from them in turn.          *)
(*                                                                         *)
(* A hash stands for the value it is the hash of.  The approved script,    *)
(* which no diff changes, is left out, and a plan that is null is Missing. *)
(***************************************************************************)
EXTENDS Naturals, FiniteSets

CONSTANTS
    Key,            \* the places of the workspace
    Val,            \* what an operation may put there
    Reads,          \* of each key: the keys its value is made from
    Operation,      \* sets of keys that are written together ...
    Needs,          \* ... and the keys an operation wants to find settled
    InitialWorkspaces,  \* what a run may start from
    Author,         \* whoever builds diffs
    MaxRevision,    \* bound on the diffs that are applied
    Missing, None

Value == Val \cup {Missing}

(* A key and the hash of the value that was found there.                   *)
ReadHash == Key \X Value

(* What each value was made from; no read hashes where there is no value.  *)
Workspace == [value : [Key -> Value], source : [Key -> SUBSET ReadHash]]

(***************************************************************************)
(* Every value still finds what it was made from: what a read hash says of *)
(* another key is what is there, and something is.                         *)
(***************************************************************************)
Current(w) ==
    \A k \in Key : \A r \in w.source[k] :
        r[1] = k \/ (w.value[r[1]] = r[2] /\ r[2] # Missing)

(* Only a value has a source, and it has read all that it is made from.    *)
Explained(w) ==
    \A k \in Key : /\ (w.value[k] = Missing) => w.source[k] = {}
                   /\ (w.value[k] # Missing) => {r[1] : r \in w.source[k]} = Reads[k]

VARIABLES
    workspace, revision,    \* the workspace and how many diffs it has seen
    diff,                   \* of each author: the diff to be applied
    applying,               \* the author whose diff is being applied
    music, provenance,      \* the new values and sources, until all is done
    pending, handled        \* values that are gone, to be followed, followed

vars == <<workspace, revision, diff, applying, music, provenance, pending, handled>>

TypeOK ==
    /\ workspace \in Workspace
    /\ revision \in 0..(MaxRevision + Cardinality(Author))
    /\ DOMAIN diff = Author
    /\ \A a \in Author : diff[a] # None =>
          /\ diff[a].base[1] \in 0..revision /\ diff[a].base[2] \in Workspace
          /\ diff[a].writes \in Operation
          /\ diff[a].patch \in [diff[a].writes -> Val]
          /\ diff[a].reads \in [diff[a].writes -> SUBSET ReadHash]
    /\ applying \in Author \cup {None}
    /\ music \in [Key -> Value]
    /\ provenance \in [Key -> SUBSET ReadHash]
    /\ pending \subseteq Key \X Val
    /\ handled \subseteq Key \X Val

Init ==
    /\ workspace \in InitialWorkspaces
    /\ revision = 0
    /\ diff = [a \in Author |-> None]
    /\ applying = None
    /\ music = workspace.value
    /\ provenance = workspace.source
    /\ pending = {} /\ handled = {}

----------------------------------------------------------------------------
HashOf(k) == <<k, workspace.value[k]>>

(* Only operations whose reads are settled have a diff without issues.     *)
Settled(op) == \A k \in Needs[op] : workspace.value[k] # Missing

(* An author answers one operation, on the workspace as it is.             *)
Build(a) ==
    /\ diff[a] = None /\ revision < MaxRevision
    /\ \E op \in Operation :
          /\ Settled(op)
          /\ \E new \in [op -> Val] :
                diff' = [diff EXCEPT ![a] =
                    [base |-> <<revision, workspace>>, writes |-> op, patch |-> new,
                     reads |-> [k \in op |-> {HashOf(r) : r \in Reads[k]}]]]
    /\ UNCHANGED <<workspace, revision, applying, music, provenance, pending, handled>>

(* Stale revision, other record, or a read that has changed.               *)
Fits(d) ==
    /\ d.base = <<revision, workspace>>
    /\ \A k \in d.writes : \A r \in d.reads[k] : HashOf(r[1]) = r

(* No key may change together with another that is made from it.           *)
WritesApart(d) ==
    \A k \in d.writes : \A r \in d.reads[k] : r[1] \in d.writes => r[1] = k

Reject(a) ==
    /\ applying = None /\ diff[a] # None
    /\ ~Fits(diff[a]) \/ ~WritesApart(diff[a])
    /\ diff' = [diff EXCEPT ![a] = None]
    /\ UNCHANGED <<workspace, revision, applying, music, provenance, pending, handled>>

Patched(d) ==
    [k \in Key |-> IF k \in d.writes THEN d.patch[k] ELSE workspace.value[k]]

(* What was there and is not any more.                                     *)
Changed(old, new) ==
    {<<k, old[k]>> : k \in {j \in Key : old[j] # Missing /\ old[j] # new[j]}}

StartAll(a) ==
    /\ applying = None /\ diff[a] # None
    /\ Fits(diff[a]) /\ WritesApart(diff[a])
    /\ applying' = a
    /\ music' = Patched(diff[a])
    /\ provenance' = workspace.source
    /\ pending' = {HashOf(k) : k \in {j \in diff[a].writes : workspace.value[j] # Missing}}
    /\ handled' = {}
    /\ UNCHANGED <<workspace, revision, diff>>

Start(a) ==
    /\ applying = None /\ diff[a] # None
    /\ Fits(diff[a]) /\ WritesApart(diff[a])
    /\ applying' = a
    /\ music' = Patched(diff[a])
    /\ provenance' = workspace.source
    /\ pending' = Changed(workspace.value, Patched(diff[a]))
    /\ handled' = {}
    /\ UNCHANGED <<workspace, revision, diff>>

(* Values that were made from the one that is gone.                        *)
MadeFrom(changed) ==
    {k \in Key \ diff[applying].writes : changed \in provenance[k]}

InvalidateDirect(changed) ==
    LET gone == IF changed \in handled THEN {} ELSE MadeFrom(changed)
    IN  /\ applying # None
        /\ handled' = handled \cup {changed}
        /\ music' = [k \in Key |-> IF k \in gone THEN Missing ELSE music[k]]
        /\ provenance' = [k \in Key |-> IF k \in gone THEN {} ELSE provenance[k]]
        /\ pending' = pending \ {changed}
        /\ UNCHANGED <<workspace, revision, diff, applying>>

InvalidatePeek(changed) ==
    LET gone == MadeFrom(changed)
    IN  /\ applying # None
        /\ handled' = handled \cup {changed}
        /\ music' = [k \in Key |-> IF k \in gone THEN Missing ELSE music[k]]
        /\ provenance' = [k \in Key |-> IF k \in gone THEN {} ELSE provenance[k]]
        /\ pending' = pending \cup {<<k, music[k]>> : k \in {j \in gone : music[j] # Missing}}
        /\ UNCHANGED <<workspace, revision, diff, applying>>

(* One round of the loop.  The code takes the last one that was put in.    *)
Invalidate(changed) ==
    LET gone == IF changed \in handled THEN {} ELSE MadeFrom(changed)
    IN  /\ applying # None
        /\ handled' = handled \cup {changed}
        /\ music' = [k \in Key |-> IF k \in gone THEN Missing ELSE music[k]]
        /\ provenance' = [k \in Key |-> IF k \in gone THEN {} ELSE provenance[k]]
        /\ pending' = (pending \ {changed})
                        \cup {<<k, music[k]>> : k \in {j \in gone : music[j] # Missing}}
        /\ UNCHANGED <<workspace, revision, diff, applying>>

(* The written keys get their sources, and the workspace is replaced.      *)
Finish ==
    /\ applying # None /\ pending = {}
    /\ LET d == diff[applying]
           sources == [k \in Key |-> IF k \in d.writes THEN d.reads[k] ELSE provenance[k]]
       IN  /\ workspace' = [value |-> music, source |-> sources]
           /\ provenance' = sources
    /\ revision' = revision + 1
    /\ diff' = [diff EXCEPT ![applying] = None]
    /\ applying' = None
    /\ handled' = {}
    /\ UNCHANGED <<music, pending>>

Next ==
    \/ \E a \in Author : Build(a) \/ Reject(a) \/ Start(a)
    \/ \E changed \in pending : Invalidate(changed)
    \/ Finish

Spec == Init /\ [][Next]_vars

(* apply_checked_diff runs to its end; nothing makes an author go on.      *)
FairSpec ==
    Spec /\ WF_vars((\E changed \in pending : Invalidate(changed)) \/ Finish)

----------------------------------------------------------------------------
(* Whatever is rewritten, in whatever order the operations are repeated,   *)
(* no value stays that was made from a value that is not there any more,   *)
(* neither directly nor through others (apply_checked_diff, 540-580).      *)
NothingIsStale == Current(workspace) /\ Explained(workspace)

(* Applying a diff removes nothing without need: a value that was not      *)
(* written stays unless something it was made from has changed.            *)
TakesOnlyWhatChanged ==
    \A a \in Author : applying = a /\ applying' = None =>
        \A k \in Key \ diff[a].writes :
           \/ workspace'.value[k] = workspace.value[k]
           \/ /\ workspace'.value[k] = Missing
              /\ \E r \in workspace.source[k] : workspace'.value[r[1]] # r[2]

KeepsWhatHolds == [][TakesOnlyWhatChanged]_vars

(* Following what a change makes stale comes to an end.                    *)
ApplyingEnds == (applying # None) ~> (applying = None)

=============================================================================
