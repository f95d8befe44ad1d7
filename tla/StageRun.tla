------------------------------ MODULE StageRun ------------------------------
(***************************************************************************)
(* What a workspace run (realization_run.RealizationRunStore) promises the *)
(* staged realization that drives it: its operations are applied in order  *)
(* and once, what is applied or reviewed is never taken back, and the run  *)
(* stops at an operation under review until the review is recorded.        *)
(* RealizationRun implements it.                                           *)
(***************************************************************************)
EXTENDS Naturals, Sequences

CONSTANTS Answer, None, N, Reviewed

VARIABLES
    applied,    \* what each operation so far has written into the workspace
    pending,    \* the diff of the next operation waits for its review
    failed      \* the next operation does not apply

vars == <<applied, pending, failed>>

Written == Answer \cup {None}

TypeOK ==
    /\ applied \in Seq(Written) /\ Len(applied) <= N
    /\ pending \in BOOLEAN /\ failed \in BOOLEAN

Init == applied = <<>> /\ ~ pending /\ ~ failed

Open == ~ failed /\ Len(applied) < N

Apply ==
    /\ applied' \in {Append(applied, w) : w \in Written}
    /\ UNCHANGED failed

Fail == failed' = TRUE /\ UNCHANGED applied

(* An operation without a review; one that is put up for review; a review. *)
Run ==
    /\ Open /\ ~ pending /\ Len(applied) + 1 \notin Reviewed
    /\ Apply \/ Fail
    /\ UNCHANGED pending

Propose ==
    /\ Open /\ ~ pending /\ Len(applied) + 1 \in Reviewed
    /\ pending' = TRUE
    /\ UNCHANGED <<applied, failed>>

Decide ==
    /\ pending
    /\ pending' = FALSE
    /\ Apply \/ Fail

Next == Run \/ Propose \/ Decide

Spec == Init /\ [][Next]_vars
=============================================================================
