----------------------------- MODULE StepLedger -----------------------------
(***************************************************************************)
(* What a staged run promises about the steps it records: they are recorded*)
(* in their order, each once and after the ones before it were completed,  *)
(* and what the run publishes rests on all of them.  The run is closed with*)
(* one verdict, and nothing is recorded after it.                          *)
(***************************************************************************)
EXTENDS Naturals

CONSTANTS N, None

VARIABLES
    ledger,         \* of each step: None, "completed" or "failed"
    verdict         \* "open", and then how the run was closed

vars == <<ledger, verdict>>

Verdict == {"published", "withheld", "failed"}

Init ==
    /\ ledger = [i \in 1..N |-> None]
    /\ verdict = "open"

Reached(i) == \A j \in 1..(i - 1) : ledger[j] = "completed"

RecordStep(i, status) ==
    /\ verdict = "open"
    /\ ledger[i] = None /\ Reached(i)
    /\ ledger' = [ledger EXCEPT ![i] = status]
    /\ UNCHANGED verdict

Close(how) ==
    /\ verdict = "open"
    /\ how \in {"published", "withheld"} => Reached(N + 1)
    /\ verdict' = how
    /\ UNCHANGED ledger

Next ==
    \/ \E i \in 1..N, status \in {"completed", "failed"} : RecordStep(i, status)
    \/ \E how \in Verdict : Close(how)

Spec == Init /\ [][Next]_vars
=============================================================================
