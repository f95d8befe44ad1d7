---------------------------- MODULE WholeScoreRun ----------------------------
(***************************************************************************)
(* A prepared whole-score run (whole_score_staged_generation_run):         *)
(* execute_prepared_whole_score_live_run composes harmony, melody (main    *)
(* materials, then transitions), accompaniment (batch by batch) and        *)
(* performance, evaluates the rendering and promotes it if it fits.        *)
(*                                                                         *)
(* Nothing is locked.  An invocation that finds the manifest "prepared"    *)
(* replays the run from its start: calls that were answered are answered   *)
(* from their attempts, and every record is compared with the saved one.   *)
(* A record has the number of calls made so far in it.  Any exception      *)
(* settles the manifest as failed; a stop leaves it prepared.              *)
(*                                                                         *)
(* An answer is "good", "plain" (accepted, but the piece will not fit the  *)
(* targets), "weak" (accepted, but the score or the rendering made of it   *)
(* fails its check), "bad" (fails the checks of its stage) or "broken"     *)
(* (cannot be used at all).  Calls may also end "failed" or "interrupted". *)
(***************************************************************************)
EXTENDS Naturals, FiniteSets, Sequences, SequencesExt, TextureBatches

CONSTANTS
    Process,        \* the invocations that may run
    Weights,        \* the events each material requires
    Ceiling,        \* texture_batch_maximum_event_count
    Limits,         \* what maximum_external_calls may be
    Given,          \* what may be prepared: the harmony or not, and how many batches
    Transitions,    \* whether the piece has transition materials
    MaxPrepares,    \* bound: how often the run is prepared
    MaxStops,       \* bound: how often an invocation is stopped
    None

ASSUME MaterialAssumption == Feasible(Weights, Ceiling)

ASSUME SizeAssumption ==
    /\ Limits \subseteq Nat /\ MaxStops \in Nat /\ Transitions \in BOOLEAN
    /\ Weights \in Seq(Nat) /\ Ceiling \in Nat

Harmony == 1
Main == 2
Transition == 3
Ending == 4
BatchStep(k) == 4 + k
Texture == BatchStep(Len(Partition(Weights, Ceiling))) + 1
Performance == Texture + 1
Validation == Texture + 2
Publish == Texture + 3

BatchSteps == (Ending + 1)..(Texture - 1)

(* The steps an execution records, in their order.                         *)
Order ==
    IF Transitions THEN [i \in 1..Publish |-> i]
    ELSE [i \in 1..(Publish - 1) |-> IF i < Transition THEN i ELSE i + 1]

(* The steps the model is asked for, unless their result is given.  (A     *)
(* melody can be given too, which leaves two steps out.)                   *)
CallsWithout(given) ==
    (IF given.harmony THEN {} ELSE {Harmony})
    \cup {Main} \cup (IF Transitions THEN {Transition} ELSE {})
    \cup {s \in BatchSteps : s > Ending + given.batches}
    \cup {Performance}

VARIABLES
    attempt,        \* of each call: None, "open", or how it ended
    record,         \* of each step: its status and the number of its call
    failure,        \* whether steps/run-failure.json exists
    final,          \* the promoted files
    manifest,       \* its status
    told,           \* whether the manifest has the result and the call count
    pc, at,         \* of each invocation: where it is, and in which step
    spent,          \* history: the most calls made before a stop
    prepares, stops,
    limit           \* maximum_external_calls

saved == <<attempt, record, failure, final, manifest, told>>

settled == <<attempt, record, final, manifest>>

history == <<spent, prepares, stops, limit>>

vars == <<saved, pc, at, history>>

Call == DOMAIN attempt

Ends(s) ==
    {"good", "plain", "bad", "broken", "failed", "interrupted"}
    \cup (IF s \in BatchSteps \cup {Performance} THEN {"weak"} ELSE {})

CallEnd == {"good", "plain", "weak", "bad", "broken", "failed", "interrupted"}
Settled == {"fit", "unfit", "failed"}
Working == {"stage", "call", "record", "midi", "xml", "publish", "settle", "tell",
            "refuse", "fail", "give up"}

Init ==
    /\ attempt \in {[s \in CallsWithout(given) |-> None] : given \in Given}
    /\ record = [s \in 1..Publish |-> None]
    /\ failure = FALSE /\ final = {}
    /\ manifest = None /\ told = FALSE
    /\ pc = [p \in Process |-> "idle"]
    /\ at = [p \in Process |-> 1]
    /\ spent = 0 /\ prepares = 0 /\ stops = 0
    /\ limit \in Limits

-----------------------------------------------------------------------------
Step(p) == Order[at[p]]

(* CodexExecRunner.call_number: all attempts of the run.                   *)
CallNumber == Cardinality({s \in Call : attempt[s] # None})

To(p, where) == pc' = [pc EXCEPT ![p] = where]

(* What is written for a step that went well.                              *)
Entry(s) ==
    [status |-> "completed", number |-> IF s \in Call THEN CallNumber ELSE 0]

(* prepare_whole_score_live_run: the snapshots are compared, the manifest  *)
(* is not.                                                                 *)
Prepare ==
    /\ prepares < MaxPrepares
    /\ manifest' = "prepared" /\ told' = FALSE
    /\ prepares' = prepares + 1
    /\ UNCHANGED <<attempt, record, failure, final, pc, at, spent, stops, limit>>

Execute(p) ==
    /\ pc[p] \in {"idle", "returned"} /\ manifest # None
    /\ IF manifest = "prepared"
       THEN To(p, "stage") /\ at' = [at EXCEPT ![p] = 1]
       ELSE To(p, "returned") /\ UNCHANGED at
    /\ UNCHANGED <<saved, history>>

Stop(p) ==
    /\ pc[p] \in Working /\ stops < MaxStops
    /\ To(p, "idle")
    /\ spent' = CallNumber /\ stops' = stops + 1
    /\ UNCHANGED <<saved, at, prepares, limit>>

-----------------------------------------------------------------------------
(* What stops the run on its way into a step: bad melodies are found when  *)
(* both were recorded and joined at the ending, a weak score when all its  *)
(* batches are there.                                                      *)
FlawBefore(s) ==
    \/ s = Ending + 1 /\ \E c \in Call \cap {Main, Transition} : attempt[c] = "bad"
    \/ s = Performance /\ \E c \in Call \cap BatchSteps : attempt[c] = "weak"

FoundFlaw(p) ==
    /\ pc[p] = "stage" /\ FlawBefore(Step(p))
    /\ To(p, "fail")
    /\ UNCHANGED <<saved, at, history>>

(* A step that needs no call: prepared, or worked out from the others.     *)
NoCall(p) ==
    /\ pc[p] = "stage" /\ ~FlawBefore(Step(p))
    /\ Step(p) \notin Call \cup {Publish}
    /\ To(p, IF Step(p) = Validation /\ attempt[Performance] = "weak"
             THEN "refuse" ELSE "record")
    /\ UNCHANGED <<saved, at, history>>

MayCall(p) ==
    /\ pc[p] = "stage" /\ ~FlawBefore(Step(p))
    /\ Step(p) \in Call

Reserve(p) ==
    /\ MayCall(p) /\ attempt[Step(p)] = None
    /\ IF CallNumber < limit
       THEN attempt' = [attempt EXCEPT ![Step(p)] = "open"] /\ To(p, "call")
       ELSE UNCHANGED attempt /\ To(p, "fail")
    /\ UNCHANGED <<record, failure, final, manifest, told, at, history>>

(* The own call ends; its attempt may have been given up by another.       *)
CallEnds(p) ==
    /\ pc[p] = "call"
    /\ IF attempt[Step(p)] = "open"
       THEN /\ \E how \in Ends(Step(p)) : attempt' = [attempt EXCEPT ![Step(p)] = how]
            /\ To(p, "stage")
       ELSE UNCHANGED attempt /\ To(p, "fail")
    /\ UNCHANGED <<record, failure, final, manifest, told, at, history>>

(* An open attempt of someone else, running or stopped: what its stream    *)
(* shows now is taken for its end.                                         *)
Recover(p) ==
    /\ MayCall(p) /\ attempt[Step(p)] = "open"
    /\ \E how \in Ends(Step(p)) : attempt' = [attempt EXCEPT ![Step(p)] = how]
    /\ UNCHANGED <<record, failure, final, manifest, told, pc, at, history>>

UseAnswer(p) ==
    /\ MayCall(p) /\ attempt[Step(p)] \in CallEnd
    /\ LET how == attempt[Step(p)] IN
       To(p, IF how \in {"failed", "interrupted"} THEN "fail"
             ELSE IF how # "broken" /\ (how = "bad" => Step(p) \in {Main, Transition})
             THEN "record"
             ELSE IF Step(p) \in BatchSteps \cup {Performance} THEN "refuse" ELSE "fail")
    /\ UNCHANGED <<saved, at, history>>

(* record_step: a saved record is compared with the new one.               *)
Writes(p, s, entry, next) ==
    IF record[s] \in {None, entry}
    THEN record' = [record EXCEPT ![s] = entry] /\ next
    ELSE UNCHANGED <<record, at>> /\ To(p, "fail")

Onward(p) == at' = [at EXCEPT ![p] = @ + 1] /\ To(p, "stage")

RecordStep(p) ==
    /\ pc[p] = "record"
    /\ Writes(p, Step(p), Entry(Step(p)), Onward(p))
    /\ UNCHANGED <<attempt, failure, final, manifest, told, history>>

(* _save_stage_failure, and the record of a rendering that does not read   *)
(* back as it was written.                                                 *)
Refuse(p) ==
    /\ pc[p] = "refuse"
    /\ Writes(p, Step(p), [status |-> "failed", number |-> 0],
              To(p, "fail") /\ UNCHANGED at)
    /\ UNCHANGED <<attempt, failure, final, manifest, told, history>>

-----------------------------------------------------------------------------
(* evaluate_staged_candidate.                                              *)
SuitsAtTheEnd == attempt[Performance] = "good"    \* faulty: only the last answer counts

Suits == \A s \in Call : attempt[s] = "good"

Evaluate(p) ==
    /\ pc[p] = "stage" /\ Step(p) = Publish
    /\ To(p, IF Suits THEN "midi" ELSE "publish")
    /\ UNCHANGED <<saved, at, history>>

Promote(p) ==
    /\ pc[p] \in {"midi", "xml"}
    /\ final' = final \cup {pc[p]}
    /\ To(p, IF pc[p] = "midi" THEN "xml" ELSE "publish")
    /\ UNCHANGED <<attempt, record, failure, manifest, told, at, history>>

RecordPublish(p) ==
    /\ pc[p] = "publish"
    /\ Writes(p, Publish, Entry(Publish), To(p, "settle") /\ UNCHANGED at)
    /\ UNCHANGED <<attempt, failure, final, manifest, told, history>>

Settle(p) ==
    /\ pc[p] = "settle"
    /\ manifest' = IF Suits THEN "fit" ELSE "unfit"
    /\ To(p, "tell")
    /\ UNCHANGED <<attempt, record, failure, final, told, at, history>>

Tell(p) ==
    /\ pc[p] = "tell"
    /\ told' = TRUE
    /\ To(p, "returned")
    /\ UNCHANGED <<attempt, record, failure, final, manifest, at, history>>

(* The except clause: a run-failure step if there is none to contradict,   *)
(* and the manifest read at the start, settled.                            *)
RecordFailure(p) ==
    /\ pc[p] = "fail"
    /\ failure' = TRUE
    /\ To(p, "give up")
    /\ UNCHANGED <<attempt, record, final, manifest, told, at, history>>

GiveUpPrepared(p) ==                           \* faulty: the manifest is not written
    /\ pc[p] = "give up"
    /\ To(p, "returned")
    /\ UNCHANGED <<saved, at, history>>

GiveUp(p) ==
    /\ pc[p] = "give up"
    /\ manifest' = "failed" /\ told' = TRUE
    /\ To(p, "returned")
    /\ UNCHANGED <<attempt, record, failure, final, at, history>>

Work(p) ==
    \/ FoundFlaw(p) \/ NoCall(p) \/ Reserve(p) \/ CallEnds(p) \/ Recover(p)
    \/ UseAnswer(p) \/ RecordStep(p) \/ Refuse(p)
    \/ Evaluate(p) \/ Promote(p) \/ RecordPublish(p) \/ Settle(p) \/ Tell(p)
    \/ RecordFailure(p) \/ GiveUp(p)

Next ==
    \/ Prepare
    \/ \E p \in Process : Execute(p) \/ Stop(p) \/ Work(p)

(* What is started is worked on, and started again if it was stopped.      *)
Spec ==
    /\ Init /\ [][Next]_vars
    /\ WF_vars(Prepare)
    /\ \A p \in Process : WF_vars(Work(p)) /\ WF_vars(Execute(p))

-----------------------------------------------------------------------------
(* Types.                                                                  *)
TypeOK ==
    /\ \A s \in Call : attempt[s] \in {None, "open"} \cup CallEnd
    /\ limit \in Limits
    /\ record \in [1..Publish -> {None} \cup
          [status : {"completed", "failed"}, number : 0..limit]]
    /\ failure \in BOOLEAN /\ told \in BOOLEAN
    /\ final \subseteq {"midi", "xml"}
    /\ manifest \in {None, "prepared"} \cup Settled
    /\ pc \in [Process -> {"idle", "returned"} \cup Working]
    /\ at \in [Process -> 1..Len(Order)]
    /\ spent \in 0..limit
    /\ prepares \in 0..MaxPrepares /\ stops \in 0..MaxStops

(* A manifest that says fit has both files and a whole chain of records    *)
(* behind it, none of them from a plain answer; one that says unfit        *)
(* promotes nothing.                                                       *)
VerdictIsBacked ==
    /\ manifest = "fit" =>
          /\ final = {"midi", "xml"}
          /\ \A s \in Call : attempt[s] = "good"
    /\ manifest = "unfit" =>
          /\ final = {}
          /\ \E s \in Call : attempt[s] = "plain"
    /\ manifest \in {"fit", "unfit"} =>
          \A i \in DOMAIN Order : record[Order[i]] # None

(* The number in a record is the place of its call among all calls, also   *)
(* when the step is recorded by a later invocation than the one that asked.*)
NumbersAreOrdinals ==
    \A s \in Call :
        (record[s] # None /\ record[s].status = "completed") =>
            record[s].number = Cardinality({r \in Call : r <= s})

(* A run that was stopped after its second call was reserved spends no more*)
(* calls: its replay contradicts the first record.                         *)
StoppedRunSpendsNoMore == spent >= 2 => CallNumber = spent

(* Nothing changes a run whose manifest is settled.                        *)
StaysSettled == manifest \in Settled => UNCHANGED settled

SettledIsFinal == [][StaysSettled]_vars

Ledger == [i \in DOMAIN Order |-> IF record[Order[i]] = None THEN None ELSE record[Order[i]].status]

AbstractVerdict ==
    IF manifest = "fit" THEN "published"
    ELSE IF manifest = "unfit" THEN "withheld"
    ELSE IF manifest = "failed" THEN "failed" ELSE "open"

AbstractLedger == INSTANCE StepLedger WITH
    N <- Len(Order), ledger <- Ledger, verdict <- AbstractVerdict

(* The run keeps the promise of a staged run.                              *)
KeepsLedgerPromise == AbstractLedger!Spec

=============================================================================
