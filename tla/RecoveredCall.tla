--------------------------- MODULE RecoveredCall ---------------------------
(***************************************************************************)
(* One step of a run that asks the model with codex exec                   *)
(* (pilot_loop.CodexExecRunner) and records it in a RunStore.  The program *)
(* that is asked is a process of its own: when its parent stops it may go  *)
(* on, and write its events and its answer while a later invocation reads  *)
(* them.  Each invocation holds the RunLock, which a stop releases.        *)
(*                                                                         *)
(* Saved: asked (the request of the attempt), stream (what is in           *)
(* stdout.jsonl), staged (response.staged.json), response (the canonical   *)
(* file of the step), terminal and recovery (the two records that end an   *)
(* attempt) and told (the status in run-state.json).  Calls are counted.   *)
(***************************************************************************)
EXTENDS Naturals

CONSTANTS
    Proc,       \* processes that invoke the step
    Request,    \* the requests they may make
    None

ASSUME RequestAssumption == None \notin Request \cup Proc

VARIABLES
    asked, stream, staged, response, terminal, recovery, told,
    child,          \* the program that is asked
    calls,          \* how often it was started
    lock,
    pc, req,        \* of each process: its next step and its request
    verdict         \* ... and the terminal record it is about to write

attempt == <<asked, stream, staged, response, terminal, recovery>>

vars == <<attempt, told, child, calls, lock, pc, req, verdict>>

Terminal == {"completed", "failed", "interrupted"}

Outcome == {"answered", "failed", "interrupted", "conflict", "busy"}

Working == {"initialize", "look", "reserve", "reserved", "start", "wait",
            "promote", "end", "recover", "tell"}

ASSUME RecordAssumption ==
    None \notin Terminal \cup {"partial", "good", "bad", "running", "succeeded", "broke"}

Status == Terminal \cup {"initialized", "running", "recovery_required"}

TypeOK ==
    /\ asked \in Request \cup {None}
    /\ stream \subseteq {"started", "completed", "failed", "torn"}
    /\ staged \in {None, "partial", "good", "bad"}
    /\ response \in {None, "good"}
    /\ terminal \in Terminal \cup {None}
    /\ recovery \in BOOLEAN
    /\ told \in (Status \ {"completed"}) \cup {None}
    /\ child \in {None, "running", "succeeded", "broke"}
    /\ calls \in 0..1
    /\ lock \in Proc \cup {None}
    /\ pc \in [Proc -> {"idle"} \cup Working \cup Outcome]
    /\ req \in [Proc -> Request \cup {None}]
    /\ verdict \in [Proc -> Terminal \cup {None}]

Init ==
    /\ asked = None /\ stream = {} /\ staged = None /\ response = None
    /\ terminal = None /\ recovery = FALSE /\ told = None
    /\ child = None /\ calls = 0 /\ lock = None
    /\ pc = [p \in Proc |-> "idle"]
    /\ req = [p \in Proc |-> None]
    /\ verdict = [p \in Proc |-> None]

-----------------------------------------------------------------------------
(* rebuild_state of a run whose only attempt is this one; the other steps  *)
(* of a run change its status when this attempt leaves it running.         *)
RunStatus ==
    CASE asked = None -> "initialized"
      [] recovery -> "recovery_required"
      [] terminal \in {"failed", "interrupted"} -> terminal
      [] /\ terminal = None /\ ~ recovery /\ asked # None
         /\ stream \cap {"completed", "failed"} # {} /\ "torn" \notin stream ->
            "recovery_required"
      [] OTHER -> "running"

IsCompleted == {"started", "completed"} \subseteq stream
               /\ stream \cap {"failed", "torn"} = {}

Goes(p, next) == pc' = [pc EXCEPT ![p] = next]

(* The process is about to write a terminal record.                        *)
Settles(p, status) ==
    verdict' = [verdict EXCEPT ![p] = status] /\ Goes(p, "end")

Begin(p) ==
    /\ pc[p] \in {"idle"} \cup Outcome
    /\ \E r \in Request : req' = [req EXCEPT ![p] = r]
    /\ lock' = IF lock = None THEN p ELSE lock
    /\ Goes(p, IF lock = None THEN "initialize" ELSE "busy")
    /\ UNCHANGED <<attempt, told, child, calls, verdict>>

Initialize(p) ==
    /\ pc[p] = "initialize"
    /\ told' = RunStatus
    /\ Goes(p, "look")
    /\ UNCHANGED <<attempt, child, calls, lock, req, verdict>>

(* The invocation ends and frees the lock.                                 *)
Leaves(p, outcome) ==
    /\ Goes(p, outcome)
    /\ lock' = None
    /\ verdict' = [verdict EXCEPT ![p] = None]

(* _recover_existing: the records of the attempt decide, and without them  *)
(* what is in the stream.                                                  *)
Look(p) ==
    /\ pc[p] = "look"
    /\ IF asked = None THEN Goes(p, "reserve") /\ UNCHANGED <<lock, verdict>>
       ELSE IF asked # req[p] THEN Leaves(p, "conflict")
       ELSE IF recovery THEN Leaves(p, "interrupted")
       ELSE IF terminal \in {"failed", "interrupted"} THEN Leaves(p, terminal)
       ELSE IF terminal = "completed" \/ IsCompleted
            THEN Goes(p, "promote") /\ UNCHANGED <<lock, verdict>>
       ELSE /\ Settles(p, IF "failed" \in stream THEN "failed" ELSE "interrupted")
            /\ UNCHANGED lock
    /\ UNCHANGED <<attempt, told, child, calls, req>>

(* reserve_attempt renames a whole directory into place ...                *)
Reserve(p) ==
    /\ pc[p] = "reserve"
    /\ asked' = req[p]
    /\ Goes(p, "reserved")
    /\ UNCHANGED <<stream, staged, response, terminal, recovery>>
    /\ UNCHANGED <<told, child, calls, lock, req, verdict>>

(* ... and rebuilds the state.                                             *)
TellReserved(p) ==
    /\ pc[p] = "reserved"
    /\ told' = RunStatus
    /\ Goes(p, "start")
    /\ UNCHANGED <<attempt, child, calls, lock, req, verdict>>

(* _run_codex_process starts the program; there may be none.               *)
StartChild(p) ==
    /\ pc[p] = "start"
    /\ \/ /\ child' = "running" /\ calls' = calls + 1
          /\ Goes(p, "wait") /\ UNCHANGED verdict
       \/ Settles(p, "failed") /\ UNCHANGED <<child, calls>>
    /\ UNCHANGED <<attempt, told, lock, req>>

PromoteAtOnce(p) ==                                    \* faulty: ignores the stream
    /\ pc[p] = "wait"
    /\ child \in {"succeeded", "broke"}
    /\ Goes(p, "promote")
    /\ UNCHANGED <<attempt, told, child, calls, lock, req, verdict>>

(* The program has ended: only a success with an unambiguous end of the    *)
(* turn in its stream is promoted.                                         *)
Return(p) ==
    /\ pc[p] = "wait"
    /\ child \in {"succeeded", "broke"}
    /\ IF child = "succeeded" /\ IsCompleted
       THEN Goes(p, "promote") /\ UNCHANGED verdict
       ELSE Settles(p, "failed")
    /\ UNCHANGED <<attempt, told, child, calls, lock, req>>

(* Its time is up: it is killed, or that fails too and it goes on.         *)
TimeOut(p) ==
    /\ pc[p] = "wait" /\ child = "running"
    /\ \/ child' = "broke" /\ Settles(p, "interrupted")
       \/ Goes(p, "recover") /\ UNCHANGED <<child, verdict>>
    /\ UNCHANGED <<attempt, told, calls, lock, req>>

(* record_recovery_failure refuses an attempt that ended.                  *)
RecordRecovery(p) ==
    /\ pc[p] = "recover"
    /\ recovery' = (terminal = None)
    /\ Goes(p, IF terminal = None THEN "tell" ELSE "conflict")
    /\ lock' = IF terminal = None THEN lock ELSE None
    /\ verdict' = [verdict EXCEPT ![p] = "interrupted"]
    /\ UNCHANGED <<asked, stream, staged, response, terminal>>
    /\ UNCHANGED <<told, child, calls, req>>

(* _promote_validated_response, and the repeated promotion of an attempt   *)
(* that is completed already.                                              *)
Promote(p) ==
    /\ pc[p] = "promote"
    /\ IF staged = "good"
       THEN /\ response' = "good"
            /\ verdict' = [verdict EXCEPT ![p] = "completed"]
            /\ Goes(p, IF terminal = "completed" THEN "tell" ELSE "end")
       ELSE Settles(p, "failed") /\ UNCHANGED response
    /\ UNCHANGED <<asked, stream, staged, terminal, recovery>>
    /\ UNCHANGED <<told, child, calls, lock, req>>

(* finalize_attempt refuses an attempt in recovery and another record.     *)
End(p) ==
    /\ pc[p] = "end"
    /\ IF recovery \/ terminal \notin {None, verdict[p]}
       THEN Leaves(p, "conflict") /\ UNCHANGED terminal
       ELSE terminal' = verdict[p] /\ Goes(p, "tell") /\ UNCHANGED <<lock, verdict>>
    /\ UNCHANGED <<asked, stream, staged, response, recovery>>
    /\ UNCHANGED <<told, child, calls, req>>

Tell(p) ==
    /\ pc[p] = "tell"
    /\ told' = RunStatus
    /\ Leaves(p, IF verdict[p] = "completed" THEN "answered" ELSE verdict[p])
    /\ UNCHANGED <<attempt, child, calls, req>>

(* A stop, which frees the lock and may or may not take the program along. *)
Crash(p) ==
    /\ pc[p] \in Working
    /\ Goes(p, "idle")
    /\ lock' = IF lock = p THEN None ELSE lock
    /\ child' \in {child, IF child = "running" THEN "broke" ELSE child}
    /\ verdict' = [verdict EXCEPT ![p] = None]
    /\ UNCHANGED <<attempt, told, calls, req>>

-----------------------------------------------------------------------------
(* The program writes its events line by line, the end of its turn last,   *)
(* and its answer in one file, which is incomplete for a while; neither    *)
(* waits for the other.                                                    *)
ChildTurn == stream \cap {"completed", "failed"} # {}

Emit ==
    /\ child = "running" /\ ~ ChildTurn
    /\ \/ stream' = stream \cup {"torn"}
       \/ stream' = (stream \ {"torn"}) \cup {"started"}
       \/ /\ "started" \in stream
          /\ \E e \in {"completed", "failed"} : stream' = (stream \ {"torn"}) \cup {e}
    /\ UNCHANGED <<asked, staged, response, terminal, recovery>>
    /\ UNCHANGED <<told, child, calls, lock, pc, req, verdict>>

WriteAnswer ==
    /\ child = "running"
    /\ \/ staged = None /\ staged' = "partial"
       \/ staged = "partial" /\ staged' \in {"good", "bad"}
    /\ UNCHANGED <<asked, stream, response, terminal, recovery>>
    /\ UNCHANGED <<told, child, calls, lock, pc, req, verdict>>

Exit ==
    /\ child = "running"
    /\ child' \in {"succeeded", "broke"}
    /\ UNCHANGED <<attempt, told, calls, lock, pc, req, verdict>>

-----------------------------------------------------------------------------
Advance(p) ==
    \/ Initialize(p)
    \/ Look(p)
    \/ Reserve(p)
    \/ TellReserved(p)
    \/ StartChild(p)
    \/ Return(p)
    \/ RecordRecovery(p)
    \/ Promote(p)
    \/ End(p)
    \/ Tell(p)

Next ==
    \/ \E p \in Proc : Begin(p) \/ Advance(p) \/ TimeOut(p) \/ Crash(p)
    \/ Emit \/ WriteAnswer \/ Exit

Spec == Init /\ [][Next]_vars

(* A process that was started takes its steps, and the time it waits for   *)
(* runs out, as in the runs that set timeout_seconds; nobody has to start  *)
(* one, and nothing is assumed of the program.                             *)
FairSpec == Spec /\ \A p \in Proc : WF_vars(Advance(p)) /\ WF_vars(TimeOut(p))

-----------------------------------------------------------------------------
(* The model is asked once for a step, whatever is stopped and invoked     *)
(* again, by whom and with which request.                                  *)
AskedOnce == calls <= 1

(* The canonical answer of a step is one whose attempt ended its turn; it  *)
(* never stands beside a record that says the attempt failed.              *)
ResponseIsBacked ==
    response # None =>
        /\ asked # None /\ IsCompleted /\ staged = "good"
        /\ terminal \in {None, "completed"} /\ ~ recovery

(* What one caller is told of the attempt is what every other is told,     *)
(* though the program may have gone on writing between them.               *)
RepliesAgree ==
    \A p, q \in Proc :
        {pc[p], pc[q]} \subseteq {"answered", "failed", "interrupted"} => pc[p] = pc[q]

(* The caller that has the answer, and every later reader, finds it saved  *)
(* as completed, and a run-state.json that was rebuilt over that.          *)
AnswerIsTold ==
    (\E p \in Proc : pc[p] = "answered") =>
        response = "good" /\ terminal = "completed" /\ told = "running"

(* An answer a stop left behind is used: an invocation with its request    *)
(* that finds it complete returns it, unless it is stopped in turn.        *)
SavedAnswerIsUsed ==
    \A p \in Proc :
        (/\ pc[p] = "look" /\ asked = req[p] /\ ~ recovery
         /\ terminal \in {None, "completed"} /\ IsCompleted /\ staged = "good")
            ~> pc[p] \in {"answered", "idle"}

(* Whoever is started gets an outcome or is stopped, and frees the lock.   *)
LockIsFreed == \A p \in Proc : lock = p ~> lock # p
=============================================================================
