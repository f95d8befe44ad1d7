--------------------------- MODULE ModelCallsProofs ---------------------------
(***************************************************************************)
(* Theorems about the runs that ask the codex program, for any number of   *)
(* processes that invoke a step with any requests, any number of candidates*)
(* of a pilot loop and any number of batches of a pipeline.  One part for  *)
(* each: the call, the pilot loop (first its records, then what a replay   *)
(* finds while storage is not wanting), the pipeline (its records, then    *)
(* the ledger they make), and last the theorems.                           *)
(***************************************************************************)
EXTENDS MCModelCalls, TLAPS, WellFoundedInduction

-----------------------------------------------------------------------------
(* One call.  Whoever holds the lock is at work, and nobody else is.       *)
LockOK(p) == pc[p] \in Working => lock = p /\ req[p] # None

(* Nothing is known of a call before it is reserved, and nothing comes of  *)
(* it before the program was started.                                      *)
CallOK ==
    /\ asked = None => calls = 0 /\ terminal = None /\ ~ recovery
    /\ calls = 0 => child = None /\ stream = {} /\ staged = None

(* The records that end an attempt exclude each other, and the canonical   *)
(* answer goes with an unambiguous end of the turn.                        *)
EndOK ==
    /\ recovery => terminal = None
    /\ terminal = "completed" => response # None
    /\ response # None =>
          /\ asked # None /\ IsCompleted /\ staged = "good"
          /\ terminal \in {None, "completed"} /\ ~ recovery

Open == terminal = None /\ ~ recovery

(* What the process at work knows of the attempt where it stands.          *)
Knows(p) ==
    /\ pc[p] = "reserve" => asked = None
    /\ pc[p] \in {"reserved", "start"} => asked # None /\ calls = 0 /\ Open
    /\ pc[p] \in {"wait", "recover"} => asked # None /\ Open /\ response = None
    /\ pc[p] = "promote" =>
          asked # None /\ IsCompleted /\ ~ recovery /\ terminal \in {None, "completed"}
    /\ pc[p] = "end" =>
          /\ asked # None /\ Open /\ verdict[p] # None
          /\ IF verdict[p] = "completed" THEN response # None ELSE response = None
    /\ pc[p] = "tell" =>
          /\ asked # None
          /\ \/ verdict[p] # None /\ verdict[p] = terminal
             \/ verdict[p] = "interrupted" /\ recovery

(* What a caller was told is what the records say ever after.              *)
Told(p) ==
    /\ pc[p] = "answered" => terminal = "completed" /\ told = "running"
    /\ pc[p] = "failed" => terminal = "failed"
    /\ pc[p] = "interrupted" => terminal = "interrupted" \/ recovery

CInv ==
    /\ TypeOK /\ CallOK /\ EndOK
    /\ \A p \in Proc : LockOK(p) /\ Knows(p) /\ Told(p)

LEMMA CInitOK == Init => CInv
  <1> SUFFICES ASSUME Init PROVE CInv
    OBVIOUS
  <1>1. TypeOK
    <2>1. /\ pc \in [Proc -> {"idle"} \cup Working \cup Outcome]
          /\ req \in [Proc -> Request \cup {None}]
          /\ verdict \in [Proc -> Terminal \cup {None}]
      BY DEF Init
    <2>2. recovery \in BOOLEAN
      BY DEF Init
    <2>3. QED BY <2>1, <2>2 DEF Init, TypeOK
  <1>2. CallOK /\ EndOK
    BY RecordAssumption DEF Init, CallOK, EndOK, Terminal, IsCompleted
  <1>3. \A p \in Proc : LockOK(p) /\ Knows(p) /\ Told(p)
    <2>1. \A p \in Proc : pc[p] = "idle"
      BY DEF Init
    <2>2. QED BY <2>1 DEF LockOK, Knows, Told, Working
  <1>4. QED BY <1>1, <1>2, <1>3 DEF CInv

-----------------------------------------------------------------------------
(* What a step of p must leave as it is for the others.                    *)
MovesOnly(p) ==
    \A q \in Proc : q # p =>
        pc'[q] = pc[q] /\ req'[q] = req[q] /\ verdict'[q] = verdict[q]

RecordsStay ==
    /\ terminal # None => terminal' = terminal
    /\ recovery => recovery'
    /\ terminal = "completed" /\ told = "running" => told' = "running"

LEMMA OthersRest ==
    ASSUME CInv, NEW p \in Proc, lock = p, MovesOnly(p), RecordsStay
    PROVE  \A q \in Proc : q # p => LockOK(q)' /\ Knows(q)' /\ Told(q)'
  <1> SUFFICES ASSUME NEW q \in Proc, q # p PROVE LockOK(q)' /\ Knows(q)' /\ Told(q)'
    OBVIOUS
  <1>1. pc[q] \notin Working /\ pc'[q] = pc[q]
    BY DEF CInv, LockOK, MovesOnly
  <1>2. LockOK(q)' /\ Knows(q)'
    BY <1>1 DEF LockOK, Knows, Working
  <1>3. Told(q)'
    <2>1. Told(q)
      BY DEF CInv
    <2>2. QED BY <1>1, <2>1, RecordAssumption DEF Told, RecordsStay, Terminal
  <1>4. QED BY <1>2, <1>3

(* A step at work keeps the invariant when it does so for the process that *)
(* takes it.                                                               *)
LEMMA StepKeeps ==
    ASSUME CInv, NEW p \in Proc, lock = p, MovesOnly(p), RecordsStay,
           TypeOK', CallOK', EndOK', LockOK(p)', Knows(p)', Told(p)'
    PROVE  CInv'
  BY OthersRest DEF CInv

LEMMA StatusIsTold == ASSUME TypeOK PROVE RunStatus \in (Status \ {"completed"})
  BY DEF TypeOK, RunStatus, Status, Terminal

LEMMA CompletedRuns ==
    ASSUME CInv, terminal = "completed" PROVE RunStatus = "running"
  BY RecordAssumption DEF CInv, EndOK, RunStatus, Terminal

LEMMA BeginKeeps == ASSUME CInv, NEW p \in Proc, Begin(p) PROVE CInv'
  <1>1. TypeOK'
    BY DEF Begin, Goes, CInv, TypeOK, attempt, Working, Outcome
  <1>2. CallOK' /\ EndOK'
    BY DEF Begin, CInv, CallOK, EndOK, IsCompleted, attempt
  <1>3. pc'[p] \in {"initialize", "busy"} /\ (pc'[p] = "initialize" => lock' = p) /\ req'[p] # None
    BY RequestAssumption DEF Begin, Goes, CInv, TypeOK
  <1>4. LockOK(p)' /\ Knows(p)' /\ Told(p)'
    BY <1>3 DEF LockOK, Knows, Told, Working
  <1>5. ASSUME NEW q \in Proc, q # p PROVE LockOK(q)' /\ Knows(q)' /\ Told(q)'
    <2>1. /\ pc'[q] = pc[q] /\ req'[q] = req[q] /\ verdict' = verdict /\ told' = told
          /\ lock # None => lock' = lock
      BY <1>5 DEF Begin, Goes, CInv, TypeOK
    <2>2. LockOK(q) /\ Knows(q) /\ Told(q)
      BY DEF CInv
    <2>3. LockOK(q)'
      BY <2>1, <2>2, RequestAssumption DEF LockOK
    <2>4. Knows(q)' /\ Told(q)'
      BY <2>1, <2>2 DEF Knows, Told, Open, IsCompleted, Begin, attempt
    <2>5. QED BY <2>3, <2>4
  <1>6. QED BY <1>1, <1>2, <1>4, <1>5 DEF CInv

LEMMA InitializeKeeps ==
    ASSUME CInv, NEW p \in Proc, Initialize(p) \/ TellReserved(p) PROVE CInv'
  <1>1. lock = p /\ req[p] # None
    BY DEF Initialize, TellReserved, CInv, LockOK, Working
  <1>2. MovesOnly(p)
    BY DEF MovesOnly, Initialize, TellReserved, Goes, CInv, TypeOK
  <1>3. RecordsStay
    BY CompletedRuns DEF RecordsStay, Initialize, TellReserved, attempt
  <1>4. TypeOK'
    BY StatusIsTold DEF Initialize, TellReserved, Goes, CInv, TypeOK, attempt, Working
  <1>5. CallOK' /\ EndOK'
    BY DEF Initialize, TellReserved, CInv, CallOK, EndOK, IsCompleted, attempt
  <1>6. /\ pc'[p] = "look" \/ (pc[p] = "reserved" /\ pc'[p] = "start")
        /\ UNCHANGED <<asked, calls, terminal, recovery, lock, req>>
    BY DEF Initialize, TellReserved, Goes, CInv, TypeOK, attempt
  <1>7. LockOK(p)' /\ Knows(p)' /\ Told(p)'
    BY <1>1, <1>6 DEF LockOK, Knows, Told, Open, CInv
  <1>8. QED BY <1>1, <1>2, <1>3, <1>4, <1>5, <1>7, StepKeeps

LEMMA LookKeeps == ASSUME CInv, NEW p \in Proc, Look(p) PROVE CInv'
  <1>1. lock = p /\ req[p] # None
    BY DEF Look, CInv, LockOK, Working
  <1>2. MovesOnly(p)
    BY DEF MovesOnly, Look, Goes, Settles, Leaves, CInv, TypeOK
  <1>3. RecordsStay
    BY DEF RecordsStay, Look, attempt
  <1>4. TypeOK'
    BY DEF Look, Goes, Settles, Leaves, CInv, TypeOK, attempt, Working, Outcome, Terminal
  <1>5. CallOK' /\ EndOK'
    BY DEF Look, CInv, CallOK, EndOK, IsCompleted, attempt
  <1>6. UNCHANGED <<asked, stream, response, terminal, recovery, calls, req>>
    BY DEF Look, attempt
  <1>7. CASE asked = None
    <2>1. pc'[p] = "reserve" /\ lock' = lock
      BY <1>7 DEF Look, Goes, CInv, TypeOK
    <2>2. QED
      BY <1>1, <1>2, <1>3, <1>4, <1>5, <1>6, <1>7, <2>1, StepKeeps
         DEF LockOK, Knows, Told
  <1>8. CASE asked # None /\ pc'[p] \in {"conflict", "interrupted", "failed"}
    <2>1. \/ pc'[p] = "conflict"
          \/ pc'[p] = "interrupted" /\ recovery
          \/ pc'[p] = terminal
      BY <1>8 DEF Look, Goes, Settles, Leaves, CInv, TypeOK
    <2>2. LockOK(p)' /\ Knows(p)' /\ Told(p)'
      BY <1>6, <1>8, <2>1 DEF LockOK, Knows, Told, Working
    <2>3. QED BY <1>1, <1>2, <1>3, <1>4, <1>5, <2>2, StepKeeps
  <1>9. CASE asked # None /\ pc'[p] \notin {"conflict", "interrupted", "failed"}
    <2>1. /\ ~ recovery /\ terminal \in {None, "completed"} /\ lock' = lock
          /\ \/ pc'[p] = "promote" /\ (terminal = "completed" \/ IsCompleted)
             \/ /\ pc'[p] = "end" /\ verdict'[p] \in {"failed", "interrupted"}
                /\ terminal = None /\ ~ IsCompleted
      BY <1>9 DEF Look, Goes, Settles, Leaves, CInv, TypeOK, Terminal
    <2>2. LockOK(p)' /\ Told(p)'
      BY <1>1, <1>6, <2>1 DEF LockOK, Told
    <2>3. Knows(p)'
      BY <1>6, <1>9, <2>1, RecordAssumption DEF Knows, Open, IsCompleted, CInv, EndOK, Terminal
    <2>4. QED BY <1>1, <1>2, <1>3, <1>4, <1>5, <2>2, <2>3, StepKeeps
  <1>10. QED BY <1>7, <1>8, <1>9

LEMMA ReserveKeeps == ASSUME CInv, NEW p \in Proc, Reserve(p) PROVE CInv'
  <1>1. lock = p /\ req[p] # None /\ asked = None
    BY DEF Reserve, CInv, LockOK, Knows, Working
  <1>2. MovesOnly(p)
    BY DEF MovesOnly, Reserve, Goes, CInv, TypeOK
  <1>3. RecordsStay
    BY DEF RecordsStay, Reserve
  <1>4. TypeOK'
    BY <1>1 DEF Reserve, Goes, CInv, TypeOK, Working
  <1>5. pc'[p] = "reserved" /\ asked' = req[p]
        /\ UNCHANGED <<calls, stream, staged, response, child, terminal, recovery, lock, req>>
    BY DEF Reserve, Goes, CInv, TypeOK
  <1>6. calls = 0 /\ terminal = None /\ ~ recovery
    BY <1>1 DEF CInv, CallOK
  <1>7. CallOK' /\ EndOK'
    BY <1>1, <1>5, <1>6, RecordAssumption DEF CInv, CallOK, EndOK, IsCompleted, Terminal
  <1>8. LockOK(p)' /\ Knows(p)' /\ Told(p)'
    BY <1>1, <1>5, <1>6 DEF LockOK, Knows, Told, Open
  <1>9. QED BY <1>1, <1>2, <1>3, <1>4, <1>7, <1>8, StepKeeps

LEMMA StartChildKeeps == ASSUME CInv, NEW p \in Proc, StartChild(p) PROVE CInv'
  <1>1. lock = p /\ req[p] # None /\ asked # None /\ calls = 0 /\ Open
    BY DEF StartChild, CInv, LockOK, Knows, Working
  <1>2. MovesOnly(p)
    BY DEF MovesOnly, StartChild, Settles, Goes, CInv, TypeOK
  <1>3. RecordsStay
    BY DEF RecordsStay, StartChild, attempt
  <1>4. TypeOK'
    <2>1. calls' \in 0..1
      BY <1>1 DEF StartChild, CInv, TypeOK
    <2>2. QED
      BY <2>1 DEF StartChild, Settles, Goes, CInv, TypeOK, attempt, Working, Terminal
  <1>5. /\ UNCHANGED <<asked, stream, staged, response, terminal, recovery, lock, req>>
        /\ \/ pc'[p] = "wait" /\ calls' = 1
           \/ pc'[p] = "end" /\ verdict'[p] = "failed" /\ UNCHANGED <<child, calls>>
    BY <1>1 DEF StartChild, Settles, Goes, CInv, TypeOK, attempt
  <1>6. CallOK' /\ EndOK'
    BY <1>1, <1>5 DEF CInv, CallOK, EndOK, IsCompleted
  <1>7. response = None
    BY <1>1 DEF CInv, CallOK, EndOK, IsCompleted
  <1>8. LockOK(p)' /\ Knows(p)' /\ Told(p)'
    BY <1>1, <1>5, <1>7, RecordAssumption DEF LockOK, Knows, Told, Open, Terminal
  <1>9. QED BY <1>1, <1>2, <1>3, <1>4, <1>6, <1>8, StepKeeps

LEMMA ReturnKeeps ==
    ASSUME CInv, NEW p \in Proc, Return(p) \/ TimeOut(p) PROVE CInv'
  <1>1. lock = p /\ req[p] # None /\ asked # None /\ Open /\ response = None
    BY DEF Return, TimeOut, CInv, LockOK, Knows, Working
  <1>2. MovesOnly(p)
    BY DEF MovesOnly, Return, TimeOut, Settles, Goes, CInv, TypeOK
  <1>3. RecordsStay
    BY DEF RecordsStay, Return, TimeOut, attempt
  <1>4. TypeOK'
    BY DEF Return, TimeOut, Settles, Goes, CInv, TypeOK, attempt, Working, Terminal
  <1>5. /\ UNCHANGED <<asked, stream, staged, response, terminal, recovery, calls, lock, req>>
        /\ child # None /\ child' # None
        /\ \/ pc'[p] = "promote" /\ IsCompleted
           \/ pc'[p] = "end" /\ verdict'[p] \in {"failed", "interrupted"}
           \/ pc'[p] = "recover"
    BY RecordAssumption DEF Return, TimeOut, Settles, Goes, CInv, TypeOK, attempt
  <1>6. CallOK' /\ EndOK'
    BY <1>1, <1>5 DEF CInv, CallOK, EndOK, IsCompleted
  <1>7. LockOK(p)' /\ Knows(p)' /\ Told(p)'
    BY <1>1, <1>5, RecordAssumption DEF LockOK, Knows, Told, Open, IsCompleted, Terminal
  <1>8. QED BY <1>1, <1>2, <1>3, <1>4, <1>6, <1>7, StepKeeps

LEMMA RecordRecoveryKeeps == ASSUME CInv, NEW p \in Proc, RecordRecovery(p) PROVE CInv'
  <1>1. lock = p /\ req[p] # None /\ asked # None /\ Open /\ response = None
    BY DEF RecordRecovery, CInv, LockOK, Knows, Working
  <1>2. MovesOnly(p)
    BY DEF MovesOnly, RecordRecovery, Goes, CInv, TypeOK
  <1>3. RecordsStay
    BY <1>1 DEF RecordsStay, RecordRecovery, Open
  <1>4. TypeOK'
    BY <1>1 DEF RecordRecovery, Goes, CInv, TypeOK, Working, Terminal, Open
  <1>5. /\ UNCHANGED <<asked, stream, staged, response, terminal, child, calls, lock, req>>
        /\ recovery' /\ pc'[p] = "tell" /\ verdict'[p] = "interrupted"
    BY <1>1 DEF RecordRecovery, Goes, CInv, TypeOK, Open
  <1>6. CallOK' /\ EndOK'
    BY <1>1, <1>5 DEF CInv, CallOK, EndOK, IsCompleted, Open
  <1>7. LockOK(p)' /\ Knows(p)' /\ Told(p)'
    BY <1>1, <1>5 DEF LockOK, Knows, Told
  <1>8. QED BY <1>1, <1>2, <1>3, <1>4, <1>6, <1>7, StepKeeps

LEMMA PromoteKeeps == ASSUME CInv, NEW p \in Proc, Promote(p) PROVE CInv'
  <1>1. /\ lock = p /\ req[p] # None /\ asked # None
        /\ IsCompleted /\ ~ recovery /\ terminal \in {None, "completed"}
    BY DEF Promote, CInv, LockOK, Knows, Working
  <1>2. MovesOnly(p)
    BY DEF MovesOnly, Promote, Settles, Goes, CInv, TypeOK
  <1>3. RecordsStay
    BY DEF RecordsStay, Promote
  <1>4. TypeOK'
    BY DEF Promote, Settles, Goes, CInv, TypeOK, Working, Terminal
  <1>5. /\ UNCHANGED <<asked, stream, staged, terminal, recovery, child, calls, lock, req>>
        /\ \/ /\ staged = "good" /\ response' = "good" /\ verdict'[p] = "completed"
              /\ pc'[p] = IF terminal = "completed" THEN "tell" ELSE "end"
           \/ /\ staged # "good" /\ response' = response
              /\ pc'[p] = "end" /\ verdict'[p] = "failed"
    BY DEF Promote, Settles, Goes, CInv, TypeOK
  <1>6. CallOK' /\ EndOK'
    BY <1>1, <1>5, RecordAssumption DEF CInv, CallOK, EndOK, IsCompleted
  <1>7. staged # "good" => response = None /\ terminal = None
    BY <1>1 DEF CInv, EndOK
  <1>8. LockOK(p)' /\ Knows(p)' /\ Told(p)'
    BY <1>1, <1>5, <1>7, RecordAssumption DEF LockOK, Knows, Told, Open, Terminal
  <1>9. QED BY <1>1, <1>2, <1>3, <1>4, <1>6, <1>8, StepKeeps

LEMMA EndKeeps == ASSUME CInv, NEW p \in Proc, End(p) PROVE CInv'
  <1>1. /\ lock = p /\ req[p] # None /\ asked # None /\ Open /\ verdict[p] # None
        /\ IF verdict[p] = "completed" THEN response # None ELSE response = None
    BY DEF End, CInv, LockOK, Knows, Working
  <1>2. MovesOnly(p)
    BY <1>1 DEF MovesOnly, End, Leaves, Goes, CInv, TypeOK, Open
  <1>3. /\ UNCHANGED <<asked, stream, staged, response, recovery, told, child, calls, lock, req>>
        /\ terminal' = verdict[p] /\ pc'[p] = "tell" /\ verdict' = verdict
    BY <1>1 DEF End, Goes, CInv, TypeOK, Open
  <1>4. RecordsStay
    BY <1>1, <1>3, RecordAssumption DEF RecordsStay, Open, Terminal
  <1>5. TypeOK'
    BY <1>1, <1>3 DEF End, Goes, CInv, TypeOK, Working, Terminal, Open
  <1>6. CallOK' /\ EndOK'
    BY <1>1, <1>3 DEF CInv, CallOK, EndOK, IsCompleted, Open
  <1>7. LockOK(p)' /\ Knows(p)' /\ Told(p)'
    BY <1>1, <1>3 DEF LockOK, Knows, Told
  <1>8. QED BY <1>1, <1>2, <1>4, <1>5, <1>6, <1>7, StepKeeps

LEMMA TellKeeps == ASSUME CInv, NEW p \in Proc, Tell(p) PROVE CInv'
  <1>1. /\ lock = p /\ asked # None
        /\ \/ verdict[p] # None /\ verdict[p] = terminal
           \/ verdict[p] = "interrupted" /\ recovery
    BY DEF Tell, CInv, LockOK, Knows, Working
  <1>2. MovesOnly(p)
    BY DEF MovesOnly, Tell, Leaves, Goes, CInv, TypeOK
  <1>3. RecordsStay
    BY CompletedRuns DEF RecordsStay, Tell, attempt
  <1>4. verdict[p] \in Terminal
    BY <1>1, RecordAssumption DEF CInv, TypeOK, Terminal
  <1>5. TypeOK'
    BY <1>4, StatusIsTold
       DEF Tell, Leaves, Goes, CInv, TypeOK, attempt, Working, Outcome, Terminal
  <1>6. /\ UNCHANGED <<asked, stream, staged, response, terminal, recovery, child, calls>>
        /\ told' = RunStatus
        /\ pc'[p] = IF verdict[p] = "completed" THEN "answered" ELSE verdict[p]
    BY DEF Tell, Leaves, Goes, CInv, TypeOK, attempt
  <1>7. CallOK' /\ EndOK'
    BY <1>6 DEF CInv, CallOK, EndOK, IsCompleted
  <1>8. LockOK(p)' /\ Knows(p)'
    BY <1>4, <1>6 DEF LockOK, Knows, Working, Terminal
  <1>9. Told(p)'
    BY <1>1, <1>4, <1>6, CompletedRuns DEF Told, Terminal
  <1>10. QED BY <1>1, <1>2, <1>3, <1>5, <1>7, <1>8, <1>9, StepKeeps

LEMMA CrashKeeps == ASSUME CInv, NEW p \in Proc, Crash(p) PROVE CInv'
  <1>1. lock = p
    BY DEF Crash, CInv, LockOK
  <1>2. MovesOnly(p)
    BY DEF MovesOnly, Crash, Goes, CInv, TypeOK
  <1>3. RecordsStay
    BY DEF RecordsStay, Crash, attempt
  <1>4. TypeOK'
    BY DEF Crash, Goes, CInv, TypeOK, attempt
  <1>5. /\ UNCHANGED <<asked, stream, staged, response, terminal, recovery, calls>>
        /\ (child = None => child' = None) /\ pc'[p] = "idle"
    BY RecordAssumption DEF Crash, Goes, CInv, TypeOK, attempt
  <1>6. CallOK' /\ EndOK'
    BY <1>5 DEF CInv, CallOK, EndOK, IsCompleted
  <1>7. LockOK(p)' /\ Knows(p)' /\ Told(p)'
    BY <1>5 DEF LockOK, Knows, Told, Working
  <1>8. QED BY <1>1, <1>2, <1>3, <1>4, <1>6, <1>7, StepKeeps

(* The program writes beside everybody; what was unambiguous in its stream *)
(* stays so, and a good answer stays as it is.                             *)
LEMMA ChildKeeps == ASSUME CInv, Emit \/ WriteAnswer \/ Exit PROVE CInv'
  <1>1. /\ UNCHANGED <<asked, response, terminal, recovery, told, calls, lock, pc, req, verdict>>
        /\ child = "running"
    BY DEF Emit, WriteAnswer, Exit, attempt
  <1>2. TypeOK'
    BY <1>1 DEF Emit, WriteAnswer, Exit, attempt, CInv, TypeOK
  <1>3. IsCompleted => IsCompleted'
    BY DEF Emit, WriteAnswer, Exit, attempt, IsCompleted, ChildTurn
  <1>4. staged = "good" => staged' = "good"
    BY RecordAssumption DEF Emit, WriteAnswer, Exit, attempt
  <1>5. calls # 0
    BY <1>1, RecordAssumption DEF CInv, CallOK
  <1>6. CallOK' /\ EndOK'
    BY <1>1, <1>3, <1>4, <1>5 DEF CInv, CallOK, EndOK
  <1>7. \A p \in Proc : LockOK(p)' /\ Knows(p)' /\ Told(p)'
    BY <1>1, <1>3 DEF CInv, LockOK, Knows, Told, Open
  <1>8. QED BY <1>2, <1>6, <1>7 DEF CInv

LEMMA RestKeeps == ASSUME CInv, UNCHANGED vars PROVE CInv'
  <1>1. TypeOK' /\ CallOK' /\ EndOK'
    BY DEF vars, attempt, CInv, TypeOK, CallOK, EndOK, IsCompleted
  <1>2. \A p \in Proc : LockOK(p)' /\ Knows(p)' /\ Told(p)'
    BY DEF vars, attempt, CInv, LockOK, Knows, Told, Open, IsCompleted
  <1>3. QED BY <1>1, <1>2 DEF CInv

LEMMA CallKeeps == CInv /\ [Next]_vars => CInv'
  BY BeginKeeps, InitializeKeeps, LookKeeps, ReserveKeeps, StartChildKeeps,
     ReturnKeeps, RecordRecoveryKeeps, PromoteKeeps, EndKeeps, TellKeeps,
     CrashKeeps, ChildKeeps, RestKeeps DEF Next, Advance

-----------------------------------------------------------------------------
(* What the records of a pilot loop say.                                   *)
Evaluated == recordP[Pilot!Evaluate]
Revision == recordP[Pilot!Revise]
Published == recordP[Pilot!Publish]

Sound == {"inside", "fixed", "outlier"}

(* The entry of a candidate: the call of its source, and its fault.        *)
IsJudged(j, c) ==
    /\ j \in [of : {Pilot!Compose(c), Pilot!Repair(c)}, fault : Pilot!Fault]
    /\ j.fault = "none" => answerP[j.of] # None /\ Pilot!Text(j.of) \in Sound

GradeIn(J, c) == Pilot!Grade[Pilot!Text(J[c].of)]

(* There is at most one such candidate.                                    *)
IsBest(J, c) ==
    /\ J[c].fault = "none"
    /\ \A d \in Pilot!Candidate : J[d].fault = "none" =>
          GradeIn(J, c) < GradeIn(J, d) \/ (GradeIn(J, c) = GradeIn(J, d) /\ c <= d)

BestSource(J, f) == \E c \in Pilot!Candidate : IsBest(J, c) /\ f = J[c].of

Improves(f) ==
    f = Pilot!Revise /\ answerP[f] # None /\ Pilot!Text(f) = "better"

(* What a replay publishes as long as storage was not wanting for it.      *)
IsFinal(f) ==
    IF Revision = "completed" /\ Pilot!Text(Pilot!Revise) = "better"
    THEN f = Pilot!Revise
    ELSE BestSource(Evaluated, f)

LEMMA Names ==
    /\ \A c \in Pilot!Candidate :
          /\ Pilot!Compose(c) \in Pilot!Call /\ Pilot!Repair(c) \in Pilot!Call
          /\ Pilot!Compose(c) # Pilot!Revise /\ Pilot!Repair(c) # Pilot!Revise
          /\ \A d \in Pilot!Candidate :
                /\ Pilot!Compose(c) # Pilot!Repair(d)
                /\ Pilot!Compose(c) = Pilot!Compose(d) => c = d
                /\ Pilot!Repair(c) = Pilot!Repair(d) => c = d
    /\ Pilot!Revise \in Pilot!Call
    /\ Pilot!Evaluate \notin Pilot!Call /\ Pilot!Publish \notin Pilot!Call
    /\ Pilot!Evaluate # Pilot!Publish
  BY DEF Pilot!Compose, Pilot!Repair, Pilot!Revise, Pilot!Evaluate, Pilot!Publish, Pilot!Call

LEMMA GradesAreNumbers == \A t \in Sound : Pilot!Grade[t] \in Nat /\ Pilot!Grade[t] <= 2
  BY DEF Sound, Pilot!Grade

LEMMA BestIsUnique ==
    ASSUME NEW J, \A c \in Pilot!Candidate : IsJudged(J[c], c),
           NEW c \in Pilot!Candidate, NEW d \in Pilot!Candidate, IsBest(J, c), IsBest(J, d)
    PROVE  c = d
  <1>1. c \in Nat /\ d \in Nat
    BY CandidatesAssumption DEF Pilot!Candidate
  <1>2. GradeIn(J, c) \in Nat /\ GradeIn(J, d) \in Nat
    BY GradesAreNumbers DEF IsBest, IsJudged, GradeIn
  <1>3. QED BY <1>1, <1>2 DEF IsBest

LEMMA SelectedIsBest ==
    ASSUME \A c \in Pilot!Candidate : IsJudged(judgedP[c], c),
           \E c \in Pilot!Candidate : judgedP[c].fault = "none"
    PROVE  Pilot!Selected \in Pilot!Candidate /\ IsBest(judgedP, Pilot!Selected)
  <1> DEFINE V == {c \in Pilot!Candidate : judgedP[c].fault = "none"}
             key(c) == GradeIn(judgedP, c) * (Candidates + 1) + c
             keys == {key(c) : c \in V}
             before == OpToRel(<, Nat)
  <1>1. \A c \in V : c \in 1..Candidates /\ GradeIn(judgedP, c) \in Nat
    BY GradesAreNumbers DEF IsJudged, GradeIn, Pilot!Candidate
  <1>2. keys \subseteq Nat /\ keys # {}
    BY <1>1, CandidatesAssumption DEF Pilot!Candidate
  <1>3. PICK k \in keys : \A l \in keys : <<l, k>> \notin before
    <2>1. IsWellFoundedOn(before, Nat)
      BY NatLessThanWellFounded, Zenon
    <2> HIDE DEF before, keys
    <2>2. QED BY <2>1, <1>2, WFMin
  <1>a. \A l \in keys : ~ (l < k)
    BY <1>2, <1>3 DEF OpToRel
  <1> HIDE DEF before
  <1>4. PICK c \in V : k = key(c)
    OBVIOUS
  <1>5. \A d \in V : key(c) <= key(d)
    <2> SUFFICES ASSUME NEW d \in V PROVE key(c) <= key(d)
      OBVIOUS
    <2>1. key(d) \in Nat /\ key(c) \in Nat /\ key(d) \in keys
      BY <1>2
    <2>2. ~ (key(d) < key(c))
      BY <2>1, <1>a, <1>4
    <2>3. QED BY <2>1, <2>2
  <1>6. \A d \in V : GradeIn(judgedP, c) < GradeIn(judgedP, d)
                        \/ (GradeIn(judgedP, c) = GradeIn(judgedP, d) /\ c <= d)
    <2> SUFFICES ASSUME NEW d \in V
                 PROVE  GradeIn(judgedP, c) < GradeIn(judgedP, d)
                           \/ (GradeIn(judgedP, c) = GradeIn(judgedP, d) /\ c <= d)
      OBVIOUS
    <2> DEFINE g == GradeIn(judgedP, c)
               h == GradeIn(judgedP, d)
    <2>1. g \in 0..2 /\ h \in 0..2 /\ c \in 1..Candidates /\ d \in 1..Candidates
      BY <1>1, GradesAreNumbers DEF IsJudged, GradeIn
    <2>2. g * (Candidates + 1) + c <= h * (Candidates + 1) + d
      BY <1>5
    <2> HIDE DEF g, h
    <2>3. g < h \/ (g = h /\ c <= d)
      <3>1. CASE g = 0 /\ h = 0 
        BY <3>1, <2>1, <2>2, CandidatesAssumption
      <3>2. CASE g = 1 /\ h = 1
        BY <3>2, <2>1, <2>2, CandidatesAssumption
      <3>3. CASE g = 2 /\ h = 2
        BY <3>3, <2>1, <2>2, CandidatesAssumption
      <3>4. CASE g = 1 /\ h = 0
        BY <3>4, <2>1, <2>2, CandidatesAssumption
      <3>5. CASE g = 2 /\ h = 0
        BY <3>5, <2>1, <2>2, CandidatesAssumption
      <3>6. CASE g = 2 /\ h = 1
        BY <3>6, <2>1, <2>2, CandidatesAssumption
      <3>7. QED BY <3>1, <3>2, <3>3, <3>4, <3>5, <3>6, <2>1
    <2>4. QED BY <2>3 DEF g, h
  <1>7. Pilot!Selected \in Pilot!ValidCandidates
        /\ \A d \in Pilot!ValidCandidates :
              Pilot!GradeOf(Pilot!Selected) < Pilot!GradeOf(d)
              \/ (Pilot!GradeOf(Pilot!Selected) = Pilot!GradeOf(d) /\ Pilot!Selected <= d)
    <2>1. \E s \in Pilot!ValidCandidates : \A d \in Pilot!ValidCandidates :
              Pilot!GradeOf(s) < Pilot!GradeOf(d)
              \/ (Pilot!GradeOf(s) = Pilot!GradeOf(d) /\ s <= d)
      BY <1>6 DEF Pilot!ValidCandidates, Pilot!GradeOf, GradeIn
    <2>2. QED BY <2>1, Zenon DEF Pilot!Selected
  <1>8. QED BY <1>7 DEF Pilot!ValidCandidates, Pilot!GradeOf, GradeIn, IsBest

-----------------------------------------------------------------------------
(* The loop: types, what the records say of each other, and what a replay  *)
(* knows where it stands.                                                  *)
PilotTyped ==
    /\ answerP = [s \in Pilot!Call |-> answerP[s]]
    /\ recordP = [s \in Pilot!Call \cup {Pilot!Evaluate, Pilot!Publish} |-> recordP[s]]
    /\ judgedP = [c \in Pilot!Candidate |-> judgedP[c]]
    /\ \A c \in Pilot!Candidate : \A s \in {Pilot!Compose(c), Pilot!Repair(c)} :
          answerP[s] # None => Pilot!Text(s) \in Pilot!Source \cup {"dead"}
    /\ Pilot!TypeOK

RecordsFit ==
    /\ Evaluated # None =>
          /\ Evaluated = [c \in Pilot!Candidate |-> Evaluated[c]]
          /\ \A c \in Pilot!Candidate : IsJudged(Evaluated[c], c)
    /\ Revision # None =>
          /\ Evaluated # None
          /\ Revision \in {"hopeless", "keep", "completed"}
          /\ Revision = "hopeless" <=> \A c \in Pilot!Candidate : Evaluated[c].fault # "none"
          /\ Revision = "completed" => answerP[Pilot!Revise] # None

(* What was published, and what is in place if it was not overwritten.     *)
PublishedFits ==
    /\ finalP.source # None \/ finalP.midi # None => Revision \in {"keep", "completed"}
    /\ Published # None =>
          /\ Revision # None
          /\ Published \in [source : Pilot!Call \cup {None}, midi : Pilot!Call \cup {None}]
          /\ Published.source = Published.midi
          /\ Published.source # None =>
                Improves(Published.source) \/ BestSource(Evaluated, Published.source)
    /\ Pilot!Revise \notin wantingP =>
          /\ finalP.source # None => IsFinal(finalP.source)
          /\ finalP.midi # None => finalP.midi = finalP.source
          /\ Published # None => Published = finalP
          /\ Published # None /\ Revision # "hopeless" => finalP.midi # None

Looping == pcP \in Pilot!Working

Past == {"hopeless", "keep", "drop", "revise", "source", "midi", "publish"}

ReplayKnows ==
    /\ Looping => \A c \in Pilot!Candidate : c < atP => IsJudged(judgedP[c], c)
    /\ Looping /\ pcP # "compose" => IsJudged(judgedP[atP], atP)
    /\ Looping /\ pcP \notin {"compose", "skip", "repair"} => atP = Candidates
    /\ Looping /\ pcP \notin {"source", "midi", "publish"} => revisedP = None
    /\ pcP \in Past => Evaluated = judgedP
    /\ pcP \in {"hopeless", "drop"} => \A c \in Pilot!Candidate : judgedP[c].fault # "none"
    /\ pcP \in {"keep", "revise", "source", "midi", "publish"} =>
          \E c \in Pilot!Candidate : judgedP[c].fault = "none"
    /\ pcP = "drop" => Revision = "hopeless"
    /\ pcP \in {"source", "midi", "publish"} =>
          /\ Revision \in {"keep", "completed"}
          /\ Revision = "keep" => revisedP = None
          /\ Revision = "completed" /\ Pilot!Revise \notin wantingP =>
                (revisedP = "none" <=> Pilot!Text(Pilot!Revise) # "invalid")
    /\ pcP \in {"midi", "publish"} => finalP.source = Pilot!FinalSource
    /\ pcP = "publish" => finalP.midi = Pilot!FinalSource

PInv == PilotTyped /\ RecordsFit /\ PublishedFits /\ ReplayKnows

-----------------------------------------------------------------------------
(* Calls end for good, so what was judged stays judged.                    *)
AnswersGrow ==
    \A s \in Pilot!Call : answerP[s] # None => answerP'[s] = answerP[s]

LEMMA JudgedStays ==
    ASSUME AnswersGrow, NEW c \in Pilot!Candidate, NEW j, IsJudged(j, c)
    PROVE  IsJudged(j, c)' /\ (j.fault = "none" => Pilot!Text(j.of)' = Pilot!Text(j.of))
  <1>1. j.of \in Pilot!Call
    BY Names DEF IsJudged
  <1>2. QED BY <1>1 DEF AnswersGrow, IsJudged, Pilot!Text

LEMMA BestStays ==
    ASSUME AnswersGrow, NEW J, \A c \in Pilot!Candidate : IsJudged(J[c], c),
           NEW c \in Pilot!Candidate
    PROVE  IsBest(J, c)' <=> IsBest(J, c)
  <1>1. \A d \in Pilot!Candidate : J[d].fault = "none" => GradeIn(J, d)' = GradeIn(J, d)
    BY JudgedStays DEF GradeIn
  <1>2. QED BY <1>1 DEF IsBest

LEMMA BestSourceStays ==
    ASSUME AnswersGrow, NEW J, \A c \in Pilot!Candidate : IsJudged(J[c], c), NEW f
    PROVE  BestSource(J, f)' <=> BestSource(J, f)
  BY BestStays DEF BestSource

(* A step that writes none of the last records.                            *)
LEMMA RecordsRest ==
    ASSUME PInv, AnswersGrow, finalP' = finalP,
           UNCHANGED <<Evaluated, Revision, Published>>,
           Pilot!Revise \in wantingP => Pilot!Revise \in wantingP'
    PROVE  RecordsFit' /\ PublishedFits'
  <1>1. RecordsFit'
    <2>1. Evaluated # None => \A c \in Pilot!Candidate : IsJudged(Evaluated[c], c)'
      BY JudgedStays DEF PInv, RecordsFit
    <2>2. Revision = "completed" => answerP'[Pilot!Revise] # None
      BY Names, StepAssumption DEF PInv, RecordsFit, AnswersGrow
    <2>3. QED BY <2>1, <2>2 DEF PInv, RecordsFit
  <1>2. ASSUME NEW f, Revision # None, Evaluated # None PROVE IsFinal(f)' <=> IsFinal(f)
    <2>1. BestSource(Evaluated, f)' <=> BestSource(Evaluated, f)
      BY <1>2, BestSourceStays DEF PInv, RecordsFit
    <2>2. Revision = "completed" => Pilot!Text(Pilot!Revise)' = Pilot!Text(Pilot!Revise)
      BY <1>2, Names DEF PInv, RecordsFit, AnswersGrow, Pilot!Text
    <2>3. QED BY <2>1, <2>2 DEF IsFinal
  <1>3. ASSUME NEW f, Revision # None, Evaluated # None,
               Improves(f) \/ BestSource(Evaluated, f)
        PROVE  Improves(f)' \/ BestSource(Evaluated, f)'
    <2>1. BestSource(Evaluated, f)' <=> BestSource(Evaluated, f)
      BY <1>3, BestSourceStays DEF PInv, RecordsFit
    <2>2. Improves(f) => Improves(f)'
      BY Names DEF AnswersGrow, Improves, Pilot!Text
    <2>3. QED BY <1>3, <2>1, <2>2
  <1>4. PublishedFits'
    <2>1. Revision # None => Evaluated # None
      BY DEF PInv, RecordsFit
    <2>2. finalP.source # None \/ finalP.midi # None => Revision # None
      BY StepAssumption DEF PInv, PublishedFits
    <2>3. QED BY <1>2, <1>3, <2>1, <2>2 DEF PInv, PublishedFits
  <1>5. QED BY <1>1, <1>4

(* Past its loop over the candidates, a replay has judged them all.        *)
LEMMA AllAreJudged ==
    ASSUME PInv, Looping, pcP \notin {"compose", "skip", "repair"}
    PROVE  \A c \in Pilot!Candidate : IsJudged(judgedP[c], c)
  BY CandidatesAssumption DEF PInv, ReplayKnows, Looping, Pilot!Candidate

LEMMA EntriesAreTyped ==
    ASSUME PInv, \A c \in Pilot!Candidate : IsJudged(judgedP[c], c)
    PROVE  judgedP \in [Pilot!Candidate -> [of : Pilot!Call, fault : Pilot!Fault]]
  <1>1. \A c \in Pilot!Candidate : judgedP[c] \in [of : Pilot!Call, fault : Pilot!Fault]
    BY Names DEF IsJudged
  <1>2. QED BY <1>1 DEF PInv, PilotTyped

LEMMA SelectedIsCalled ==
    ASSUME PInv, pcP \in {"keep", "revise", "source", "midi", "publish"}
    PROVE  /\ Pilot!Selected \in Pilot!Candidate /\ IsBest(judgedP, Pilot!Selected)
           /\ Pilot!SelectedSource \in Pilot!Call
           /\ BestSource(judgedP, Pilot!SelectedSource)
  <1>1. \A c \in Pilot!Candidate : IsJudged(judgedP[c], c)
    BY AllAreJudged DEF Looping, Pilot!Working
  <1>2. Pilot!Selected \in Pilot!Candidate /\ IsBest(judgedP, Pilot!Selected)
    BY <1>1, SelectedIsBest DEF PInv, ReplayKnows
  <1>3. QED BY <1>1, <1>2, Names DEF Pilot!SelectedSource, IsJudged, BestSource

LEMMA AskKeeps == ASSUME PInv, Pilot!Ask PROVE PInv' /\ finalP' = finalP
  <1>1. /\ UNCHANGED <<recordP, finalP, pcP, atP, judgedP, revisedP, wantingP>>
        /\ Pilot!Current \in Pilot!Call /\ answerP[Pilot!Current] = None
        /\ pcP \in {"compose", "repair", "revise"}
    BY Names DEF Pilot!Ask, Pilot!Current, PInv, PilotTyped, Pilot!TypeOK
  <1>2. AnswersGrow
    BY <1>1 DEF Pilot!Ask, AnswersGrow, PInv, PilotTyped
  <1>3. RecordsFit' /\ PublishedFits'
    BY <1>1, <1>2, RecordsRest DEF Evaluated, Revision, Published
  <1>4. ReplayKnows'
    <2>1. \A c \in Pilot!Candidate : IsJudged(judgedP[c], c) => IsJudged(judgedP[c], c)'
      <3> SUFFICES ASSUME NEW c \in Pilot!Candidate, IsJudged(judgedP[c], c)
                   PROVE  IsJudged(judgedP[c], c)'
        OBVIOUS
      <3>1. QED BY <1>1, <1>2, JudgedStays
    <2>2. atP \in Pilot!Candidate
      BY DEF PInv, PilotTyped, Pilot!TypeOK
    <2>3. QED
      BY <1>1, <2>1, <2>2
         DEF PInv, ReplayKnows, Looping, Past, Evaluated, Revision
  <1>5. PilotTyped'
    <2> DEFINE s == Pilot!Current
    <2>1. /\ pcP = "compose" => s[1] = "compose"
          /\ pcP = "repair" => s[1] = "repair" /\ s[2] = atP
          /\ pcP = "revise" => s[1] = "revise" /\ s = Pilot!Revise
      BY <1>1 DEF Pilot!Current, Pilot!Compose, Pilot!Repair, Pilot!Revise
    <2>2. pcP = "repair" => judgedP[atP].fault \in Pilot!Fault
      BY DEF PInv, ReplayKnows, Looping, IsJudged, Pilot!Working
    <2>3. pcP = "revise" => Pilot!SelectedSource \in Pilot!Call
      BY SelectedIsCalled
    <2>4. Pilot!Inputs(s) \in (CASE s[1] = "compose" -> {None}
                                 [] s[1] = "repair" -> Pilot!Fault
                                 [] OTHER -> Pilot!Call)
      BY <1>1, <2>1, <2>2, <2>3 DEF Pilot!Inputs
    <2>5. PICK text \in {"dead"} \cup Pilot!Source \cup Pilot!Revision :
              /\ answerP' = [answerP EXCEPT ![s] = [from |-> Pilot!Inputs(s), text |-> text]]
              /\ s # Pilot!Revise => text \in {"dead"} \cup Pilot!Source
      BY DEF Pilot!Ask
    <2> HIDE DEF s
    <2>6. \A t \in Pilot!Call : t # s => answerP'[t] = answerP[t]
      BY <2>5 DEF PInv, PilotTyped
    <2>7. answerP'[s].from = Pilot!Inputs(s) /\ answerP'[s].text = text
      BY <1>1, <2>5 DEF PInv, PilotTyped, s
    <2>8. answerP' = [t \in Pilot!Call |-> answerP'[t]]
      BY <2>5 DEF PInv, PilotTyped
    <2>9. Pilot!TypeOK'
      BY <1>1, <2>4, <2>6, <2>7 DEF PInv, PilotTyped, Pilot!TypeOK, Pilot!Text
    <2>10. \A c \in Pilot!Candidate : \A t \in {Pilot!Compose(c), Pilot!Repair(c)} :
               answerP'[t] # None => Pilot!Text(t)' \in Pilot!Source \cup {"dead"}
      <3> SUFFICES ASSUME NEW c \in Pilot!Candidate, NEW t \in {Pilot!Compose(c), Pilot!Repair(c)},
                          answerP'[t] # None
                   PROVE  Pilot!Text(t)' \in Pilot!Source \cup {"dead"}
        OBVIOUS
      <3>1. CASE t = s
        <4>1. s # Pilot!Revise
          BY <3>1, Names
        <4>2. text \in {"dead"} \cup Pilot!Source
          BY <4>1, <2>5
        <4>3. QED BY <3>1, <4>2, <2>7 DEF Pilot!Text
      <3>2. CASE t # s
        <4>1. answerP'[t] = answerP[t]
          BY <3>2, <2>6, Names
        <4>2. QED BY <4>1 DEF PInv, PilotTyped, Pilot!Text
      <3>3. QED BY <3>1, <3>2
    <2>11. QED BY <1>1, <2>8, <2>9, <2>10 DEF PInv, PilotTyped
  <1>6. QED BY <1>1, <1>3, <1>4, <1>5 DEF PInv

LEMMA SameAnswers ==
    ASSUME answerP' = answerP
    PROVE  /\ AnswersGrow
           /\ \A j, c : IsJudged(j, c)' <=> IsJudged(j, c)
           /\ \A J, f : BestSource(J, f)' <=> BestSource(J, f)
           /\ \A s : Pilot!Text(s)' = Pilot!Text(s)
           /\ \A f : Improves(f)' <=> Improves(f)
  BY DEF AnswersGrow, IsJudged, BestSource, IsBest, GradeIn, Pilot!Text, Improves

(* An invocation begins, is stopped, or finds that nothing comes of it.    *)
LEMMA TurnKeeps ==
    ASSUME PInv, Pilot!Start \/ Pilot!Crash \/ Pilot!GiveUp PROVE PInv' /\ finalP' = finalP
  <1>1. /\ UNCHANGED <<answerP, recordP, finalP, wantingP>>
        /\ pcP' \in {"compose", "idle", "conflict", "failed"}
        /\ pcP' = "compose" => atP' = 1 /\ revisedP' = None
        /\ atP' \in Pilot!Candidate /\ revisedP' \in {None, revisedP}
        /\ judgedP' = [c \in Pilot!Candidate |-> judgedP'[c]]
    BY CandidatesAssumption
       DEF Pilot!Start, Pilot!Crash, Pilot!GiveUp, Pilot!saved, PInv, PilotTyped, Pilot!TypeOK,
           Pilot!Candidate
  <1>2. RecordsFit' /\ PublishedFits'
    BY <1>1, SameAnswers, RecordsRest DEF Evaluated, Revision, Published
  <1>3. ReplayKnows'
    BY <1>1 DEF ReplayKnows, Looping, Pilot!Working, Past, Pilot!Candidate
  <1>4. PilotTyped'
    BY <1>1, SameAnswers DEF PInv, PilotTyped, Pilot!TypeOK, Pilot!Working, Pilot!Outcome
  <1>5. QED BY <1>1, <1>2, <1>3, <1>4 DEF PInv

LEMMA ConflictKeeps ==
    ASSUME PInv, NEW s, NEW v, Pilot!Conflicts(s, v) PROVE PInv' /\ finalP' = finalP
  <1>1. /\ UNCHANGED <<answerP, recordP, finalP, wantingP, atP, judgedP, revisedP>>
        /\ pcP' = "conflict"
    BY DEF Pilot!Conflicts, Pilot!saved
  <1>2. RecordsFit' /\ PublishedFits'
    BY <1>1, SameAnswers, RecordsRest DEF Evaluated, Revision, Published
  <1>3. ReplayKnows'
    BY <1>1 DEF ReplayKnows, Looping, Pilot!Working, Past
  <1>4. PilotTyped'
    BY <1>1, SameAnswers DEF PInv, PilotTyped, Pilot!TypeOK, Pilot!Outcome
  <1>5. QED BY <1>1, <1>2, <1>3, <1>4 DEF PInv

(* A candidate is judged, and the loop goes on to its repair or to the     *)
(* next one.                                                               *)
LEMMA RecordedApart ==
    ASSUME PInv, NEW s \in Pilot!Call \cup {Pilot!Evaluate, Pilot!Publish}, NEW v,
           Pilot!Records(s, v)
    PROVE  /\ recordP' = [t \in Pilot!Call \cup {Pilot!Evaluate, Pilot!Publish} |-> recordP'[t]]
           /\ recordP'[s] = v /\ recordP[s] \in {None, v}
           /\ \A t \in Pilot!Call \cup {Pilot!Evaluate, Pilot!Publish} :
                 t # s => recordP'[t] = recordP[t]
  BY DEF Pilot!Records, PInv, PilotTyped

LEMMA CandidateKeeps ==
    ASSUME PInv, answerP' = answerP, finalP' = finalP, revisedP' = revisedP,
           NEW s \in Pilot!Call, NEW v, s # Pilot!Revise, Pilot!Records(s, v),
           pcP \in {"compose", "skip", "repair"},
           pcP' \in {"compose", "skip", "repair", "evaluate"},
           judgedP' = [c \in Pilot!Candidate |-> judgedP'[c]],
           atP' \in Pilot!Candidate,
           \A c \in Pilot!Candidate : c < atP' \/ (c = atP' /\ pcP' # "compose") => IsJudged(judgedP'[c], c),
           pcP' = "evaluate" => atP' = Candidates,
           wantingP' = wantingP \/ wantingP' = wantingP \cup {s}
    PROVE  PInv'
  <1>1. UNCHANGED <<Evaluated, Revision, Published>>
    BY RecordedApart, Names DEF Evaluated, Revision, Published
  <1>2. RecordsFit' /\ PublishedFits'
    BY <1>1, SameAnswers, RecordsRest
  <1>3. ReplayKnows'
    BY SameAnswers, CandidatesAssumption
       DEF PInv, ReplayKnows, Looping, Pilot!Working, Past, Pilot!Candidate
  <1>4. PilotTyped'
    <2>1. recordP' = [t \in Pilot!Call \cup {Pilot!Evaluate, Pilot!Publish} |-> recordP'[t]]
      BY RecordedApart
    <2>2. Pilot!TypeOK'
      <3>1. wantingP' \subseteq Pilot!Call
        BY DEF PInv, PilotTyped, Pilot!TypeOK
      <3>2. QED BY <3>1, SameAnswers DEF PInv, PilotTyped, Pilot!TypeOK, Pilot!Working
    <2>3. QED BY <2>1, <2>2, SameAnswers DEF PInv, PilotTyped
  <1>5. QED BY <1>2, <1>3, <1>4 DEF PInv

LEMMA JudgingTells ==
    ASSUME PInv, NEW c \in Pilot!Candidate, NEW fault \in Pilot!Fault,
           NEW s \in {Pilot!Compose(c), Pilot!Repair(c)},
           answerP[s] # None, Pilot!Text(s) # "dead", Pilot!Judges(s, fault)
    PROVE  /\ IsJudged([of |-> s, fault |-> fault], c)
           /\ wantingP' = wantingP \/ wantingP' = wantingP \cup {s}
  <1>1. fault = "none" => Pilot!Text(s) # "invalid"
    BY DEF Pilot!Judges, Pilot!FaultsOf
  <1>2. Pilot!Text(s) \in Sound \cup {"invalid", "dead"}
    BY DEF PInv, PilotTyped, Pilot!Source, Sound
  <1>3. QED BY <1>1, <1>2 DEF IsJudged, Pilot!Judges

LEMMA CandidatesKeep ==
    ASSUME PInv, Pilot!UseComposed \/ Pilot!SkipRepair \/ Pilot!UseRepaired
    PROVE  PInv' /\ finalP' = finalP
  <1> DEFINE c == atP
  <1>1. c \in Pilot!Candidate
    BY DEF PInv, PilotTyped, Pilot!TypeOK
  <1>2. ASSUME Pilot!UseComposed PROVE PInv' /\ finalP' = finalP
    <2> DEFINE s == Pilot!Compose(c)
    <2>1. PICK fault \in Pilot!Fault :
              /\ Pilot!Judges(s, fault)
              /\ judgedP' = [judgedP EXCEPT ![c] = [of |-> s, fault |-> fault]]
              /\ pcP' = IF fault = "none" THEN "skip" ELSE "repair"
      BY <1>2 DEF Pilot!UseComposed
    <2>2. /\ UNCHANGED <<answerP, finalP, atP, revisedP>> /\ pcP = "compose"
          /\ Pilot!Records(s, "completed")
          /\ answerP[s] # None /\ Pilot!Text(s) # "dead"
      BY <1>2 DEF Pilot!UseComposed, Pilot!Answered, Pilot!Current
    <2>3. s \in Pilot!Call /\ s # Pilot!Revise
      BY <1>1, Names
    <2>4. /\ IsJudged([of |-> s, fault |-> fault], c)
          /\ wantingP' = wantingP \/ wantingP' = wantingP \cup {s}
      BY <1>1, <2>1, <2>2, JudgingTells
    <2> HIDE DEF s
    <2>5. judgedP' = [d \in Pilot!Candidate |-> judgedP'[d]]
      BY <2>1 DEF PInv, PilotTyped
    <2>6. \A d \in Pilot!Candidate : d < c \/ d = c => IsJudged(judgedP'[d], d)
      BY <1>1, <2>1, <2>2, <2>4 DEF PInv, PilotTyped, ReplayKnows, Looping, Pilot!Working
    <2>7. QED BY <1>1, <2>1, <2>2, <2>3, <2>4, <2>5, <2>6, CandidateKeeps
  <1>3. ASSUME pcP \in {"skip", "repair"}, Pilot!ThenNext, UNCHANGED <<answerP, finalP, revisedP>>,
               judgedP' = [d \in Pilot!Candidate |-> judgedP'[d]],
               \A d \in Pilot!Candidate : d < c \/ d = c => IsJudged(judgedP'[d], d),
               wantingP' = wantingP \/ wantingP' = wantingP \cup {Pilot!Repair(c)},
               NEW v, Pilot!Records(Pilot!Repair(c), v)
        PROVE  PInv' /\ finalP' = finalP
    <2>1. /\ atP' \in Pilot!Candidate /\ pcP' \in {"compose", "evaluate"}
          /\ pcP' = "evaluate" => atP' = Candidates
          /\ \A d \in Pilot!Candidate : d < atP' \/ (d = atP' /\ pcP' # "compose") => d < c \/ d = c
      BY <1>1, <1>3, CandidatesAssumption DEF Pilot!ThenNext, Pilot!Candidate
    <2>2. Pilot!Repair(c) \in Pilot!Call /\ Pilot!Repair(c) # Pilot!Revise
      BY <1>1, Names
    <2> HIDE DEF c
    <2>3. QED BY <1>3, <2>1, <2>2, CandidateKeeps
  <1>4. ASSUME Pilot!SkipRepair PROVE PInv' /\ finalP' = finalP
    <2>1. CASE Pilot!Conflicts(Pilot!Repair(atP), "skipped")
      BY <2>1, ConflictKeeps
    <2>2. CASE ~ Pilot!Conflicts(Pilot!Repair(atP), "skipped")
      <3>1. /\ pcP = "skip" /\ Pilot!Records(Pilot!Repair(c), "skipped") /\ Pilot!ThenNext
            /\ UNCHANGED <<answerP, finalP, judgedP, revisedP, wantingP>>
        BY <1>4, <2>2 DEF Pilot!SkipRepair
      <3>2. \A d \in Pilot!Candidate : d < c \/ d = c => IsJudged(judgedP'[d], d)
        BY <3>1 DEF PInv, ReplayKnows, Looping, Pilot!Working
      <3>3. judgedP' = [d \in Pilot!Candidate |-> judgedP'[d]]
        BY <3>1 DEF PInv, PilotTyped
      <3>4. QED BY <1>3, <3>1, <3>2, <3>3
    <2>3. QED BY <2>1, <2>2
  <1>5. ASSUME Pilot!UseRepaired PROVE PInv' /\ finalP' = finalP
    <2> DEFINE s == Pilot!Repair(c)
    <2>1. CASE Pilot!Conflicts(s, judgedP[atP].fault)
      BY <2>1, ConflictKeeps
    <2>2. CASE ~ Pilot!Conflicts(s, judgedP[atP].fault)
      <3>1. /\ UNCHANGED <<answerP, finalP, revisedP>> /\ pcP = "repair"
            /\ Pilot!Records(s, judgedP[atP].fault) /\ Pilot!ThenNext
            /\ answerP[s] # None /\ Pilot!Text(s) # "dead"
        BY <1>5, <2>2 DEF Pilot!UseRepaired, Pilot!Answered, Pilot!Current
      <3>2. PICK fault \in Pilot!Fault :
                /\ Pilot!Judges(s, fault)
                /\ judgedP' = [judgedP EXCEPT ![c] = [of |-> s, fault |-> fault]]
        BY <1>5, <2>2 DEF Pilot!UseRepaired
      <3>3. /\ IsJudged([of |-> s, fault |-> fault], c)
            /\ wantingP' = wantingP \/ wantingP' = wantingP \cup {s}
        BY <1>1, <3>1, <3>2, JudgingTells
      <3>4. judgedP' = [d \in Pilot!Candidate |-> judgedP'[d]]
        BY <3>2 DEF PInv, PilotTyped
      <3>5. \A d \in Pilot!Candidate : d < c \/ d = c => IsJudged(judgedP'[d], d)
        BY <1>1, <3>1, <3>2, <3>3 DEF PInv, PilotTyped, ReplayKnows, Looping, Pilot!Working
      <3>6. QED BY <1>3, <3>1, <3>3, <3>4, <3>5
    <2>3. QED BY <2>1, <2>2
  <1>6. QED BY <1>2, <1>4, <1>5

-----------------------------------------------------------------------------
(* The candidates are compared: from here on the record says what a replay *)
(* of them says.                                                           *)
LEMMA EvaluateKeeps == ASSUME PInv, Pilot!EvaluateCandidates PROVE PInv' /\ finalP' = finalP
  <1>1. CASE Pilot!Conflicts(Pilot!Evaluate, judgedP)
    BY <1>1, ConflictKeeps
  <1>2. CASE ~ Pilot!Conflicts(Pilot!Evaluate, judgedP)
    <2>1. /\ pcP = "evaluate" /\ Pilot!Records(Pilot!Evaluate, judgedP)
          /\ UNCHANGED <<answerP, finalP, atP, judgedP, revisedP, wantingP>>
          /\ pcP' = IF Pilot!ValidCandidates = {} THEN "hopeless"
                    ELSE IF Pilot!Text(Pilot!SelectedSource) = "outlier" THEN "revise" ELSE "keep"
      BY <1>2 DEF Pilot!EvaluateCandidates
    <2>2. \A c \in Pilot!Candidate : IsJudged(judgedP[c], c)
      BY <2>1, AllAreJudged DEF Looping, Pilot!Working
    <2>3. /\ recordP' = [t \in Pilot!Call \cup {Pilot!Evaluate, Pilot!Publish} |-> recordP'[t]]
          /\ Evaluated' = judgedP /\ Evaluated \in {None, judgedP}
          /\ Revision' = Revision /\ Published' = Published
      BY <2>1, RecordedApart, Names DEF Evaluated, Revision, Published
    <2>4. Revision # None => Evaluated' = Evaluated
      BY <2>3 DEF PInv, RecordsFit
    <2>5. RecordsFit'
      BY <2>1, <2>2, <2>3, <2>4, SameAnswers DEF PInv, RecordsFit, PilotTyped
    <2>6. PublishedFits'
      <3>1. finalP.source # None \/ finalP.midi # None => Revision # None
        BY StepAssumption DEF PInv, PublishedFits
      <3>2. Revision # None => \A f : IsFinal(f)' <=> IsFinal(f)
        BY <2>1, <2>3, <2>4, SameAnswers DEF IsFinal
      <3>3. Revision # None => \A f : BestSource(Evaluated, f)' <=> BestSource(Evaluated, f)
        BY <2>1, <2>3, <2>4, SameAnswers
      <3>4. QED BY <2>1, <2>3, <3>1, <3>2, <3>3, SameAnswers DEF PInv, PublishedFits
    <2>7. ReplayKnows'
      <3>1. /\ pcP' = "hopeless" => \A c \in Pilot!Candidate : judgedP[c].fault # "none"
            /\ pcP' \in {"revise", "keep"} => \E c \in Pilot!Candidate : judgedP[c].fault = "none"
            /\ pcP' \in {"hopeless", "revise", "keep"}
        BY <2>1 DEF Pilot!ValidCandidates
      <3>2. atP = Candidates /\ revisedP = None /\ IsJudged(judgedP[atP], atP)
        BY <2>1 DEF PInv, ReplayKnows, Looping, Pilot!Working
      <3> HIDE DEF Evaluated, Revision
      <3>3. QED BY <2>1, <2>2, <2>3, <3>1, <3>2, SameAnswers DEF ReplayKnows, Looping, Past
    <2>8. PilotTyped'
      BY <2>1, <2>3, SameAnswers DEF PInv, PilotTyped, Pilot!TypeOK, Pilot!Working
    <2>9. QED BY <2>1, <2>5, <2>6, <2>7, <2>8 DEF PInv
  <1>3. QED BY <1>1, <1>2

(* The end of a replay: what was recorded before, and the record of the    *)
(* evaluation, are what the replay has judged by.                          *)
LEMMA LaterStep ==
    ASSUME PInv, UNCHANGED <<answerP, atP, judgedP>>,
           pcP \in {"hopeless", "keep", "drop", "revise", "source", "midi", "publish"},
           pcP' \in {"drop", "source", "midi", "publish", "no_valid", "completed"},
           NEW s \in {Pilot!Revise, Pilot!Publish}, NEW v, Pilot!Records(s, v) \/ recordP' = recordP,
           finalP' \in [source : Pilot!Call \cup {None}, midi : Pilot!Call \cup {None}],
           revisedP' \in Pilot!Fault \cup {None},
           wantingP' = wantingP \/ wantingP' = wantingP \cup {Pilot!Revise}
    PROVE  /\ PilotTyped'
           /\ Evaluated' = Evaluated /\ Evaluated = judgedP /\ Evaluated # None
           /\ \A c \in Pilot!Candidate : IsJudged(judgedP[c], c) /\ IsJudged(judgedP[c], c)'
           /\ atP = Candidates /\ IsJudged(judgedP[atP], atP)'
  <1>1. /\ recordP' = [t \in Pilot!Call \cup {Pilot!Evaluate, Pilot!Publish} |-> recordP'[t]]
        /\ Evaluated' = Evaluated
    <2>1. CASE recordP' = recordP
      BY <2>1 DEF Evaluated, PInv, PilotTyped
    <2>2. CASE Pilot!Records(s, v)
      <3>1. s \in Pilot!Call \cup {Pilot!Evaluate, Pilot!Publish} /\ s # Pilot!Evaluate
        BY Names
      <3>2. QED BY <2>2, <3>1, RecordedApart DEF Evaluated
    <2>3. QED BY <2>1, <2>2
  <1>2. \A c \in Pilot!Candidate : IsJudged(judgedP[c], c)
    BY AllAreJudged DEF Looping, Pilot!Working
  <1>3. judgedP \in [Pilot!Candidate -> [of : Pilot!Call, fault : Pilot!Fault]]
    BY <1>2, EntriesAreTyped
  <1>4. Evaluated = judgedP /\ Evaluated # None
    BY <1>3, StepAssumption DEF PInv, ReplayKnows, Past
  <1>5. PilotTyped'
    <2>1. wantingP' \subseteq Pilot!Call
      BY Names DEF PInv, PilotTyped, Pilot!TypeOK
    <2>2. Pilot!TypeOK'
      BY <2>1, SameAnswers DEF PInv, PilotTyped, Pilot!TypeOK, Pilot!Working, Pilot!Outcome
    <2>3. QED BY <1>1, <2>2, SameAnswers DEF PInv, PilotTyped
  <1>6. atP = Candidates /\ atP \in Pilot!Candidate
    BY CandidatesAssumption DEF PInv, ReplayKnows, Looping, Pilot!Working, Pilot!Candidate
  <1>7. QED BY <1>1, <1>2, <1>4, <1>5, <1>6, SameAnswers

LEMMA SkipRevisionKeeps == ASSUME PInv, Pilot!SkipRevision PROVE PInv' /\ finalP' = finalP
  <1>1. /\ pcP \in {"hopeless", "keep"} /\ Pilot!Records(Pilot!Revise, pcP)
        /\ pcP' = IF pcP = "keep" THEN "source" ELSE "drop"
        /\ UNCHANGED <<answerP, finalP, atP, judgedP, revisedP, wantingP>>
    BY DEF Pilot!SkipRevision
  <1>2. finalP' \in [source : Pilot!Call \cup {None}, midi : Pilot!Call \cup {None}]
        /\ revisedP' \in Pilot!Fault \cup {None} /\ revisedP = None
    BY <1>1 DEF PInv, PilotTyped, Pilot!TypeOK, ReplayKnows, Looping, Pilot!Working
  <1>3. /\ PilotTyped'
        /\ Evaluated' = Evaluated /\ Evaluated = judgedP /\ Evaluated # None
        /\ \A c \in Pilot!Candidate : IsJudged(judgedP[c], c) /\ IsJudged(judgedP[c], c)'
        /\ atP = Candidates /\ IsJudged(judgedP[atP], atP)'
    BY <1>1, <1>2, LaterStep
  <1>4. Revision \in {None, pcP} /\ Revision' = pcP /\ Published' = Published
    BY <1>1, RecordedApart, Names DEF Revision, Published
  <1>5. RecordsFit'
    BY <1>1, <1>3, <1>4, SameAnswers DEF PInv, RecordsFit, ReplayKnows
  <1>6. PublishedFits'
    <2>1. Revision # None => Revision' = Revision
      BY <1>4
    <2>2. finalP.source # None \/ finalP.midi # None => Revision # None
      BY StepAssumption DEF PInv, PublishedFits
    <2>3. Revision # None => \A f : IsFinal(f)' <=> IsFinal(f)
      BY <1>1, <1>3, <2>1, SameAnswers DEF IsFinal
    <2>4. \A f : BestSource(Evaluated, f)' <=> BestSource(Evaluated, f)
      BY <1>1, <1>3, SameAnswers
    <2>5. QED BY <1>1, <1>3, <1>4, <2>1, <2>2, <2>3, <2>4, SameAnswers DEF PInv, PublishedFits
  <1>7. ReplayKnows'
    <2>1. /\ pcP = "hopeless" => \A c \in Pilot!Candidate : judgedP[c].fault # "none"
          /\ pcP = "keep" => \E c \in Pilot!Candidate : judgedP[c].fault = "none"
      BY DEF PInv, ReplayKnows
    <2>2. CASE pcP = "hopeless"
      BY <2>1, <2>2, <1>1, <1>2, <1>3, <1>4 DEF ReplayKnows, Looping
    <2>3. CASE pcP = "keep"
      BY <2>1, <2>3, <1>1, <1>2, <1>3, <1>4 DEF ReplayKnows, Looping
    <2>4. QED BY <1>1, <2>2, <2>3
  <1>8. QED BY <1>1, <1>3, <1>5, <1>6, <1>7 DEF PInv

LEMMA FailPublicationKeeps ==
    ASSUME PInv, Pilot!FailPublication PROVE PInv' /\ finalP' = finalP
  <1>1. /\ pcP = "drop" /\ Pilot!Records(Pilot!Publish, finalP) /\ pcP' = "no_valid"
        /\ UNCHANGED <<answerP, finalP, atP, judgedP, revisedP, wantingP>>
    BY DEF Pilot!FailPublication
  <1>2. finalP' \in [source : Pilot!Call \cup {None}, midi : Pilot!Call \cup {None}]
        /\ revisedP' \in Pilot!Fault \cup {None}
    BY <1>1 DEF PInv, PilotTyped, Pilot!TypeOK
  <1>3. PilotTyped' /\ Evaluated' = Evaluated
    BY <1>1, <1>2, LaterStep
  <1>4. Published' = finalP /\ Revision' = Revision
    BY <1>1, RecordedApart, Names DEF Revision, Published
  <1>5. RecordsFit'
    BY <1>1, <1>3, <1>4, SameAnswers DEF PInv, RecordsFit
  <1>6. PublishedFits'
    <2>1. Revision = "hopeless" /\ finalP.source = None /\ finalP.midi = None
      BY <1>1 DEF PInv, ReplayKnows, PublishedFits
    <2>2. QED BY <1>1, <1>2, <1>3, <1>4, <2>1, StepAssumption DEF PublishedFits
  <1>7. ReplayKnows'
    BY <1>1 DEF ReplayKnows, Looping, Past, Pilot!Working
  <1>8. QED BY <1>1, <1>3, <1>5, <1>6, <1>7 DEF PInv

(* The source the replay publishes is final, unless storage was wanting.   *)
LEMMA FinalSourceFits ==
    ASSUME PInv, pcP \in {"source", "midi", "publish"}
    PROVE  /\ Pilot!FinalSource \in Pilot!Call
           /\ Improves(Pilot!FinalSource) \/ BestSource(Evaluated, Pilot!FinalSource)
           /\ Pilot!Revise \notin wantingP => IsFinal(Pilot!FinalSource)
  <1>1. /\ Pilot!SelectedSource \in Pilot!Call /\ Evaluated = judgedP
        /\ BestSource(judgedP, Pilot!SelectedSource)
    BY SelectedIsCalled DEF PInv, ReplayKnows, Past
  <1>2. /\ Revision \in {"keep", "completed"}
        /\ Revision = "keep" => revisedP = None
        /\ Revision = "completed" => answerP[Pilot!Revise] # None
        /\ Revision = "completed" /\ Pilot!Revise \notin wantingP =>
              (revisedP = "none" <=> Pilot!Text(Pilot!Revise) # "invalid")
    BY StepAssumption DEF PInv, ReplayKnows, RecordsFit
  <1>3. None # "none"
    BY StepAssumption DEF Pilot!Fault
  <1>4. QED BY <1>1, <1>2, <1>3, Names DEF Pilot!FinalSource, Improves, IsFinal

LEMMA FinalIsUnique ==
    ASSUME PInv, Evaluated # None, NEW f, NEW g, IsFinal(f), IsFinal(g) PROVE f = g
  BY BestIsUnique DEF IsFinal, BestSource, PInv, RecordsFit

LEMMA UseRevisionKeeps == ASSUME PInv, Pilot!UseRevision PROVE PInv' /\ finalP' = finalP
  <1>1. /\ pcP = "revise" /\ Pilot!Records(Pilot!Revise, "completed") /\ pcP' = "source"
        /\ UNCHANGED <<answerP, finalP, atP, judgedP>>
        /\ revisedP' \in Pilot!Fault /\ Pilot!Judges(Pilot!Revise, revisedP')
        /\ answerP[Pilot!Revise] # None
    BY DEF Pilot!UseRevision, Pilot!Answered, Pilot!Current
  <1>2. finalP' \in [source : Pilot!Call \cup {None}, midi : Pilot!Call \cup {None}]
        /\ (wantingP' = wantingP \/ wantingP' = wantingP \cup {Pilot!Revise})
    BY <1>1 DEF PInv, PilotTyped, Pilot!TypeOK, Pilot!Judges
  <1>3. /\ PilotTyped'
        /\ Evaluated' = Evaluated /\ Evaluated = judgedP /\ Evaluated # None
        /\ \A c \in Pilot!Candidate : IsJudged(judgedP[c], c) /\ IsJudged(judgedP[c], c)'
        /\ atP = Candidates /\ IsJudged(judgedP[atP], atP)'
    BY <1>1, <1>2, LaterStep
  <1>4. Revision \in {None, "completed"} /\ Revision' = "completed" /\ Published' = Published
    BY <1>1, RecordedApart, Names DEF Revision, Published
  <1>5. \E c \in Pilot!Candidate : judgedP[c].fault = "none"
    BY <1>1 DEF PInv, ReplayKnows
  <1>6. RecordsFit'
    BY <1>1, <1>3, <1>4, <1>5, SameAnswers DEF PInv, RecordsFit, ReplayKnows
  <1>7. PublishedFits'
    <2>1. Revision # None => Revision' = Revision
      BY <1>4
    <2>2. finalP.source # None \/ finalP.midi # None => Revision # None
      BY StepAssumption DEF PInv, PublishedFits
    <2>3. Revision # None => \A f : IsFinal(f)' <=> IsFinal(f)
      BY <1>1, <1>3, <2>1, SameAnswers DEF IsFinal
    <2>4. \A f : BestSource(Evaluated, f)' <=> BestSource(Evaluated, f)
      BY <1>1, <1>3, SameAnswers
    <2>5. Pilot!Revise \notin wantingP' => Pilot!Revise \notin wantingP
      BY <1>2
    <2>6. QED
      BY <1>1, <1>3, <1>4, <2>1, <2>2, <2>3, <2>4, <2>5, SameAnswers DEF PInv, PublishedFits
  <1>8. ReplayKnows'
    <2>1. Pilot!Revise \notin wantingP' =>
              (revisedP' = "none" <=> Pilot!Text(Pilot!Revise) # "invalid")
      BY <1>1 DEF Pilot!Judges, Pilot!FaultsOf
    <2>2. QED
      BY <1>1, <1>3, <1>4, <1>5, <2>1, SameAnswers DEF ReplayKnows, Looping
  <1>9. QED BY <1>1, <1>3, <1>6, <1>7, <1>8 DEF PInv

BestIn(J, A) ==
    CHOOSE c \in {c \in Pilot!Candidate : J[c].fault = "none"} :
        \A d \in {d \in Pilot!Candidate : J[d].fault = "none"} :
            \/ Pilot!Grade[A[J[c].of].text] < Pilot!Grade[A[J[d].of].text]
            \/ Pilot!Grade[A[J[c].of].text] = Pilot!Grade[A[J[d].of].text] /\ c <= d

LEMMA SelectedByRecords ==
    Pilot!Selected = BestIn(judgedP, answerP) /\ Pilot!Selected' = BestIn(judgedP', answerP')
  BY DEF Pilot!Selected, BestIn, Pilot!ValidCandidates, Pilot!GradeOf, Pilot!Text

LEMMA WriteKeeps ==
    ASSUME PInv, Pilot!WriteSource \/ Pilot!WriteRendering
    PROVE  PInv' /\ (Published # None /\ Pilot!Revise \notin wantingP => finalP' = finalP)
  <1> DEFINE F == Pilot!FinalSource
  <1>1. /\ UNCHANGED <<answerP, recordP, atP, judgedP, revisedP, wantingP>>
        /\ \/ pcP = "source" /\ pcP' = "midi" /\ finalP' = [finalP EXCEPT !.source = F]
           \/ pcP = "midi" /\ pcP' = "publish" /\ finalP' = [finalP EXCEPT !.midi = F]
    BY DEF Pilot!WriteSource, Pilot!WriteRendering
  <1>2. /\ F \in Pilot!Call /\ F # None
        /\ Improves(F) \/ BestSource(Evaluated, F)
        /\ Pilot!Revise \notin wantingP => IsFinal(F)
        /\ Revision \in {"keep", "completed"}
    BY <1>1, FinalSourceFits, StepAssumption DEF PInv, ReplayKnows
  <1>3. finalP \in [source : Pilot!Call \cup {None}, midi : Pilot!Call \cup {None}]
        /\ revisedP' \in Pilot!Fault \cup {None}
    BY <1>1 DEF PInv, PilotTyped, Pilot!TypeOK
  <1>4. finalP' \in [source : Pilot!Call \cup {None}, midi : Pilot!Call \cup {None}]
    BY <1>1, <1>2, <1>3
  <1>5. /\ PilotTyped'
        /\ Evaluated' = Evaluated /\ Evaluated = judgedP /\ Evaluated # None
        /\ \A c \in Pilot!Candidate : IsJudged(judgedP[c], c) /\ IsJudged(judgedP[c], c)'
        /\ atP = Candidates /\ IsJudged(judgedP[atP], atP)'
    BY <1>1, <1>3, <1>4, LaterStep
  <1>6. Revision' = Revision /\ Published' = Published
    BY <1>1 DEF Revision, Published
  <1>7. Pilot!FinalSource' = Pilot!FinalSource
    BY <1>1, SelectedByRecords
       DEF Pilot!FinalSource, Pilot!SelectedSource, Pilot!Text
  <1> HIDE DEF F
  <1>8. RecordsFit'
    BY <1>1, <1>5, <1>6, SameAnswers DEF PInv, RecordsFit
  <1>9. /\ \A f : IsFinal(f)' <=> IsFinal(f)
        /\ \A f : BestSource(Evaluated, f)' <=> BestSource(Evaluated, f)
    BY <1>1, <1>5, <1>6, SameAnswers DEF IsFinal
  <1>10. Pilot!Revise \notin wantingP =>
            /\ finalP.source # None => finalP.source = F
            /\ finalP.midi # None => finalP.midi = F
            /\ pcP = "midi" => finalP.source = F
    <2>1. pcP = "midi" => finalP.source = F
      BY DEF PInv, ReplayKnows, F
    <2>2. QED BY <1>2, <1>5, <2>1, FinalIsUnique DEF PInv, PublishedFits
  <1>11. /\ pcP = "source" => finalP'.source = F /\ finalP'.midi = finalP.midi
         /\ pcP = "midi" => finalP'.midi = F /\ finalP'.source = finalP.source
    BY <1>1, <1>3
  <1>12. PublishedFits'
    <2>1. Pilot!Revise \notin wantingP =>
              /\ finalP'.source = F /\ IsFinal(F)
              /\ finalP'.midi # None => finalP'.midi = F
      BY <1>1, <1>2, <1>9, <1>10, <1>11
    <2>2. Pilot!Revise \notin wantingP /\ Published # None => finalP'.midi # None
      BY <1>1, <1>2, <1>11 DEF PInv, PublishedFits
    <2>3. Pilot!Revise \notin wantingP => IsFinal(finalP.source)'
      BY <1>9, <2>1
    <2>4. QED
      BY <1>1, <1>2, <1>5, <1>6, <1>9, <2>1, <2>2, <2>3, SameAnswers DEF PInv, PublishedFits
  <1>13. ReplayKnows'
    <2>1. /\ \E c \in Pilot!Candidate : judgedP[c].fault = "none"
          /\ Revision = "keep" => revisedP = None
          /\ Revision = "completed" /\ Pilot!Revise \notin wantingP =>
                (revisedP = "none" <=> Pilot!Text(Pilot!Revise) # "invalid")
          /\ pcP = "midi" => finalP.source = F
      BY <1>1 DEF PInv, ReplayKnows, F
    <2>2. Pilot!FinalSource' = F
      BY <1>7 DEF F
    <2>3. pcP' \in {"midi", "publish"} => finalP'.source = F
      BY <1>1, <1>11, <2>1
    <2>4. pcP' = "publish" => finalP'.midi = F
      BY <1>1, <1>11
    <2>5. QED
      BY <1>1, <1>2, <1>5, <1>6, <2>1, <2>2, <2>3, <2>4, SameAnswers DEF ReplayKnows, Looping
  <1>14. Published # None /\ Pilot!Revise \notin wantingP => finalP' = finalP
    <2> SUFFICES ASSUME Published # None, Pilot!Revise \notin wantingP PROVE finalP' = finalP
      OBVIOUS
    <2>1. finalP.midi # None /\ finalP.midi = F /\ finalP.source = F
      BY <1>2, <1>10, StepAssumption DEF PInv, PublishedFits
    <2>2. QED BY <1>1, <1>3, <2>1
  <1>15. QED BY <1>1, <1>5, <1>8, <1>12, <1>13, <1>14 DEF PInv

LEMMA RecordPublicationKeeps ==
    ASSUME PInv, Pilot!RecordPublication PROVE PInv' /\ finalP' = finalP
  <1>1. CASE Pilot!Conflicts(Pilot!Publish, finalP)
    BY <1>1, ConflictKeeps
  <1>2. CASE ~ Pilot!Conflicts(Pilot!Publish, finalP)
    <2>1. /\ pcP = "publish" /\ Pilot!Records(Pilot!Publish, finalP) /\ pcP' = "completed"
          /\ UNCHANGED <<answerP, finalP, atP, judgedP, revisedP, wantingP>>
      BY <1>2 DEF Pilot!RecordPublication
    <2>2. finalP' \in [source : Pilot!Call \cup {None}, midi : Pilot!Call \cup {None}]
          /\ revisedP' \in Pilot!Fault \cup {None}
      BY <2>1 DEF PInv, PilotTyped, Pilot!TypeOK
    <2>3. PilotTyped' /\ Evaluated' = Evaluated /\ Evaluated = judgedP
      BY <2>1, <2>2, LaterStep
    <2>4. Published' = finalP /\ Revision' = Revision
      BY <2>1, RecordedApart, Names DEF Revision, Published
    <2>5. RecordsFit'
      BY <2>1, <2>3, <2>4, SameAnswers DEF PInv, RecordsFit
    <2>6. /\ finalP.source = Pilot!FinalSource /\ finalP.midi = Pilot!FinalSource
          /\ Revision \in {"keep", "completed"}
      BY <2>1 DEF PInv, ReplayKnows
    <2>7. /\ Pilot!FinalSource \in Pilot!Call
          /\ Improves(Pilot!FinalSource) \/ BestSource(Evaluated, Pilot!FinalSource)
          /\ Pilot!Revise \notin wantingP => IsFinal(Pilot!FinalSource)
      BY <2>1, FinalSourceFits
    <2>8. \A f : (IsFinal(f)' <=> IsFinal(f))
                  /\ (BestSource(Evaluated, f)' <=> BestSource(Evaluated, f))
      BY <2>1, <2>3, <2>4, SameAnswers DEF IsFinal
    <2>9. PublishedFits'
      BY <2>1, <2>2, <2>3, <2>4, <2>6, <2>7, <2>8, SameAnswers, StepAssumption DEF PublishedFits
    <2>10. ReplayKnows'
      BY <2>1 DEF ReplayKnows, Looping, Past, Pilot!Working
    <2>11. QED BY <2>1, <2>3, <2>5, <2>9, <2>10 DEF PInv
  <1>3. QED BY <1>1, <1>2

LEMMA PilotStays == ASSUME PInv, UNCHANGED pilot PROVE PInv'
  <1>1. UNCHANGED <<answerP, recordP, finalP, pcP, atP, judgedP, revisedP, wantingP>>
    BY DEF pilot
  <1>2. RecordsFit' /\ PublishedFits'
    BY <1>1, SameAnswers, RecordsRest DEF Evaluated, Revision, Published
  <1>3. PilotTyped'
    BY <1>1, SameAnswers DEF PInv, PilotTyped, Pilot!TypeOK
  <1>4. Pilot!FinalSource' = Pilot!FinalSource
    BY <1>1, SelectedByRecords DEF Pilot!FinalSource, Pilot!SelectedSource, Pilot!Text
  <1>5. ReplayKnows'
    BY <1>1, <1>4, SameAnswers DEF PInv, ReplayKnows, Looping, Evaluated, Revision
  <1>6. QED BY <1>2, <1>3, <1>5 DEF PInv

LEMMA PilotKeeps ==
    ASSUME PInv, Pilot!Next
    PROVE  PInv' /\ (Published # None /\ Pilot!Revise \notin wantingP' => finalP' = finalP)
  <1>1. CASE Pilot!WriteSource \/ Pilot!WriteRendering
    <2>1. wantingP' = wantingP
      BY <1>1 DEF Pilot!WriteSource, Pilot!WriteRendering
    <2>2. QED BY <1>1, <2>1, WriteKeeps
  <1>2. CASE ~ (Pilot!WriteSource \/ Pilot!WriteRendering)
    BY <1>2, TurnKeeps, AskKeeps, CandidatesKeep, EvaluateKeeps, SkipRevisionKeeps,
       FailPublicationKeeps, UseRevisionKeeps, RecordPublicationKeeps
       DEF Pilot!Next, Pilot!Advance
  <1>3. QED BY <1>1, <1>2

LEMMA PilotInitKeeps == ASSUME Pilot!Init PROVE PInv
  <1>1. PilotTyped
    <2>1. atP \in Pilot!Candidate
      BY CandidatesAssumption DEF Pilot!Init, Pilot!Candidate
    <2>2. finalP \in [source : Pilot!Call \cup {None}, midi : Pilot!Call \cup {None}]
      BY DEF Pilot!Init
    <2>3. \A s \in Pilot!Call : answerP[s] = None
      BY DEF Pilot!Init
    <2>4. Pilot!TypeOK
      BY <2>1, <2>2, <2>3 DEF Pilot!Init, Pilot!TypeOK
    <2>5. /\ answerP = [s \in Pilot!Call |-> answerP[s]]
          /\ recordP = [s \in Pilot!Call \cup {Pilot!Evaluate, Pilot!Publish} |-> recordP[s]]
          /\ judgedP = [c \in Pilot!Candidate |-> judgedP[c]]
      BY DEF Pilot!Init
    <2>6. QED BY <2>3, <2>4, <2>5, Names DEF PilotTyped
  <1>2. RecordsFit /\ PublishedFits
    BY Names DEF Pilot!Init, RecordsFit, PublishedFits, Evaluated, Revision, Published
  <1>3. ReplayKnows
    BY DEF Pilot!Init, ReplayKnows, Looping, Past, Pilot!Working
  <1>4. QED BY <1>1, <1>2, <1>3 DEF PInv

LEMMA PublishedIsBest == PInv => Pilot!FinalIsBest
  <1> SUFFICES ASSUME PInv, Published # None, Published.source # None
               PROVE  /\ Published.source = Published.midi
                      /\ \/ Published.source = Pilot!Revise /\ Pilot!Text(Pilot!Revise) = "better"
                         \/ \A c \in Pilot!Candidate :
                               LET best == Pilot!Grade[Pilot!Text(Published.source)]
                                   other == Evaluated[c]
                               IN  other.fault = "none" => best <= Pilot!Grade[Pilot!Text(other.of)]
    BY DEF Pilot!FinalIsBest, Published, Evaluated
  <1>1. Published.source = Published.midi
        /\ (Improves(Published.source) \/ BestSource(Evaluated, Published.source))
    BY DEF PInv, PublishedFits
  <1>2. \A c \in Pilot!Candidate : IsJudged(Evaluated[c], c)
    BY DEF PInv, PublishedFits, RecordsFit
  <1>3. \A c \in Pilot!Candidate : Evaluated[c].fault = "none" => GradeIn(Evaluated, c) \in Nat
    BY <1>2, GradesAreNumbers DEF IsJudged, GradeIn
  <1>4. CASE Improves(Published.source)
    BY <1>1, <1>4 DEF Improves
  <1>5. CASE BestSource(Evaluated, Published.source)
    <2>1. PICK b \in Pilot!Candidate : IsBest(Evaluated, b) /\ Published.source = Evaluated[b].of
      BY <1>5 DEF BestSource
    <2>2. \A c \in Pilot!Candidate : Evaluated[c].fault = "none" =>
              GradeIn(Evaluated, b) <= GradeIn(Evaluated, c)
      BY <2>1, <1>3 DEF IsBest
    <2>3. QED BY <1>1, <2>1, <2>2 DEF GradeIn
  <1>6. QED BY <1>1, <1>4, <1>5

-----------------------------------------------------------------------------
(* While storage is never wanting, the calls decide what is judged.        *)
Decided(c) ==
    IF Pilot!Text(Pilot!Compose(c)) = "invalid"
    THEN [of |-> Pilot!Repair(c),
          fault |-> IF Pilot!Text(Pilot!Repair(c)) = "invalid" THEN "content" ELSE "none"]
    ELSE [of |-> Pilot!Compose(c), fault |-> "none"]

IsDecided(j, c) ==
    /\ answerP[Pilot!Compose(c)] # None
    /\ Pilot!Text(Pilot!Compose(c)) = "invalid" => answerP[Pilot!Repair(c)] # None
    /\ j = Decided(c)

RepairOK(c) ==
    /\ answerP[Pilot!Repair(c)] # None =>
          /\ answerP[Pilot!Repair(c)].from = "content"
          /\ answerP[Pilot!Compose(c)] # None /\ Pilot!Text(Pilot!Compose(c)) = "invalid"
    /\ recordP[Pilot!Repair(c)] # None =>
          /\ answerP[Pilot!Compose(c)] # None
          /\ recordP[Pilot!Repair(c)] =
                IF Pilot!Text(Pilot!Compose(c)) = "invalid" THEN "content" ELSE "skipped"

RevisionOK ==
    answerP[Pilot!Revise] # None =>
        Evaluated # None /\ BestSource(Evaluated, answerP[Pilot!Revise].from)

(* What a replay finds is what was recorded.                               *)
Repeats ==
    /\ pcP # "conflict"
    /\ \A c \in Pilot!Candidate : RepairOK(c)
    /\ Evaluated # None => \A c \in Pilot!Candidate : IsDecided(Evaluated[c], c)
    /\ Looping => \A c \in Pilot!Candidate : c < atP => IsDecided(judgedP[c], c)
    /\ Looping /\ pcP \notin {"compose", "skip", "repair"} => IsDecided(judgedP[atP], atP)
    /\ pcP \in {"skip", "repair"} =>
          /\ answerP[Pilot!Compose(atP)] # None
          /\ judgedP[atP].of = Pilot!Compose(atP)
          /\ judgedP[atP].fault = IF pcP = "skip" THEN "none" ELSE "content"
          /\ pcP = "repair" <=> Pilot!Text(Pilot!Compose(atP)) = "invalid"

DInv == RevisionOK /\ (wantingP = {} => Repeats)

LEMMA WantingGrows == ASSUME Pilot!Next PROVE wantingP' = {} => wantingP = {}
  BY DEF Pilot!Next, Pilot!Advance, Pilot!Start, Pilot!Crash, Pilot!Ask, Pilot!GiveUp,
         Pilot!UseComposed, Pilot!SkipRepair, Pilot!UseRepaired, Pilot!EvaluateCandidates,
         Pilot!SkipRevision, Pilot!FailPublication, Pilot!UseRevision, Pilot!WriteSource,
         Pilot!WriteRendering, Pilot!RecordPublication, Pilot!Judges, Pilot!Conflicts

(* The calls of a replay that asks, or finds an answer.                    *)
LEMMA CallsInOrder ==
    ASSUME PInv, DInv, wantingP = {}, pcP \in {"compose", "repair", "revise"},
           answerP[Pilot!Current] # None
    PROVE  answerP[Pilot!Current].from = Pilot!Inputs(Pilot!Current)
  <1>1. atP \in Pilot!Candidate
    BY DEF PInv, PilotTyped, Pilot!TypeOK
  <1>2. CASE pcP = "compose"
    <2>1. Pilot!Current[1] = "compose" /\ Pilot!Current \in Pilot!Call
      BY <1>1, <1>2, Names DEF Pilot!Current, Pilot!Compose
    <2>2. QED BY <2>1 DEF PInv, PilotTyped, Pilot!TypeOK, Pilot!Inputs
  <1>3. CASE pcP = "repair"
    <2>1. /\ Pilot!Current = Pilot!Repair(atP) /\ Pilot!Current[1] = "repair"
          /\ Pilot!Current[2] = atP
      BY <1>1, <1>3 DEF Pilot!Current, Pilot!Repair
    <2>2. answerP[Pilot!Current].from = "content" /\ judgedP[atP].fault = "content"
      BY <1>1, <1>3, <2>1 DEF DInv, Repeats, RepairOK
    <2>3. QED BY <2>1, <2>2 DEF Pilot!Inputs
  <1>4. CASE pcP = "revise"
    <2>1. Pilot!Current = Pilot!Revise /\ Pilot!Inputs(Pilot!Current) = Pilot!SelectedSource
      BY <1>4 DEF Pilot!Current, Pilot!Inputs, Pilot!Revise
    <2>2. /\ Evaluated = judgedP
          /\ BestSource(Evaluated, answerP[Pilot!Revise].from)
      BY <1>4, <2>1 DEF PInv, ReplayKnows, Past, DInv, RevisionOK
    <2>3. /\ BestSource(judgedP, Pilot!SelectedSource)
          /\ \A c \in Pilot!Candidate : IsJudged(judgedP[c], c)
      BY <1>4, SelectedIsCalled, AllAreJudged DEF Looping, Pilot!Working
    <2>4. QED BY <2>1, <2>2, <2>3, BestIsUnique DEF BestSource
  <1>5. QED BY <1>2, <1>3, <1>4

LEMMA RevisionStays ==
    ASSUME PInv, DInv, AnswersGrow, answerP'[Pilot!Revise] = answerP[Pilot!Revise],
           Evaluated # None => Evaluated' = Evaluated
    PROVE  RevisionOK'
  <1>1. Evaluated # None => \A c \in Pilot!Candidate : IsJudged(Evaluated[c], c)
    BY DEF PInv, RecordsFit
  <1>2. \A f : Evaluated # None /\ BestSource(Evaluated, f) => BestSource(Evaluated, f)'
    <2> SUFFICES ASSUME NEW f, Evaluated # None, BestSource(Evaluated, f)
                 PROVE  BestSource(Evaluated, f)'
      OBVIOUS
    <2>1. \A c \in Pilot!Candidate : IsBest(Evaluated, c)' <=> IsBest(Evaluated, c)
      BY <1>1, BestStays DEF IsBest
    <2>2. QED BY <2>1 DEF BestSource
  <1>3. QED BY <1>2 DEF DInv, RevisionOK

LEMMA DecidedStays ==
    ASSUME AnswersGrow, NEW c \in Pilot!Candidate, NEW j, IsDecided(j, c)
    PROVE  IsDecided(j, c)'
  <1>1. Pilot!Compose(c) \in Pilot!Call /\ Pilot!Repair(c) \in Pilot!Call
    BY Names
  <1>2. answerP'[Pilot!Compose(c)] = answerP[Pilot!Compose(c)]
    BY <1>1 DEF AnswersGrow, IsDecided
  <1>3. Pilot!Text(Pilot!Compose(c)) = "invalid" =>
            answerP'[Pilot!Repair(c)] = answerP[Pilot!Repair(c)]
    BY <1>1 DEF AnswersGrow, IsDecided
  <1>4. QED BY <1>2, <1>3 DEF IsDecided, Decided, Pilot!Text

LEMMA AskRepeats == ASSUME PInv, DInv, Pilot!Ask PROVE DInv'
  <1> DEFINE s == Pilot!Current
  <1>1. /\ UNCHANGED <<recordP, finalP, pcP, atP, judgedP, revisedP, wantingP>>
        /\ s \in Pilot!Call /\ answerP[s] = None
        /\ pcP \in {"compose", "repair", "revise"} /\ atP \in Pilot!Candidate
    BY Names DEF Pilot!Ask, Pilot!Current, PInv, PilotTyped, Pilot!TypeOK
  <1>2. /\ \A t \in Pilot!Call : t # s => answerP'[t] = answerP[t]
        /\ answerP'[s].from = Pilot!Inputs(s)
    BY <1>1 DEF Pilot!Ask, PInv, PilotTyped
  <1>3. AnswersGrow
    BY <1>1, <1>2 DEF AnswersGrow
  <1>4. RevisionOK'
    <2>1. CASE pcP = "revise"
      <3>1. /\ Evaluated = judgedP /\ Evaluated' = Evaluated /\ judgedP' = judgedP
            /\ BestSource(judgedP, Pilot!SelectedSource)
            /\ \A c \in Pilot!Candidate : IsJudged(judgedP[c], c)
            /\ s = Pilot!Revise /\ Pilot!Inputs(s) = Pilot!SelectedSource
        BY <1>1, <2>1, SelectedIsCalled, AllAreJudged
           DEF PInv, ReplayKnows, Past, Looping, Pilot!Working, Evaluated, Pilot!Current,
               Pilot!Inputs, Pilot!Revise
      <3>2. \A c \in Pilot!Candidate : IsBest(judgedP, c) => IsBest(judgedP, c)'
        BY <1>1, <1>3, <3>1, BestStays DEF IsBest
      <3>3. PICK c \in Pilot!Candidate :
                IsBest(judgedP, c) /\ Pilot!SelectedSource = judgedP[c].of
        BY <3>1 DEF BestSource
      <3>4. IsBest(judgedP, c)' /\ answerP'[s].from = judgedP[c].of
        BY <1>2, <3>1, <3>2, <3>3
      <3>5. judgedP # None
        <4>1. judgedP \in [Pilot!Candidate -> [of : Pilot!Call, fault : Pilot!Fault]]
          BY <3>1, EntriesAreTyped
        <4>2. QED BY <4>1, StepAssumption
      <3> HIDE DEF s
      <3>6. QED BY <3>1, <3>4, <3>5 DEF RevisionOK, BestSource, Evaluated
    <2>2. CASE pcP # "revise"
      <3>1. s # Pilot!Revise
        BY <1>1, <2>2, Names DEF Pilot!Current
      <3>2. QED BY <1>1, <1>2, <1>3, <3>1, Names, RevisionStays DEF Evaluated
    <2>3. QED BY <2>1, <2>2
  <1>5. ASSUME wantingP' = {} PROVE Repeats'
    <2>1. Repeats
      BY <1>1, <1>5 DEF DInv
    <2>2. \A c \in Pilot!Candidate : \A j : IsDecided(j, c) => IsDecided(j, c)'
      BY <1>3, DecidedStays
    <2>3. \A c \in Pilot!Candidate : RepairOK(c)'
      <3> SUFFICES ASSUME NEW c \in Pilot!Candidate PROVE RepairOK(c)'
        OBVIOUS
      <3>1. RepairOK(c) /\ Pilot!Compose(c) \in Pilot!Call /\ Pilot!Repair(c) \in Pilot!Call
        BY <2>1, Names DEF Repeats
      <3>2. answerP[Pilot!Compose(c)] # None =>
                answerP'[Pilot!Compose(c)] = answerP[Pilot!Compose(c)]
        BY <1>3, <3>1 DEF AnswersGrow
      <3>3. CASE s = Pilot!Repair(c)
        <4>1. pcP = "repair" /\ c = atP
          BY <1>1, <3>3, Names DEF Pilot!Current
        <4>2. /\ Pilot!Inputs(s) = "content" /\ answerP[Pilot!Compose(c)] # None
              /\ Pilot!Text(Pilot!Compose(c)) = "invalid"
          BY <2>1, <3>3, <4>1 DEF Repeats, Pilot!Inputs, Pilot!Repair
        <4>3. QED BY <1>1, <1>2, <3>1, <3>2, <3>3, <4>2 DEF RepairOK, Pilot!Text
      <3>4. CASE s # Pilot!Repair(c)
        <4>1. answerP'[Pilot!Repair(c)] = answerP[Pilot!Repair(c)]
          BY <1>2, <3>1, <3>4
        <4>2. QED BY <1>1, <3>1, <3>2, <4>1 DEF RepairOK, Pilot!Text
      <3>5. QED BY <3>3, <3>4
    <2>4. answerP[Pilot!Compose(atP)] # None =>
              answerP'[Pilot!Compose(atP)] = answerP[Pilot!Compose(atP)]
      BY <1>1, <1>3, Names DEF AnswersGrow
    <2>5. QED
      BY <1>1, <2>1, <2>2, <2>3, <2>4 DEF Repeats, Looping, Evaluated, Pilot!Text
  <1>6. QED BY <1>4, <1>5 DEF DInv

LEMMA SameDecisions ==
    ASSUME answerP' = answerP
    PROVE  /\ \A j, c : IsDecided(j, c)' <=> IsDecided(j, c)
           /\ \A s \in Pilot!Call : recordP'[s] = recordP[s] =>
                 \A c \in Pilot!Candidate : s = Pilot!Repair(c) => (RepairOK(c)' <=> RepairOK(c))
  BY DEF IsDecided, Decided, RepairOK, Pilot!Text

LEMMA TurnRepeats ==
    ASSUME PInv, DInv, Pilot!Start \/ Pilot!Crash \/ Pilot!GiveUp PROVE DInv'
  <1>1. /\ UNCHANGED <<answerP, recordP, finalP, wantingP>>
        /\ pcP' \in {"compose", "idle", "conflict", "failed"}
        /\ pcP' = "compose" => atP' = 1
    BY DEF Pilot!Start, Pilot!Crash, Pilot!GiveUp, Pilot!saved
  <1>2. wantingP = {} => pcP' # "conflict"
    BY CallsInOrder DEF Pilot!Start, Pilot!Crash, Pilot!GiveUp
  <1>3. RevisionOK'
    BY <1>1, SameAnswers, RevisionStays DEF Evaluated
  <1>4. ASSUME wantingP = {} PROVE Repeats'
    <2>1. \A c \in Pilot!Candidate : RepairOK(c)'
      BY <1>1, <1>4, SameDecisions, Names DEF DInv, Repeats
    <2>2. QED
      BY <1>1, <1>2, <1>4, <2>1, SameDecisions
         DEF DInv, Repeats, Looping, Pilot!Working, Pilot!Candidate, Evaluated
  <1>5. QED BY <1>1, <1>3, <1>4 DEF DInv

(* Once storage was wanting there is little to say.                        *)
LEMMA WantingRepeats ==
    ASSUME PInv, DInv, answerP' = answerP, Evaluated # None => Evaluated' = Evaluated,
           wantingP' # {}
    PROVE  DInv'
  BY SameAnswers, RevisionStays DEF DInv

LEMMA UseComposedRepeats == ASSUME PInv, DInv, Pilot!UseComposed PROVE DInv'
  <1> DEFINE c == atP
             s == Pilot!Compose(c)
  <1>1. c \in Pilot!Candidate
    BY DEF PInv, PilotTyped, Pilot!TypeOK
  <1>2. PICK fault \in Pilot!Fault :
            /\ Pilot!Judges(s, fault)
            /\ judgedP' = [judgedP EXCEPT ![c] = [of |-> s, fault |-> fault]]
            /\ pcP' = IF fault = "none" THEN "skip" ELSE "repair"
    BY DEF Pilot!UseComposed
  <1>3. /\ UNCHANGED <<answerP, finalP, atP, revisedP>> /\ pcP = "compose"
        /\ Pilot!Records(s, "completed")
        /\ answerP[s] # None
    BY DEF Pilot!UseComposed, Pilot!Answered, Pilot!Current
  <1>4. Evaluated' = Evaluated /\ \A d \in Pilot!Candidate :
            recordP'[Pilot!Repair(d)] = recordP[Pilot!Repair(d)]
    BY <1>1, <1>3, RecordedApart, Names DEF Evaluated
  <1>5. CASE wantingP' # {}
    BY <1>3, <1>4, <1>5, WantingRepeats
  <1>6. CASE wantingP' = {}
    <2>1. wantingP = {} /\ fault # "storage"
      BY <1>2, <1>6 DEF Pilot!Judges
    <2>2. fault = IF Pilot!Text(s) = "invalid" THEN "content" ELSE "none"
      BY <1>2, <2>1 DEF Pilot!Judges, Pilot!FaultsOf
    <2>3. RevisionOK'
      BY <1>3, <1>4, SameAnswers, RevisionStays
    <2> HIDE DEF s
    <2>4. judgedP'[c] = [of |-> s, fault |-> fault]
          /\ \A d \in Pilot!Candidate : d # c => judgedP'[d] = judgedP[d]
      BY <1>1, <1>2 DEF PInv, PilotTyped
    <2>5. \A d \in Pilot!Candidate : RepairOK(d)'
      BY <1>3, <1>4, <2>1, SameDecisions, Names DEF DInv, Repeats
    <2>6. \A d \in Pilot!Candidate : d < c => IsDecided(judgedP'[d], d)
      BY <1>1, <1>3, <2>1, <2>4, CandidatesAssumption DEF DInv, Repeats, Looping, Pilot!Working, Pilot!Candidate
    <2>7. Evaluated # None => \A d \in Pilot!Candidate : IsDecided(Evaluated[d], d)
      BY <2>1 DEF DInv, Repeats
    <2>8. Repeats'
      BY <1>1, <1>2, <1>3, <1>4, <2>2, <2>4, <2>5, <2>6, <2>7, SameAnswers, SameDecisions DEF Repeats, Looping, s
    <2>9. QED BY <2>3, <2>8 DEF DInv
  <1>7. QED BY <1>5, <1>6

(* The loop goes on to the next candidate.                                 *)
LEMMA CandidateRepeats ==
    ASSUME PInv, DInv, answerP' = answerP, pcP \in {"skip", "repair"}, Pilot!ThenNext,
           NEW v, Pilot!Records(Pilot!Repair(atP), v),
           wantingP = {} => v = IF Pilot!Text(Pilot!Compose(atP)) = "invalid" THEN "content" ELSE "skipped",
           \A d \in Pilot!Candidate : d # atP => judgedP'[d] = judgedP[d],
           wantingP' = {} => wantingP = {} /\ IsDecided(judgedP'[atP], atP)
    PROVE  DInv'
  <1> DEFINE c == atP
  <1>1. c \in Pilot!Candidate
    BY DEF PInv, PilotTyped, Pilot!TypeOK
  <1>2. /\ Evaluated' = Evaluated /\ recordP'[Pilot!Repair(c)] = v
        /\ \A d \in Pilot!Candidate : d # c =>
              recordP'[Pilot!Repair(d)] = recordP[Pilot!Repair(d)]
    BY <1>1, RecordedApart, Names DEF Evaluated
  <1>3. CASE wantingP' # {}
    BY <1>2, <1>3, WantingRepeats
  <1>4. CASE wantingP' = {}
    <2>1. wantingP = {} /\ Repeats
      BY <1>4 DEF DInv
    <2>2. RevisionOK'
      BY <1>2, SameAnswers, RevisionStays
    <2>3. \A d \in Pilot!Candidate : RepairOK(d)'
      <3> SUFFICES ASSUME NEW d \in Pilot!Candidate PROVE RepairOK(d)'
        OBVIOUS
      <3>1. CASE d = c
        BY <1>1, <1>2, <2>1, <3>1, SameAnswers DEF RepairOK, Repeats
      <3>2. CASE d # c
        BY <1>2, <2>1, <3>2, SameDecisions, Names DEF Repeats
      <3>3. QED BY <3>1, <3>2
    <2>4. /\ pcP' \in {"compose", "evaluate"} /\ atP' \in Pilot!Candidate
          /\ \A d \in Pilot!Candidate : d < atP' \/ (d = atP' /\ pcP' = "evaluate") => d < c \/ d = c
      BY <1>1, CandidatesAssumption DEF Pilot!ThenNext, Pilot!Candidate
    <2>5. \A d \in Pilot!Candidate : d < c \/ d = c => IsDecided(judgedP'[d], d)
      BY <1>1, <1>4, <2>1, CandidatesAssumption DEF Repeats, Looping, Pilot!Working, Pilot!Candidate
    <2> HIDE DEF c
    <2>6. Repeats'
      BY <1>1, <1>2, <2>1, <2>3, <2>4, <2>5, SameDecisions DEF Repeats, Looping
    <2>7. QED BY <2>2, <2>6 DEF DInv
  <1>5. QED BY <1>3, <1>4

LEMMA RepairsRepeat ==
    ASSUME PInv, DInv, Pilot!SkipRepair \/ Pilot!UseRepaired PROVE DInv'
  <1> DEFINE c == atP
             s == Pilot!Repair(c)
  <1>1. c \in Pilot!Candidate
    BY DEF PInv, PilotTyped, Pilot!TypeOK
  <1>2. ASSUME wantingP = {}, pcP \in {"skip", "repair"}
        PROVE  /\ answerP[Pilot!Compose(c)] # None /\ judgedP[c].of = Pilot!Compose(c)
               /\ judgedP[c].fault = IF pcP = "skip" THEN "none" ELSE "content"
               /\ pcP = "repair" <=> Pilot!Text(Pilot!Compose(c)) = "invalid"
               /\ recordP[s] \in {None, IF pcP = "skip" THEN "skipped" ELSE "content"}
    BY <1>1, <1>2 DEF DInv, Repeats, RepairOK
  <1>3. ASSUME NEW v, wantingP # {}, Pilot!Conflicts(s, v) PROVE DInv'
    BY <1>3, WantingRepeats DEF Pilot!Conflicts, Pilot!saved, Evaluated
  <1>4. ASSUME Pilot!SkipRepair PROVE DInv'
    <2>1. pcP = "skip"
      BY <1>4 DEF Pilot!SkipRepair
    <2>2. CASE Pilot!Conflicts(s, "skipped")
      <3>1. wantingP # {}
        BY <1>2, <2>1, <2>2 DEF Pilot!Conflicts
      <3>2. QED BY <1>3, <2>2, <3>1
    <2>3. CASE ~ Pilot!Conflicts(s, "skipped")
      <3>1. /\ Pilot!Records(s, "skipped") /\ Pilot!ThenNext
            /\ UNCHANGED <<answerP, finalP, judgedP, revisedP, wantingP>>
        BY <1>4, <2>3 DEF Pilot!SkipRepair
      <3>2. wantingP = {} => IsDecided(judgedP[c], c)
        <4> SUFFICES ASSUME wantingP = {} PROVE IsDecided(judgedP[c], c)
          OBVIOUS
        <4>1. IsJudged(judgedP[c], c)
          BY <2>1 DEF PInv, ReplayKnows, Looping, Pilot!Working
        <4>2. judgedP[c] = [of |-> Pilot!Compose(c), fault |-> "none"]
          BY <1>2, <2>1, <4>1 DEF IsJudged
        <4>3. QED BY <1>2, <2>1, <4>2 DEF IsDecided, Decided
      <3>3. QED BY <1>2, <2>1, <3>1, <3>2, CandidateRepeats
    <2>4. QED BY <2>2, <2>3
  <1>5. ASSUME Pilot!UseRepaired PROVE DInv'
    <2>1. pcP = "repair"
      BY <1>5 DEF Pilot!UseRepaired
    <2>2. CASE Pilot!Conflicts(s, judgedP[atP].fault)
      <3>1. wantingP # {}
        BY <1>2, <2>1, <2>2 DEF Pilot!Conflicts
      <3>2. QED BY <1>3, <2>2, <3>1
    <2>3. CASE ~ Pilot!Conflicts(s, judgedP[atP].fault)
      <3>1. /\ Pilot!Records(s, judgedP[atP].fault) /\ Pilot!ThenNext
            /\ UNCHANGED <<answerP, finalP, revisedP>> /\ answerP[s] # None
        BY <1>5, <2>3 DEF Pilot!UseRepaired, Pilot!Answered, Pilot!Current
      <3>2. PICK fault \in Pilot!Fault :
                /\ Pilot!Judges(s, fault)
                /\ judgedP' = [judgedP EXCEPT ![c] = [of |-> s, fault |-> fault]]
        BY <1>5, <2>3 DEF Pilot!UseRepaired
      <3>3. /\ judgedP'[c] = [of |-> s, fault |-> fault]
            /\ \A d \in Pilot!Candidate : d # c => judgedP'[d] = judgedP[d]
        BY <1>1, <3>2 DEF PInv, PilotTyped
      <3>4. ASSUME wantingP' = {} PROVE wantingP = {} /\ IsDecided(judgedP'[c], c)
        <4>1. wantingP = {} /\ fault # "storage"
          BY <3>2, <3>4 DEF Pilot!Judges
        <4>2. fault = IF Pilot!Text(s) = "invalid" THEN "content" ELSE "none"
          BY <3>2, <4>1 DEF Pilot!Judges, Pilot!FaultsOf
        <4>3. QED BY <1>2, <2>1, <3>1, <3>3, <4>1, <4>2 DEF IsDecided, Decided
      <3>5. wantingP = {} => judgedP[atP].fault =
                IF Pilot!Text(Pilot!Compose(atP)) = "invalid" THEN "content" ELSE "skipped"
        BY <1>2, <2>1
      <3> HIDE DEF c, s
      <3>6. QED BY <2>1, <3>1, <3>3, <3>4, <3>5, CandidateRepeats DEF c, s
    <2>4. QED BY <2>2, <2>3
  <1>6. QED BY <1>4, <1>5

LEMMA AllAreDecided ==
    ASSUME PInv, DInv, wantingP = {}, Looping, pcP \notin {"compose", "skip", "repair"}
    PROVE  \A c \in Pilot!Candidate : IsDecided(judgedP[c], c)
  BY CandidatesAssumption DEF PInv, ReplayKnows, DInv, Repeats, Looping, Pilot!Candidate

LEMMA EvaluateRepeats == ASSUME PInv, DInv, Pilot!EvaluateCandidates PROVE DInv'
  <1>1. pcP = "evaluate" /\ UNCHANGED <<answerP, atP, judgedP, wantingP>>
    BY DEF Pilot!EvaluateCandidates, Pilot!Conflicts, Pilot!saved
  <1>2. Evaluated # None => Evaluated' = Evaluated
    BY RecordedApart DEF Pilot!EvaluateCandidates, Pilot!Conflicts, Pilot!saved, Evaluated,
                         Pilot!Records
  <1>3. RevisionOK'
    BY <1>1, <1>2, SameAnswers, RevisionStays
  <1>4. ASSUME wantingP = {} PROVE Repeats'
    <2>1. \A c \in Pilot!Candidate : IsDecided(judgedP[c], c)
      BY <1>1, <1>4, AllAreDecided DEF Looping, Pilot!Working
    <2>2. Evaluated # None => Evaluated = judgedP
      <3> SUFFICES ASSUME Evaluated # None PROVE Evaluated = judgedP
        OBVIOUS
      <3>1. \A c \in Pilot!Candidate : Evaluated[c] = judgedP[c]
        BY <1>4, <2>1 DEF DInv, Repeats, IsDecided
      <3>2. QED BY <3>1 DEF PInv, RecordsFit, PilotTyped
    <2>3. Pilot!Records(Pilot!Evaluate, judgedP) /\ pcP' \in {"hopeless", "revise", "keep"}
      BY <2>2 DEF Pilot!EvaluateCandidates, Pilot!Conflicts, Evaluated
    <2>4. Evaluated' = judgedP /\ \A c \in Pilot!Candidate :
              recordP'[Pilot!Repair(c)] = recordP[Pilot!Repair(c)]
      BY <2>3, RecordedApart, Names DEF Evaluated
    <2>5. \A c \in Pilot!Candidate : RepairOK(c)'
      BY <1>1, <1>4, <2>4, SameDecisions, Names DEF DInv, Repeats
    <2>6. atP \in Pilot!Candidate
      BY DEF PInv, PilotTyped, Pilot!TypeOK
    <2>7. QED BY <1>1, <2>1, <2>3, <2>4, <2>5, <2>6, SameDecisions DEF Repeats, Looping
  <1>5. QED BY <1>1, <1>3, <1>4 DEF DInv

LEMMA LaterRepeats ==
    ASSUME PInv, DInv,
           \/ Pilot!SkipRevision \/ Pilot!FailPublication \/ Pilot!UseRevision
           \/ Pilot!WriteSource \/ Pilot!WriteRendering \/ Pilot!RecordPublication
    PROVE  DInv'
  <1>1. pcP \in Past /\ UNCHANGED <<answerP, atP, judgedP>>
    BY DEF Pilot!SkipRevision, Pilot!FailPublication, Pilot!UseRevision, Pilot!WriteSource,
           Pilot!WriteRendering, Pilot!RecordPublication, Pilot!Conflicts, Pilot!saved, Past
  <1>2. /\ Evaluated' = Evaluated
        /\ \A c \in Pilot!Candidate : recordP'[Pilot!Repair(c)] = recordP[Pilot!Repair(c)]
    <2>1. \/ \E s \in {Pilot!Revise, Pilot!Publish} : \E v : Pilot!Records(s, v)
          \/ recordP' = recordP
      BY DEF Pilot!SkipRevision, Pilot!FailPublication, Pilot!UseRevision, Pilot!WriteSource,
             Pilot!WriteRendering, Pilot!RecordPublication, Pilot!Conflicts, Pilot!saved
    <2>2. QED BY <2>1, RecordedApart, Names DEF Evaluated
  <1>3. RevisionOK'
    BY <1>1, <1>2, SameAnswers, RevisionStays
  <1>4. wantingP' = {} => wantingP = {}
    BY WantingGrows DEF Pilot!Next, Pilot!Advance
  <1>5. ASSUME wantingP = {} PROVE Repeats'
    <2>1. pcP' \in {"drop", "source", "midi", "publish", "no_valid", "completed"}
      <3>1. ~ Pilot!Conflicts(Pilot!Publish, finalP) \/ pcP # "publish"
        BY <1>5 DEF Pilot!Conflicts, PInv, PublishedFits, Published
      <3>2. QED
        BY <3>1 DEF Pilot!SkipRevision, Pilot!FailPublication, Pilot!UseRevision,
                    Pilot!WriteSource, Pilot!WriteRendering, Pilot!RecordPublication
    <2>2. \A c \in Pilot!Candidate : RepairOK(c)'
      BY <1>1, <1>2, <1>5, SameDecisions, Names DEF DInv, Repeats
    <2>3. \A c \in Pilot!Candidate : IsDecided(judgedP[c], c)
      BY <1>1, <1>5, AllAreDecided DEF Looping, Pilot!Working, Past
    <2>4. atP \in Pilot!Candidate
      BY DEF PInv, PilotTyped, Pilot!TypeOK
    <2>5. QED
      BY <1>1, <1>2, <1>5, <2>1, <2>2, <2>3, <2>4, SameDecisions DEF DInv, Repeats, Looping
  <1>6. QED BY <1>3, <1>4, <1>5 DEF DInv

LEMMA PilotRepeats == ASSUME PInv, DInv, Pilot!Next PROVE DInv'
  BY TurnRepeats, AskRepeats, UseComposedRepeats, RepairsRepeat, EvaluateRepeats, LaterRepeats
     DEF Pilot!Next, Pilot!Advance

LEMMA PilotRests == ASSUME PInv, DInv, UNCHANGED pilot PROVE DInv'
  <1>1. UNCHANGED <<answerP, recordP, pcP, atP, judgedP, wantingP>>
    BY DEF pilot
  <1>2. RevisionOK'
    BY <1>1, SameAnswers, RevisionStays DEF Evaluated
  <1>3. \A c \in Pilot!Candidate : RepairOK(c) => RepairOK(c)'
    BY <1>1, SameDecisions, Names
  <1>4. Repeats => Repeats'
    BY <1>1, <1>3, SameDecisions DEF Repeats, Looping, Evaluated, Pilot!Text
  <1>5. QED BY <1>1, <1>2, <1>4 DEF DInv

LEMMA PilotInitRepeats == ASSUME Pilot!Init PROVE DInv
  <1>1. \A c \in Pilot!Candidate : RepairOK(c)
    BY Names DEF Pilot!Init, RepairOK
  <1>2. RevisionOK
    BY Names DEF Pilot!Init, RevisionOK
  <1>3. QED
    BY <1>1, <1>2 DEF Pilot!Init, DInv, Repeats, Looping, Pilot!Working, Evaluated

-----------------------------------------------------------------------------
(* What is recorded of the stages of a pipeline.                           *)
Before(s) == \A r \in 1..(s - 1) : stepG[r] = "completed"

StagesOK ==
    /\ \A s \in Pipeline!Asked :
          /\ attemptG[s] = "unsound" => s \in Pipeline!Batch
          /\ attemptG[s] # None => Before(s)
          /\ stepG[s] = "completed" => attemptG[s] \in Pipeline!Answer \ {"invalid"}
          /\ stepG[s] = "failed" => attemptG[s] = "invalid"
    /\ \A s \in Pipeline!Stage :
          /\ stepG[s] # None => Before(s)
          /\ stepG[s] = "failed" => s \in Pipeline!Asked
          /\ stepG[s] = "completed" => s \in sourceG

QualityOK ==
    /\ \A s \in Pipeline!Graded :
          /\ gradedG[s] # None => Before(s)
          /\ stepG[s] = "completed" => gradedG[s] = "completed"
          /\ s # Pipeline!Score /\ gradedG[s] = "completed" => attemptG[s] = "good"
          /\ s # Pipeline!Score /\ gradedG[s] = "failed" => attemptG[s] = "poor"
    /\ gradedG[Pipeline!Score] = "completed" => \A b \in Pipeline!Batch : attemptG[b] = "good"

(* What an invocation knows of the stage it has come to.                   *)
InvocationKnows ==
    pcG \in Pipeline!Working =>
        /\ Before(atG) /\ atG <= targetG
        /\ ~ Pipeline!Refused
        /\ pcG \in {"judge", "quality", "graded", "source"} =>
              atG # Pipeline!Publish /\ (atG \in Pipeline!Asked => attemptG[atG] \in Pipeline!Answer)
        /\ pcG \in {"quality", "graded", "source"} => Pipeline!Sound
        /\ pcG = "refused" => atG \in Pipeline!Asked /\ attemptG[atG] = "invalid"
        /\ pcG \in {"quality", "graded"} => atG \in Pipeline!Graded
        /\ pcG = "source" /\ atG \in Pipeline!Graded => gradedG[atG] = "completed"
        /\ pcG = "step" =>
              /\ atG \in sourceG
              /\ atG \in Pipeline!Asked => attemptG[atG] \in Pipeline!Answer \ {"invalid"}
              /\ atG \in Pipeline!Graded => gradedG[atG] = "completed"

GInv == Pipeline!TypeOK /\ StagesOK /\ QualityOK /\ InvocationKnows

-----------------------------------------------------------------------------
LEMMA StageNumbers ==
    /\ Batches \in Nat /\ Batches >= 1
    /\ Pipeline!Plan = 1 /\ Pipeline!Score = Batches + 2
    /\ Pipeline!Performance = Batches + 3 /\ Pipeline!Publish = Batches + 4
    /\ Pipeline!Stage = 1..(Batches + 4) /\ Pipeline!Batch = 2..(Batches + 1)
    /\ Pipeline!Asked = 1..(Batches + 4) \ {Batches + 2, Batches + 4}
    /\ Pipeline!Graded = {1, Batches + 2, Batches + 3}
    /\ Pipeline!Target = {1, Batches + 2, Batches + 4}
  BY BatchesAssumption
     DEF Pipeline!Plan, Pipeline!Score, Pipeline!Performance, Pipeline!Publish, Pipeline!Stage,
         Pipeline!Batch, Pipeline!Asked, Pipeline!Graded, Pipeline!Target

(* The records of the stages go together: an invocation that only moves    *)
(* leaves them as they are.                                                *)
LEMMA StagesRest ==
    ASSUME GInv, UNCHANGED <<attemptG, gradedG, sourceG, stepG>>
    PROVE  StagesOK' /\ QualityOK'
  BY DEF GInv, StagesOK, QualityOK, Before

(* Once a stage is refused or found wanting, nothing is asked about later  *)
(* ones, and a later invocation sees that the run has failed.              *)
LEMMA NothingAfter ==
    ASSUME GInv, NEW s \in Pipeline!Stage, stepG[s] # "completed",
           NEW r \in Pipeline!Stage, r > s
    PROVE  /\ r \in Pipeline!Asked => attemptG[r] = None
           /\ stepG[r] = None
           /\ r \in Pipeline!Graded => gradedG[r] = None
  <1>1. s \in 1..(r - 1)
    BY StageNumbers
  <1>2. ~ Before(r)
    BY <1>1 DEF Before
  <1>3. QED BY <1>2 DEF GInv, StagesOK, QualityOK

LEMMA RefusedIsSeen == ASSUME GInv, Pipeline!Refused PROVE Pipeline!StateIsFailed
  <1>1. PICK s \in Pipeline!Stage :
            stepG[s] = "failed" \/ (s \in Pipeline!Graded /\ gradedG[s] = "failed")
    BY DEF Pipeline!Refused
  <1>2. stepG[s] # "completed" /\ Before(s)
    BY <1>1, StepAssumption, RecordAssumption DEF GInv, StagesOK, QualityOK, Terminal
  <1>3. \A r \in Pipeline!Asked : attemptG[r] # "interrupted"
    <2> SUFFICES ASSUME NEW r \in Pipeline!Asked PROVE attemptG[r] # "interrupted"
      OBVIOUS
    <2>1. r \in Pipeline!Stage /\ r \in Nat /\ s \in Nat
      BY StageNumbers
    <2>2. CASE r < s
      <3>1. stepG[r] = "completed"
        BY <1>2, <2>1, <2>2, StageNumbers DEF Before
      <3>2. QED BY <3>1 DEF GInv, StagesOK, Pipeline!Answer
    <2>3. CASE r = s
      BY <1>1, <2>1, <2>3, StageNumbers DEF GInv, StagesOK, QualityOK
    <2>4. CASE r > s
      BY <1>2, <2>1, <2>4, NothingAfter, StepAssumption DEF Pipeline!Ending
    <2>5. QED BY <2>1, <2>2, <2>3, <2>4
  <1>4. QED BY <1>1, <1>3 DEF Pipeline!StateIsFailed

LEMMA PipelineInitKeeps == ASSUME Pipeline!Init PROVE GInv
  <1>1. Pipeline!TypeOK
    <2>1. failureG \in [Pipeline!Asked -> BOOLEAN]
      BY DEF Pipeline!Init
    <2>2. atG \in Pipeline!Stage /\ targetG \in Pipeline!Target /\ stopsG \in 0..MaxStops
      BY StageNumbers, BatchesAssumption DEF Pipeline!Init
    <2>3. QED BY <2>1, <2>2 DEF Pipeline!Init, Pipeline!TypeOK
  <1>2. StagesOK
    BY StageNumbers, StepAssumption, RecordAssumption
       DEF Pipeline!Init, StagesOK, Terminal, Pipeline!Ending, Pipeline!Answer
  <1>3. QualityOK
    BY StageNumbers, StepAssumption, RecordAssumption DEF Pipeline!Init, QualityOK, Terminal
  <1>4. InvocationKnows
    BY DEF Pipeline!Init, InvocationKnows, Pipeline!Working
  <1>5. QED BY <1>1, <1>2, <1>3, <1>4 DEF GInv

LEMMA MoveKeeps ==
    ASSUME GInv,
           \/ Pipeline!Invoke \/ Pipeline!Stop \/ Pipeline!NoAnswer \/ Pipeline!HasSource
           \/ Pipeline!Refuse \/ Pipeline!Accept \/ Pipeline!SaveQuality
           \/ Pipeline!AlreadyPublished
    PROVE  GInv'
  <1>1. UNCHANGED <<attemptG, gradedG, sourceG, stepG>>
    BY DEF Pipeline!Invoke, Pipeline!Stop, Pipeline!NoAnswer, Pipeline!HasSource,
           Pipeline!Refuse, Pipeline!Accept, Pipeline!SaveQuality, Pipeline!AlreadyPublished,
           Pipeline!saved
  <1>2. Pipeline!TypeOK'
    <2>1. failureG' \in [Pipeline!Asked -> BOOLEAN]
      BY DEF GInv, Pipeline!TypeOK, Pipeline!Invoke, Pipeline!Stop, Pipeline!NoAnswer,
             Pipeline!HasSource, Pipeline!Refuse, Pipeline!Accept, Pipeline!SaveQuality,
             Pipeline!AlreadyPublished, Pipeline!saved
    <2>2. qualityG' \in [Pipeline!Graded -> {None, "passes", "fails"}]
      BY DEF GInv, Pipeline!TypeOK, Pipeline!Invoke, Pipeline!Stop, Pipeline!NoAnswer,
             Pipeline!HasSource, Pipeline!Refuse, Pipeline!Accept, Pipeline!SaveQuality,
             Pipeline!AlreadyPublished, Pipeline!saved
    <2>3. /\ pcG' \in {"idle"} \cup Pipeline!Working \cup Pipeline!Outcome
          /\ targetG' \in Pipeline!Target /\ atG' \in Pipeline!Stage
      BY StageNumbers
         DEF GInv, Pipeline!TypeOK, Pipeline!Invoke, Pipeline!Stop, Pipeline!NoAnswer,
             Pipeline!HasSource, Pipeline!Refuse, Pipeline!Accept, Pipeline!SaveQuality,
             Pipeline!AlreadyPublished, Pipeline!Working, Pipeline!Outcome
    <2>4. stopsG' \in 0..MaxStops
      BY BatchesAssumption
         DEF GInv, Pipeline!TypeOK, Pipeline!Invoke, Pipeline!Stop, Pipeline!NoAnswer,
             Pipeline!HasSource, Pipeline!Refuse, Pipeline!Accept, Pipeline!SaveQuality,
             Pipeline!AlreadyPublished
    <2>5. QED BY <1>1, <2>1, <2>2, <2>3, <2>4 DEF GInv, Pipeline!TypeOK
  <1>3. InvocationKnows'
    <2>1. Pipeline!Refused' <=> Pipeline!Refused
      BY <1>1 DEF Pipeline!Refused
    <2>2. atG' = atG => (Pipeline!Sound' <=> Pipeline!Sound)
      BY <1>1 DEF Pipeline!Sound
    <2>3. CASE Pipeline!Invoke
      <3>1. Before(Pipeline!Plan)' /\ (targetG' \in Pipeline!Target => Pipeline!Plan <= targetG')
        BY StageNumbers DEF Before
      <3>2. Pipeline!Admitted => ~ Pipeline!Refused
        BY RefusedIsSeen DEF Pipeline!Admitted
      <3>3. QED
        BY <1>2, <2>1, <2>3, <3>1, <3>2
           DEF Pipeline!Invoke, InvocationKnows, Pipeline!Working, Pipeline!TypeOK
    <2>4. CASE Pipeline!Stop
      BY <2>4 DEF Pipeline!Stop, InvocationKnows, Pipeline!Working
    <2>5. CASE Pipeline!NoAnswer \/ Pipeline!AlreadyPublished
      BY <2>5 DEF Pipeline!NoAnswer, Pipeline!AlreadyPublished, InvocationKnows, Pipeline!Working
    <2>6. CASE Pipeline!HasSource
      BY <1>1, <2>1, <2>6
         DEF Pipeline!HasSource, InvocationKnows, Pipeline!Working, GInv, Before
    <2>7. CASE Pipeline!Refuse
      BY <1>1, <2>1, <2>7, StageNumbers
         DEF Pipeline!Refuse, InvocationKnows, Pipeline!Working, GInv, Before, Pipeline!Sound
    <2>8. CASE Pipeline!Accept
      BY <1>1, <2>1, <2>2, <2>8
         DEF Pipeline!Accept, InvocationKnows, Pipeline!Working, GInv, Before
    <2>9. CASE Pipeline!SaveQuality
      BY <1>1, <2>1, <2>2, <2>9
         DEF Pipeline!SaveQuality, InvocationKnows, Pipeline!Working, GInv, Before
    <2>10. QED BY <2>3, <2>4, <2>5, <2>6, <2>7, <2>8, <2>9
  <1>4. QED BY <1>1, <1>2, <1>3, StagesRest DEF GInv

(* The model is asked about the stage the invocation has come to.          *)
LEMMA AttemptKeeps == ASSUME GInv, Pipeline!Reserve \/ Pipeline!AttemptEnds PROVE GInv'
  <1>1. /\ UNCHANGED <<failureG, qualityG, gradedG, sourceG, stepG, pcG, atG, targetG, stopsG>>
        /\ pcG = "stage" /\ atG \in Pipeline!Asked /\ stepG[atG] = None
        /\ attemptG[atG] \in {None, "open"}
    BY DEF Pipeline!Reserve, Pipeline!AttemptEnds
  <1>2. PICK how \in {"open"} \cup Pipeline!Ending :
            /\ how = "unsound" => atG \in Pipeline!Batch
            /\ attemptG' = [attemptG EXCEPT ![atG] = how]
    BY DEF Pipeline!Reserve, Pipeline!AttemptEnds
  <1>3. /\ attemptG' \in [Pipeline!Asked -> {None, "open"} \cup Pipeline!Ending]
        /\ attemptG'[atG] = how
        /\ \A s \in Pipeline!Asked : s # atG => attemptG'[s] = attemptG[s]
    BY <1>1, <1>2 DEF GInv, Pipeline!TypeOK
  <1>4. Pipeline!TypeOK'
    BY <1>1, <1>3 DEF GInv, Pipeline!TypeOK
  <1>5. Before(atG) /\ ~ Pipeline!Refused
    BY <1>1 DEF GInv, InvocationKnows, Pipeline!Working
  <1>6. StagesOK'
    BY <1>1, <1>2, <1>3, <1>5, StepAssumption, RecordAssumption
       DEF GInv, StagesOK, Before, Pipeline!Refused, Terminal
  <1>7. QualityOK'
    <2>1. attemptG[atG] \notin {"good", "poor"}
      BY <1>1, StepAssumption DEF Pipeline!Ending, Pipeline!Answer
    <2>2. \A s \in Pipeline!Graded : s # Pipeline!Score => s \in Pipeline!Asked
      BY StageNumbers
    <2>3. Pipeline!Batch \subseteq Pipeline!Asked
      BY StageNumbers
    <2>4. QED BY <1>1, <1>3, <2>1, <2>2, <2>3 DEF GInv, QualityOK, Before
  <1>8. InvocationKnows'
    BY <1>1, <1>5 DEF GInv, InvocationKnows, Pipeline!Refused, Before, Pipeline!Working
  <1>9. QED BY <1>4, <1>6, <1>7, <1>8 DEF GInv

LEMMA RecordRefusalKeeps == ASSUME GInv, Pipeline!RecordRefusal PROVE GInv'
  <1>1. /\ UNCHANGED <<attemptG, failureG, qualityG, gradedG, sourceG, atG, targetG, stopsG>>
        /\ pcG' = "error" /\ stepG' = [stepG EXCEPT ![atG] = "failed"]
        /\ atG \in Pipeline!Asked /\ attemptG[atG] = "invalid" /\ Before(atG)
    BY DEF Pipeline!RecordRefusal, GInv, InvocationKnows, Pipeline!Working
  <1>2. atG \in Pipeline!Stage /\ atG \in Nat
    BY <1>1, StageNumbers
  <1>3. /\ stepG' \in [Pipeline!Stage -> {None, "completed", "failed"}]
        /\ stepG'[atG] = "failed"
        /\ \A s \in Pipeline!Stage : s # atG => stepG'[s] = stepG[s]
    BY <1>1, <1>2 DEF GInv, Pipeline!TypeOK
  <1>4. Pipeline!TypeOK'
    BY <1>1, <1>3 DEF GInv, Pipeline!TypeOK, Pipeline!Outcome
  <1>5. stepG[atG] # "completed"
    BY <1>1 DEF GInv, StagesOK
  <1>6. \A s \in Pipeline!Stage : Before(s) => Before(s)' 
    BY <1>2, <1>3, <1>5, StageNumbers DEF Before
  <1>7. \A s \in Pipeline!Asked \cup Pipeline!Graded : s \in Pipeline!Stage
    BY StageNumbers
  <1>8. StagesOK'
    BY <1>1, <1>2, <1>3, <1>6, <1>7 DEF GInv, StagesOK
  <1>9. QualityOK'
    BY <1>1, <1>2, <1>3, <1>6, <1>7 DEF GInv, QualityOK
  <1>10. InvocationKnows'
    BY <1>1 DEF InvocationKnows, Pipeline!Working
  <1>11. QED BY <1>4, <1>8, <1>9, <1>10 DEF GInv

LEMMA RecordQualityKeeps == ASSUME GInv, Pipeline!RecordQuality PROVE GInv'
  <1>1. /\ UNCHANGED <<attemptG, failureG, qualityG, sourceG, stepG, atG, targetG, stopsG>>
        /\ gradedG' = [gradedG EXCEPT ![atG] = IF Pipeline!Passes THEN "completed" ELSE "failed"]
        /\ pcG' = (IF Pipeline!Passes THEN "source" ELSE "error")
        /\ atG \in Pipeline!Graded /\ Pipeline!Sound /\ Before(atG) /\ ~ Pipeline!Refused
        /\ atG \in Pipeline!Asked => attemptG[atG] \in Pipeline!Answer
        /\ atG # Pipeline!Publish /\ atG <= targetG
    BY DEF Pipeline!RecordQuality, GInv, InvocationKnows, Pipeline!Working
  <1>2. /\ gradedG' \in [Pipeline!Graded -> {None, "completed", "failed"}]
        /\ gradedG'[atG] = IF Pipeline!Passes THEN "completed" ELSE "failed"
        /\ \A s \in Pipeline!Graded : s # atG => gradedG'[s] = gradedG[s]
    BY <1>1 DEF GInv, Pipeline!TypeOK
  <1>3. Pipeline!TypeOK'
    BY <1>1, <1>2 DEF GInv, Pipeline!TypeOK, Pipeline!Working, Pipeline!Outcome
  <1>4. CASE atG = Pipeline!Score
    <2>1. Pipeline!Passes <=> \A b \in Pipeline!Batch : attemptG[b] = "good"
      BY <1>4 DEF Pipeline!Passes
    <2>2. gradedG[atG] = "completed" => Pipeline!Passes
      BY <1>4, <2>1 DEF GInv, QualityOK
    <2>3. StagesOK' /\ QualityOK'
      BY <1>1, <1>2, <1>4, <2>1, <2>2 DEF GInv, StagesOK, QualityOK, Before
    <2>4. InvocationKnows'
      BY <1>1, <1>2, <1>4 DEF InvocationKnows, Pipeline!Working, Before, Pipeline!Refused, Pipeline!Sound
    <2>5. QED BY <1>3, <2>3, <2>4 DEF GInv
  <1>5. CASE atG # Pipeline!Score
    <2>1. atG \in Pipeline!Asked /\ atG \notin Pipeline!Batch
      BY <1>1, <1>5, StageNumbers
    <2>2. attemptG[atG] \in {"good", "poor"}
      BY <1>1, <1>5, <2>1 DEF Pipeline!Sound, Pipeline!Answer, GInv, StagesOK
    <2>3. Pipeline!Passes <=> attemptG[atG] = "good"
      BY <1>5, <2>2 DEF Pipeline!Passes
    <2>4. gradedG[atG] = "completed" => Pipeline!Passes
      BY <1>1, <1>5, <2>3 DEF GInv, QualityOK
    <2>5. StagesOK' /\ QualityOK'
      BY <1>1, <1>2, <1>5, <2>2, <2>3, <2>4 DEF GInv, StagesOK, QualityOK, Before
    <2>6. InvocationKnows'
      BY <1>1, <1>2, <1>5 DEF InvocationKnows, Pipeline!Working, Before, Pipeline!Refused, Pipeline!Sound
    <2>7. QED BY <1>3, <2>5, <2>6 DEF GInv
  <1>6. QED BY <1>4, <1>5

LEMMA SaveSourceKeeps == ASSUME GInv, Pipeline!SaveSource \/ Pipeline!PublishFiles PROVE GInv'
  <1>1. /\ UNCHANGED <<attemptG, failureG, qualityG, gradedG, stepG, atG, targetG, stopsG>>
        /\ sourceG' = sourceG \cup {atG} /\ pcG' = "step"
        /\ Before(atG) /\ ~ Pipeline!Refused /\ atG <= targetG
    BY DEF Pipeline!SaveSource, Pipeline!PublishFiles, GInv, InvocationKnows, Pipeline!Working
  <1>2. atG \in Pipeline!Asked => attemptG[atG] \in Pipeline!Answer \ {"invalid"}
    BY StageNumbers
       DEF Pipeline!SaveSource, Pipeline!PublishFiles, GInv, InvocationKnows, Pipeline!Working,
           Pipeline!Sound
  <1>3. atG \in Pipeline!Graded => gradedG[atG] = "completed"
    BY StageNumbers
       DEF Pipeline!SaveSource, Pipeline!PublishFiles, GInv, InvocationKnows, Pipeline!Working
  <1>4. Pipeline!TypeOK'
    BY <1>1 DEF GInv, Pipeline!TypeOK, Pipeline!Working
  <1>5. StagesOK' /\ QualityOK'
    BY <1>1 DEF GInv, StagesOK, QualityOK, Before
  <1>6. InvocationKnows'
    BY <1>1, <1>2, <1>3 DEF InvocationKnows, Pipeline!Working, Pipeline!Refused, Before
  <1>7. QED BY <1>4, <1>5, <1>6 DEF GInv

LEMMA RecordSourceKeeps == ASSUME GInv, Pipeline!RecordSource PROVE GInv'
  <1>1. /\ UNCHANGED <<attemptG, failureG, qualityG, gradedG, sourceG, targetG, stopsG>>
        /\ stepG' = [stepG EXCEPT ![atG] = "completed"] /\ Pipeline!AfterStage
        /\ Before(atG) /\ ~ Pipeline!Refused /\ atG <= targetG /\ atG \in sourceG
        /\ atG \in Pipeline!Asked => attemptG[atG] \in Pipeline!Answer \ {"invalid"}
        /\ atG \in Pipeline!Graded => gradedG[atG] = "completed"
    BY DEF Pipeline!RecordSource, GInv, InvocationKnows, Pipeline!Working
  <1>2. atG \in Pipeline!Stage /\ atG \in Nat /\ targetG \in Pipeline!Stage
    BY StageNumbers DEF GInv, Pipeline!TypeOK
  <1>3. /\ stepG' \in [Pipeline!Stage -> {None, "completed", "failed"}]
        /\ stepG'[atG] = "completed"
        /\ \A s \in Pipeline!Stage : s # atG => stepG'[s] = stepG[s]
    BY <1>1, <1>2 DEF GInv, Pipeline!TypeOK
  <1>4. \/ atG' = atG /\ pcG' \in {"completed", "stopped"}
        \/ atG' = atG + 1 /\ pcG' = "stage" /\ atG + 1 <= targetG /\ atG' \in Pipeline!Stage
    BY <1>1, <1>2, StageNumbers DEF Pipeline!AfterStage
  <1>5. Pipeline!TypeOK'
    BY <1>1, <1>2, <1>3, <1>4 DEF GInv, Pipeline!TypeOK, Pipeline!Working, Pipeline!Outcome
  <1>6. \A s \in Pipeline!Stage : Before(s) => Before(s)'
    BY <1>2, <1>3, StageNumbers DEF Before
  <1>7. \A s \in Pipeline!Asked \cup Pipeline!Graded : s \in Pipeline!Stage
    BY StageNumbers
  <1>8. StagesOK'
    BY <1>1, <1>2, <1>3, <1>6, <1>7 DEF GInv, StagesOK
  <1>9. QualityOK'
    BY <1>1, <1>2, <1>3, <1>6, <1>7 DEF GInv, QualityOK
  <1>10. InvocationKnows'
    <2>1. pcG' = "stage" => Before(atG)'
      BY <1>1, <1>2, <1>3, <1>4, StageNumbers DEF Before
    <2>2. ~ Pipeline!Refused'
      BY <1>1, <1>2, <1>3 DEF Pipeline!Refused
    <2>3. QED BY <1>1, <1>4, <2>1, <2>2 DEF InvocationKnows, Pipeline!Working
  <1>11. QED BY <1>5, <1>8, <1>9, <1>10 DEF GInv

LEMMA PipelineRests == ASSUME GInv, UNCHANGED pipeline PROVE GInv'
  <1>1. /\ UNCHANGED <<attemptG, failureG, qualityG, gradedG, sourceG, stepG>>
        /\ UNCHANGED <<pcG, atG, targetG, stopsG>>
    BY DEF pipeline
  <1>2. InvocationKnows'
    BY <1>1 DEF GInv, InvocationKnows, Before, Pipeline!Refused, Pipeline!Sound
  <1>3. Pipeline!TypeOK'
    BY <1>1 DEF GInv, Pipeline!TypeOK
  <1>4. QED BY <1>1, <1>2, <1>3, StagesRest DEF GInv

LEMMA PipelineKeeps == ASSUME GInv, Pipeline!Next PROVE GInv'
  BY MoveKeeps, AttemptKeeps, RecordRefusalKeeps, RecordQualityKeeps, SaveSourceKeeps,
     RecordSourceKeeps DEF Pipeline!Next, Pipeline!Work

-----------------------------------------------------------------------------
LEMMA PipelinePublishesGood == GInv => Pipeline!PublishedIsGood
  <1> SUFFICES ASSUME GInv, stepG[Pipeline!Publish] = "completed"
               PROVE  /\ \A s \in Pipeline!Asked : attemptG[s] = "good"
                      /\ sourceG = Pipeline!Stage
    BY DEF Pipeline!PublishedIsGood
  <1>1. \A s \in Pipeline!Stage : stepG[s] = "completed"
    <2>1. Before(Pipeline!Publish)
      BY StageNumbers, StepAssumption DEF GInv, StagesOK
    <2>2. \A s \in Pipeline!Stage : s = Pipeline!Publish \/ s \in 1..(Pipeline!Publish - 1)
      BY StageNumbers
    <2>3. QED BY <2>1, <2>2 DEF Before
  <1>2. \A s \in Pipeline!Graded : s \in Pipeline!Stage /\ gradedG[s] = "completed"
    BY <1>1, StageNumbers DEF GInv, QualityOK
  <1>3. ASSUME NEW s \in Pipeline!Asked PROVE attemptG[s] = "good"
    <2>1. s \in Pipeline!Batch \/ (s \in Pipeline!Graded /\ s # Pipeline!Score)
      BY StageNumbers
    <2>2. Pipeline!Score \in Pipeline!Graded
      BY StageNumbers
    <2>3. QED BY <1>2, <2>1, <2>2 DEF GInv, QualityOK
  <1>4. sourceG = Pipeline!Stage
    BY <1>1 DEF GInv, StagesOK, Pipeline!TypeOK
  <1>5. QED BY <1>3, <1>4

LEMMA PipelineAsksInOrder == GInv => Pipeline!AskedInOrder
  <1> SUFFICES ASSUME GInv, NEW s \in Pipeline!Asked, attemptG[s] # None
               PROVE  /\ \A r \in 1..(s - 1) : stepG[r] = "completed"
                      /\ \A r \in Pipeline!Graded : r < s => gradedG[r] = "completed"
    BY DEF Pipeline!AskedInOrder
  <1>1. Before(s)
    BY DEF GInv, StagesOK
  <1>2. \A r \in Pipeline!Graded : r < s => r \in 1..(s - 1)
    BY StageNumbers
  <1>3. QED BY <1>1, <1>2 DEF Before, GInv, QualityOK

LEMMA RefusedStays ==
    ASSUME GInv, Pipeline!Next, Pipeline!Refused PROVE UNCHANGED Pipeline!saved
  <1>1. pcG \notin Pipeline!Working
    BY DEF GInv, InvocationKnows
  <1>2. Pipeline!Invoke
    BY <1>1
       DEF Pipeline!Next, Pipeline!Stop, Pipeline!Work, Pipeline!Working, Pipeline!Reserve,
           Pipeline!AttemptEnds, Pipeline!NoAnswer, Pipeline!HasSource, Pipeline!Refuse,
           Pipeline!RecordRefusal, Pipeline!Accept, Pipeline!SaveQuality,
           Pipeline!RecordQuality, Pipeline!SaveSource, Pipeline!RecordSource,
           Pipeline!PublishFiles, Pipeline!AlreadyPublished
  <1>3. QED BY <1>2 DEF Pipeline!Invoke

-----------------------------------------------------------------------------
(* Where the records of a stage begin in the ledger.                       *)
First(s) ==
    IF s = Pipeline!Plan THEN 1
    ELSE IF s \in Pipeline!Batch THEN s + 1
    ELSE IF s = Pipeline!Score THEN Batches + 3
    ELSE IF s = Pipeline!Performance THEN Batches + 5 ELSE Batches + 7

(* What the ledger of a run has at the places of each stage.               *)
LedgerFits ==
    /\ Pipeline!LedgerSteps = Batches + 7
    /\ Pipeline!Ledger = [i \in 1..(Batches + 7) |-> Pipeline!Ledger[i]]
    /\ \A s \in Pipeline!Stage :
          /\ s \in Pipeline!Graded =>
                /\ Pipeline!Ledger[First(s)] = Pipeline!GradeOf(s)
                /\ Pipeline!Ledger[First(s) + 1] = Pipeline!StepOf(s)
          /\ s \notin Pipeline!Graded => Pipeline!Ledger[First(s)] = Pipeline!StepOf(s)

LEMMA LedgerHas == LedgerFits
  <1>1. Pipeline!LedgerSteps = Batches + 7
    BY StageNumbers DEF Pipeline!LedgerSteps
  <1>2. Pipeline!Ledger = [i \in 1..(Batches + 7) |-> Pipeline!Ledger[i]]
    BY <1>1 DEF Pipeline!Ledger
  <1>3. \A s \in Pipeline!Stage :
          /\ s \in Pipeline!Graded =>
                /\ Pipeline!Ledger[First(s)] = Pipeline!GradeOf(s)
                /\ Pipeline!Ledger[First(s) + 1] = Pipeline!StepOf(s)
          /\ s \notin Pipeline!Graded => Pipeline!Ledger[First(s)] = Pipeline!StepOf(s)
    <2> SUFFICES ASSUME NEW s \in Pipeline!Stage
                 PROVE  /\ s \in Pipeline!Graded =>
                              /\ Pipeline!Ledger[First(s)] = Pipeline!GradeOf(s)
                              /\ Pipeline!Ledger[First(s) + 1] = Pipeline!StepOf(s)
                        /\ s \notin Pipeline!Graded => Pipeline!Ledger[First(s)] = Pipeline!StepOf(s)
      OBVIOUS
    <2>1. CASE s \in Pipeline!Batch
      <3>1. First(s) = s + 1 /\ s + 1 \in 2..(Batches + 2) /\ (s + 1) - 1 = s
            /\ s + 1 # 1 /\ s \notin Pipeline!Graded
        BY <2>1, StageNumbers DEF First
      <3>2. QED BY <1>1, <3>1, StageNumbers DEF Pipeline!Ledger
    <2>2. CASE s = Pipeline!Plan
      BY <1>1, <2>2, StageNumbers DEF First, Pipeline!Ledger
    <2>3. CASE s = Pipeline!Score
      BY <1>1, <2>3, StageNumbers DEF First, Pipeline!Ledger
    <2>4. CASE s = Pipeline!Performance
      BY <1>1, <2>4, StageNumbers DEF First, Pipeline!Ledger
    <2>5. CASE s = Pipeline!Publish
      BY <1>1, <2>5, StageNumbers DEF First, Pipeline!Ledger
    <2>6. QED BY <2>1, <2>2, <2>3, <2>4, <2>5, StageNumbers
  <1>4. QED BY <1>1, <1>2, <1>3 DEF LedgerFits

(* The places of two stages are apart, in the order of the stages.         *)
LEMMA Places ==
    /\ \A s \in Pipeline!Stage :
          First(s) \in 1..(Batches + 7) /\ (s \in Pipeline!Graded => First(s) + 1 \in 1..(Batches + 7))
    /\ \A r, s \in Pipeline!Stage :
          r < s => First(r) < First(s) /\ (r \in Pipeline!Graded => First(r) + 1 < First(s))
    /\ \A i \in 1..(Batches + 7) :
          \E s \in Pipeline!Stage : i = First(s) \/ (s \in Pipeline!Graded /\ i = First(s) + 1)
  <1>1. \A s \in Pipeline!Stage :
          First(s) \in 1..(Batches + 7) /\ (s \in Pipeline!Graded => First(s) + 1 \in 1..(Batches + 7))
    BY StageNumbers DEF First
  <1>2. \A r, s \in Pipeline!Stage :
          r < s => First(r) < First(s) /\ (r \in Pipeline!Graded => First(r) + 1 < First(s))
    BY StageNumbers DEF First
  <1>3. ASSUME NEW i \in 1..(Batches + 7)
        PROVE  \E s \in Pipeline!Stage :
                  i = First(s) \/ (s \in Pipeline!Graded /\ i = First(s) + 1)
    <2>1. CASE i \in {1, 2}
      BY <2>1, StageNumbers DEF First
    <2>2. CASE i \in 3..(Batches + 2)
      <3>1. i - 1 \in Pipeline!Stage /\ First(i - 1) = i
        BY <2>2, StageNumbers DEF First
      <3>2. QED BY <3>1
    <2>3. CASE i \in {Batches + 3, Batches + 4}
      <3>1. Pipeline!Score \in Pipeline!Stage /\ First(Pipeline!Score) = Batches + 3
        BY StageNumbers DEF First
      <3>2. QED BY <2>3, <3>1, StageNumbers
    <2>4. CASE i \in {Batches + 5, Batches + 6}
      <3>1. Pipeline!Performance \in Pipeline!Stage /\ First(Pipeline!Performance) = Batches + 5
        BY StageNumbers DEF First
      <3>2. QED BY <2>4, <3>1, StageNumbers
    <2>5. CASE i = Batches + 7
      <3>1. Pipeline!Publish \in Pipeline!Stage /\ First(Pipeline!Publish) = Batches + 7
        BY StageNumbers DEF First
      <3>2. QED BY <2>5, <3>1
    <2>6. QED BY <2>1, <2>2, <2>3, <2>4, <2>5, StageNumbers
  <1>4. QED BY <1>1, <1>2, <1>3

(* The ledger is complete up to a stage that an invocation has come to.    *)
LEMMA LedgerReaches ==
    ASSUME GInv, NEW s \in Pipeline!Stage, Before(s)
    PROVE  \A j \in 1..(First(s) - 1) : Pipeline!Ledger[j] = "completed"
  <1> SUFFICES ASSUME NEW j \in 1..(First(s) - 1) PROVE Pipeline!Ledger[j] = "completed"
    OBVIOUS
  <1>1. First(s) \in 1..(Batches + 7) /\ s \in Nat /\ \A r \in Pipeline!Stage : First(r) \in Nat /\ r \in Nat
    BY Places, StageNumbers
  <1>2. PICK r \in Pipeline!Stage :
            j = First(r) \/ (r \in Pipeline!Graded /\ j = First(r) + 1)
    <2>1. j \in 1..(Batches + 7)
      BY <1>1, StageNumbers
    <2>2. QED BY <2>1, Places
  <1>3. r < s
    <2>1. r = s \/ r < s \/ s < r
      BY <1>1
    <2>2. s < r => First(s) < First(r)
      BY Places
    <2>3. QED BY <1>1, <1>2, <2>1, <2>2
  <1>4. stepG[r] = "completed"
    BY <1>3, StageNumbers DEF Before
  <1>5. r \in Pipeline!Graded => gradedG[r] = "completed"
    BY <1>4 DEF GInv, QualityOK
  <1>6. Pipeline!StepOf(r) = "completed"
    BY <1>4 DEF Pipeline!StepOf
  <1>7. r \in Pipeline!Graded => Pipeline!GradeOf(r) = "completed"
    BY <1>4, <1>5 DEF Pipeline!GradeOf
  <1>8. QED BY <1>2, <1>6, <1>7, LedgerHas DEF LedgerFits

(* Recording at one place of a stage changes the ledger at that place.     *)
LEMMA LedgerMoves ==
    ASSUME NEW s \in Pipeline!Stage, NEW i \in 1..(Batches + 7), NEW status,
           \/ i = First(s) /\ (s \in Pipeline!Graded => Pipeline!StepOf(s)' = Pipeline!StepOf(s))
           \/ i = First(s) + 1 /\ s \in Pipeline!Graded /\ Pipeline!GradeOf(s)' = Pipeline!GradeOf(s),
           Pipeline!Ledger[i]' = status,
           \A r \in Pipeline!Stage \ {s} :
              stepG'[r] = stepG[r] /\ (r \in Pipeline!Graded => gradedG'[r] = gradedG[r])
    PROVE  Pipeline!Ledger' = [Pipeline!Ledger EXCEPT ![i] = status]
  <1>1. LedgerFits /\ LedgerFits'
    BY LedgerHas, PTL
  <1>2. \A r \in Pipeline!Stage \ {s} :
            /\ Pipeline!StepOf(r)' = Pipeline!StepOf(r)
            /\ r \in Pipeline!Graded => Pipeline!GradeOf(r)' = Pipeline!GradeOf(r)
    BY DEF Pipeline!StepOf, Pipeline!GradeOf
  <1>3. \A j \in 1..(Batches + 7) : j # i => Pipeline!Ledger'[j] = Pipeline!Ledger[j]
    <2> SUFFICES ASSUME NEW j \in 1..(Batches + 7), j # i
                 PROVE  Pipeline!Ledger'[j] = Pipeline!Ledger[j]
      OBVIOUS
    <2>1. PICK r \in Pipeline!Stage :
              j = First(r) \/ (r \in Pipeline!Graded /\ j = First(r) + 1)
      BY Places
    <2>2. /\ r \in Pipeline!Graded => Pipeline!Ledger[First(r)] = Pipeline!GradeOf(r)
          /\ r \in Pipeline!Graded => Pipeline!Ledger'[First(r)] = Pipeline!GradeOf(r)'
          /\ r \in Pipeline!Graded => Pipeline!Ledger[First(r) + 1] = Pipeline!StepOf(r)
          /\ r \in Pipeline!Graded => Pipeline!Ledger'[First(r) + 1] = Pipeline!StepOf(r)'
          /\ r \notin Pipeline!Graded => Pipeline!Ledger[First(r)] = Pipeline!StepOf(r)
          /\ r \notin Pipeline!Graded => Pipeline!Ledger'[First(r)] = Pipeline!StepOf(r)'
      BY <1>1 DEF LedgerFits
    <2>3. CASE r # s
      BY <1>2, <2>1, <2>2, <2>3
    <2>4. CASE r = s
      <3>1. s \in Pipeline!Graded
        BY <2>1, <2>4
      <3>2. CASE j = First(s)
        BY <2>2, <2>4, <3>1, <3>2
      <3>3. CASE j = First(s) + 1
        BY <2>2, <2>4, <3>1, <3>3
      <3>4. QED BY <2>1, <2>4, <3>2, <3>3
    <2>5. QED BY <2>3, <2>4
  <1>4. Pipeline!Ledger = [j \in 1..(Batches + 7) |-> Pipeline!Ledger[j]]
    BY <1>1 DEF LedgerFits
  <1>5. Pipeline!Ledger' = [j \in 1..(Batches + 7) |-> Pipeline!Ledger'[j]]
    BY <1>1 DEF LedgerFits
  <1>6. QED BY <1>3, <1>4, <1>5

LEMMA LedgerStays ==
    ASSUME UNCHANGED <<gradedG, stepG>> PROVE UNCHANGED Pipeline!Ledger
  BY DEF Pipeline!Ledger, Pipeline!GradeOf, Pipeline!StepOf

(* So every recording of the pipeline is one of a staged run.              *)
LEMMA LedgerRecords ==
    ASSUME GInv, NEW s \in Pipeline!Stage, Before(s),
           NEW i \in 1..(Batches + 7), NEW status \in {"completed", "failed"},
           i = First(s) \/ (i = First(s) + 1 /\ s \in Pipeline!Graded
                              /\ Pipeline!GradeOf(s) = "completed"),
           Pipeline!Ledger[i] = None,
           Pipeline!Ledger' = [Pipeline!Ledger EXCEPT ![i] = status]
    PROVE  Pipeline!AbstractLedger!Next
  <1>1. \A j \in 1..(i - 1) : Pipeline!Ledger[j] = "completed"
    <2>1. \A j \in 1..(First(s) - 1) : Pipeline!Ledger[j] = "completed"
      BY LedgerReaches
    <2>2. First(s) \in Nat
      BY Places
    <2>3. ASSUME i # First(s) PROVE Pipeline!Ledger[First(s)] = "completed"
      BY <2>3, LedgerHas DEF LedgerFits
    <2>4. QED BY <2>1, <2>2, <2>3
  <1>2. Pipeline!AbstractLedger!RecordStep(i, status)
    BY <1>1 DEF Pipeline!AbstractLedger!RecordStep, Pipeline!AbstractLedger!Reached
  <1>3. i \in 1..Pipeline!LedgerSteps
    BY LedgerHas DEF LedgerFits
  <1>4. QED BY <1>2, <1>3 DEF Pipeline!AbstractLedger!Next

LEMMA RefusalIsRecorded ==
    ASSUME GInv, Pipeline!RecordRefusal PROVE Pipeline!AbstractLedger!Next
  <1>1. /\ gradedG' = gradedG /\ stepG' = [stepG EXCEPT ![atG] = "failed"]
        /\ atG \in Pipeline!Asked /\ attemptG[atG] = "invalid" /\ Before(atG)
        /\ ~ Pipeline!Refused
    BY DEF Pipeline!RecordRefusal, GInv, InvocationKnows, Pipeline!Working
  <1>2. atG \in Pipeline!Stage /\ (atG \in Pipeline!Graded => atG # Pipeline!Score)
    BY <1>1, StageNumbers
  <1>3. stepG[atG] = None
    BY <1>1, <1>2 DEF GInv, StagesOK, Pipeline!TypeOK, Pipeline!Refused
  <1>4. atG \in Pipeline!Graded => gradedG[atG] = None
    BY <1>1, <1>2 DEF GInv, QualityOK, Pipeline!TypeOK
  <1>5. /\ stepG'[atG] = "failed"
        /\ \A r \in Pipeline!Stage \ {atG} : stepG'[r] = stepG[r]
    BY <1>1, <1>2 DEF GInv, Pipeline!TypeOK
  <1>6. DEFINE i == First(atG)
  <1>7. i \in 1..(Batches + 7)
    BY <1>2, Places
  <1>8. LedgerFits /\ LedgerFits'
    BY LedgerHas, PTL
  <1>9. /\ atG \in Pipeline!Graded =>
              /\ Pipeline!Ledger[i] = Pipeline!GradeOf(atG)
              /\ Pipeline!Ledger'[i] = (IF stepG'[atG] = "failed" THEN "failed" ELSE gradedG'[atG])
        /\ atG \notin Pipeline!Graded =>
              /\ Pipeline!Ledger[i] = Pipeline!StepOf(atG)
              /\ Pipeline!Ledger'[i] = stepG'[atG]
    BY <1>2, <1>8 DEF LedgerFits, Pipeline!GradeOf, Pipeline!StepOf
  <1>10. Pipeline!Ledger[i] = None /\ Pipeline!Ledger'[i] = "failed"
    BY <1>3, <1>4, <1>5, <1>9, StepAssumption, RecordAssumption
       DEF Pipeline!GradeOf, Pipeline!StepOf, Terminal
  <1>11. atG \in Pipeline!Graded =>
            Pipeline!StepOf(atG) = None /\ (IF atG \in Pipeline!Graded /\ stepG'[atG] = "failed" THEN None ELSE stepG'[atG]) = None
    BY <1>3, <1>5 DEF Pipeline!StepOf
  <1>12. Pipeline!Ledger' = [Pipeline!Ledger EXCEPT ![i] = "failed"]
    BY <1>1, <1>2, <1>5, <1>7, <1>10, <1>11, LedgerMoves DEF Pipeline!StepOf
  <1>13. QED BY <1>1, <1>2, <1>7, <1>10, <1>12, LedgerRecords

LEMMA QualityIsRecorded ==
    ASSUME GInv, Pipeline!RecordQuality
    PROVE  Pipeline!AbstractLedger!Next \/ UNCHANGED Pipeline!Ledger
  <1>1. /\ stepG' = stepG /\ Pipeline!Sound /\ Before(atG) /\ ~ Pipeline!Refused
        /\ gradedG' = [gradedG EXCEPT ![atG] = IF Pipeline!Passes THEN "completed" ELSE "failed"]
        /\ atG \in Pipeline!Graded
    BY DEF Pipeline!RecordQuality, GInv, InvocationKnows, Pipeline!Working
  <1>2. atG \in Pipeline!Stage
    BY <1>1, StageNumbers
  <1>3. stepG[atG] # "failed" /\ gradedG[atG] # "failed"
    BY <1>1, <1>2 DEF Pipeline!Refused
  <1>4. CASE gradedG[atG] = "completed"
    <2>1. Pipeline!Passes
      BY <1>1, <1>4 DEF GInv, QualityOK, Pipeline!Passes
    <2>2. gradedG' = gradedG
      BY <1>1, <1>4, <2>1 DEF GInv, Pipeline!TypeOK
    <2>3. QED BY <1>1, <2>2, LedgerStays
  <1>5. CASE gradedG[atG] = None
    <2> DEFINE i == First(atG)
    <2>1. PICK status \in {"completed", "failed"} : gradedG' = [gradedG EXCEPT ![atG] = status]
      BY <1>1
    <2>2. /\ gradedG'[atG] = status
          /\ \A r \in Pipeline!Graded \ {atG} : gradedG'[r] = gradedG[r]
      BY <1>1, <2>1 DEF GInv, Pipeline!TypeOK
    <2>3. i \in 1..(Batches + 7)
      BY <1>2, Places
    <2>4. LedgerFits /\ LedgerFits'
      BY LedgerHas, PTL
    <2>5. /\ Pipeline!Ledger[i] = Pipeline!GradeOf(atG)
          /\ Pipeline!Ledger'[i] = (IF stepG'[atG] = "failed" THEN "failed" ELSE gradedG'[atG])
      BY <1>1, <1>2, <2>4 DEF LedgerFits, Pipeline!GradeOf
    <2>6. Pipeline!Ledger[i] = None /\ Pipeline!Ledger'[i] = status
      BY <1>1, <1>3, <1>5, <2>2, <2>5 DEF Pipeline!GradeOf
    <2>7. (IF atG \in Pipeline!Graded /\ stepG'[atG] = "failed" THEN None ELSE stepG'[atG])
              = Pipeline!StepOf(atG)
      BY <1>1 DEF Pipeline!StepOf
    <2>8. Pipeline!Ledger' = [Pipeline!Ledger EXCEPT ![i] = status]
      BY <1>1, <1>2, <2>2, <2>3, <2>6, <2>7, LedgerMoves DEF Pipeline!StepOf
    <2>9. QED BY <1>1, <1>2, <2>3, <2>6, <2>8, LedgerRecords
  <1>6. QED BY <1>1, <1>3, <1>4, <1>5 DEF GInv, Pipeline!TypeOK

LEMMA SourceIsRecorded ==
    ASSUME GInv, Pipeline!RecordSource
    PROVE  Pipeline!AbstractLedger!Next \/ UNCHANGED Pipeline!Ledger
  <1>1. /\ gradedG' = gradedG /\ stepG' = [stepG EXCEPT ![atG] = "completed"]
        /\ Before(atG) /\ ~ Pipeline!Refused /\ atG \in Pipeline!Stage
        /\ atG \in Pipeline!Graded => gradedG[atG] = "completed"
    BY DEF Pipeline!RecordSource, GInv, InvocationKnows, Pipeline!Working, Pipeline!TypeOK
  <1>2. stepG[atG] # "failed"
    BY <1>1 DEF Pipeline!Refused
  <1>3. CASE stepG[atG] = "completed"
    <2>1. stepG' = stepG
      BY <1>1, <1>3 DEF GInv, Pipeline!TypeOK
    <2>2. QED BY <1>1, <2>1, LedgerStays
  <1>4. CASE stepG[atG] = None
    <2> DEFINE i == IF atG \in Pipeline!Graded THEN First(atG) + 1 ELSE First(atG)
    <2>1. /\ stepG'[atG] = "completed"
          /\ \A r \in Pipeline!Stage \ {atG} : stepG'[r] = stepG[r]
      BY <1>1 DEF GInv, Pipeline!TypeOK
    <2>2. i \in 1..(Batches + 7)
      BY <1>1, Places
    <2>3. LedgerFits /\ LedgerFits'
      BY LedgerHas, PTL
    <2>4. /\ Pipeline!Ledger[i] = Pipeline!StepOf(atG)
          /\ Pipeline!Ledger'[i]
                = IF atG \in Pipeline!Graded /\ stepG'[atG] = "failed" THEN None ELSE stepG'[atG]
      BY <1>1, <2>3 DEF LedgerFits, Pipeline!StepOf
    <2>5. Pipeline!Ledger[i] = None /\ Pipeline!Ledger'[i] = "completed"
      BY <1>2, <1>4, <2>1, <2>4 DEF Pipeline!StepOf
    <2>6. atG \in Pipeline!Graded =>
            /\ Pipeline!GradeOf(atG) = "completed"
            /\ (IF stepG'[atG] = "failed" THEN "failed" ELSE gradedG'[atG]) = "completed"
      BY <1>1, <1>2, <2>1 DEF Pipeline!GradeOf
    <2>7. Pipeline!Ledger' = [Pipeline!Ledger EXCEPT ![i] = "completed"]
      BY <1>1, <2>1, <2>2, <2>5, <2>6, LedgerMoves DEF Pipeline!GradeOf
    <2>8. QED BY <1>1, <2>2, <2>5, <2>6, <2>7, LedgerRecords
  <1>5. QED BY <1>1, <1>2, <1>3, <1>4 DEF GInv, Pipeline!TypeOK

LEMMA LedgerBegins == ASSUME Pipeline!Init PROVE Pipeline!AbstractLedger!Init
  <1>1. \A s \in Pipeline!Stage :
            Pipeline!StepOf(s) = None /\ (s \in Pipeline!Graded => Pipeline!GradeOf(s) = None)
    BY StepAssumption, RecordAssumption
       DEF Pipeline!Init, Pipeline!StepOf, Pipeline!GradeOf, Terminal
  <1>2. \A i \in 1..(Batches + 7) : Pipeline!Ledger[i] = None
    BY <1>1, LedgerHas, Places DEF LedgerFits
  <1>3. QED BY <1>2, LedgerHas DEF LedgerFits, Pipeline!AbstractLedger!Init

LEMMA LedgerGoesOn ==
    ASSUME GInv, Pipeline!Next \/ UNCHANGED pipeline
    PROVE  [Pipeline!AbstractLedger!Next]_(Pipeline!AbstractLedger!vars)
  <1>1. (\/ Pipeline!Invoke \/ Pipeline!Stop \/ Pipeline!NoAnswer \/ Pipeline!HasSource
        \/ Pipeline!Refuse \/ Pipeline!Accept \/ Pipeline!SaveQuality
        \/ Pipeline!AlreadyPublished \/ Pipeline!Reserve \/ Pipeline!AttemptEnds
        \/ Pipeline!SaveSource \/ Pipeline!PublishFiles \/ UNCHANGED pipeline)
            => UNCHANGED Pipeline!Ledger
    <2>1. (\/ Pipeline!Invoke \/ Pipeline!Stop \/ Pipeline!NoAnswer \/ Pipeline!HasSource
        \/ Pipeline!Refuse \/ Pipeline!Accept \/ Pipeline!SaveQuality
        \/ Pipeline!AlreadyPublished \/ Pipeline!Reserve \/ Pipeline!AttemptEnds
        \/ Pipeline!SaveSource \/ Pipeline!PublishFiles \/ UNCHANGED pipeline)
            => UNCHANGED <<gradedG, stepG>>
      BY DEF Pipeline!Invoke, Pipeline!Stop, Pipeline!NoAnswer, Pipeline!HasSource,
             Pipeline!Refuse, Pipeline!Accept, Pipeline!SaveQuality, Pipeline!AlreadyPublished,
             Pipeline!Reserve, Pipeline!AttemptEnds, Pipeline!SaveSource,
             Pipeline!PublishFiles, Pipeline!saved, pipeline
    <2>2. QED BY <2>1, LedgerStays
  <1>2. Pipeline!AbstractLedger!Next \/ UNCHANGED Pipeline!Ledger
    BY <1>1, RefusalIsRecorded, QualityIsRecorded, SourceIsRecorded
       DEF Pipeline!Next, Pipeline!Work
  <1>3. QED BY <1>2 DEF Pipeline!AbstractLedger!vars

-----------------------------------------------------------------------------
(* One run of the three moves, and the others rest.                        *)
LEMMA AnyRunMoves ==
    ASSUME [RunCall \/ RunPilot \/ RunPipeline]_runs
    PROVE  /\ [Next]_vars
           /\ Pilot!Next \/ UNCHANGED pilot
           /\ Pipeline!Next \/ UNCHANGED pipeline
  BY DEF RunCall, RunPilot, RunPipeline, runs

(* What is known of each of the runs holds of all their behaviours.        *)
LEMMA CallInvariant == RunsSpec => []CInv
  <1>1. RunsInit => CInv
    BY CInitOK DEF RunsInit
  <1>2. CInv /\ [RunCall \/ RunPilot \/ RunPipeline]_runs => CInv'
    BY AnyRunMoves, CallKeeps
  <1>3. QED BY <1>1, <1>2, PTL DEF RunsSpec

LEMMA PilotInvariant == RunsSpec => [](PInv /\ DInv)
  <1>1. RunsInit => PInv /\ DInv
    BY PilotInitKeeps, PilotInitRepeats DEF RunsInit
  <1>2. PInv /\ DInv /\ [RunCall \/ RunPilot \/ RunPipeline]_runs => (PInv /\ DInv)'
    BY AnyRunMoves, PilotKeeps, PilotRepeats, PilotStays, PilotRests
  <1>3. QED BY <1>1, <1>2, PTL DEF RunsSpec

LEMMA PipelineInvariant == RunsSpec => []GInv
  <1>1. RunsInit => GInv
    BY PipelineInitKeeps DEF RunsInit
  <1>2. GInv /\ [RunCall \/ RunPilot \/ RunPipeline]_runs => GInv'
    BY AnyRunMoves, PipelineKeeps, PipelineRests
  <1>3. QED BY <1>1, <1>2, PTL DEF RunsSpec

(* However many processes invoke a step, with whatever requests, stopped   *)
(* anywhere and beside a program that goes on writing: the model is asked  *)
(* once, the canonical answer stands on an unambiguous end of its turn,    *)
(* and all callers are told the same.                                      *)
THEOREM CallBacked == RunsSpec => []CallIsBacked
  <1>1. CInv => CallIsBacked
    <2>1. CInv => TypeOK /\ AskedOnce /\ ResponseIsBacked
      BY DEF CInv, TypeOK, EndOK, AskedOnce, ResponseIsBacked
    <2>2. CInv => AnswerIsTold
      BY RecordAssumption DEF CInv, TypeOK, EndOK, Told, AnswerIsTold
    <2>3. CInv => RepliesAgree
      BY RecordAssumption DEF CInv, EndOK, Told, RepliesAgree, Terminal
    <2>4. QED BY <2>1, <2>2, <2>3 DEF CallIsBacked
  <1>2. QED BY <1>1, CallInvariant, PTL

(* However many candidates a loop has and however often it is replayed: if *)
(* storage was never wanting a replay agrees with the records, and what is *)
(* recorded as published passed every check it had to.  However many       *)
(* batches a pipeline has and however often it is stopped: the model is    *)
(* asked about a stage once all before it were found good, and what is     *)
(* published rests on them all.                                            *)
THEOREM LoopsAreSound == RunsSpec => []LoopsHold
  <1>1. PInv /\ DInv => Pilot!TypeOK /\ Pilot!ReplayAgrees /\ Pilot!FinalIsBest
    BY PublishedIsBest DEF PInv, PilotTyped, DInv, Repeats, Pilot!ReplayAgrees
  <1>2. GInv => Pipeline!TypeOK /\ Pipeline!PublishedIsGood /\ Pipeline!AskedInOrder
    BY PipelinePublishesGood, PipelineAsksInOrder DEF GInv
  <1>3. PInv /\ DInv /\ GInv => LoopsHold
    BY <1>1, <1>2 DEF LoopsHold
  <1>4. QED BY <1>3, PilotInvariant, PipelineInvariant, PTL

(* What a pilot loop has published stays in place through every replay for *)
(* whose revision storage was not wanting; a pipeline with a recorded      *)
(* failure changes nothing any more; and the records of a pipeline, read   *)
(* as a ledger, are those of a staged run (StepLedger).                    *)
THEOREM EndedStay == RunsSpec => EndedRunsStay
  <1>1. PInv /\ [RunCall \/ RunPilot \/ RunPipeline]_runs
            => [Published # None /\ Pilot!Revise \notin wantingP' => UNCHANGED finalP]_(Pilot!vars)
    BY AnyRunMoves, PilotKeeps DEF pilot, Pilot!vars
  <1>2. GInv /\ [RunCall \/ RunPilot \/ RunPipeline]_runs
            => [Pipeline!Refused => UNCHANGED Pipeline!saved]_(Pipeline!vars)
    BY AnyRunMoves, RefusedStays DEF pipeline, Pipeline!vars, Pipeline!saved
  <1>3. RunsInit => Pipeline!AbstractLedger!Init
    BY LedgerBegins DEF RunsInit
  <1>4. GInv /\ [RunCall \/ RunPilot \/ RunPipeline]_runs
            => [Pipeline!AbstractLedger!Next]_(Pipeline!AbstractLedger!vars)
    BY AnyRunMoves, LedgerGoesOn
  <1>5. RunsSpec => Pilot!PublishedIsFinal
    BY <1>1, PilotInvariant, PTL DEF RunsSpec, Pilot!PublishedIsFinal, Published
  <1>6. RunsSpec => Pipeline!RefusedIsFinal
    BY <1>2, PipelineInvariant, PTL DEF RunsSpec, Pipeline!RefusedIsFinal
  <1>7. RunsSpec => Pipeline!KeepsLedgerPromise
    BY <1>3, <1>4, PipelineInvariant, PTL
       DEF RunsSpec, Pipeline!KeepsLedgerPromise, Pipeline!AbstractLedger!Spec
  <1>8. QED BY <1>5, <1>6, <1>7 DEF EndedRunsStay
=============================================================================
