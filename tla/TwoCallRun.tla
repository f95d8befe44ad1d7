----------------------------- MODULE TwoCallRun -----------------------------
(***************************************************************************)
(* The runs that ask a model for a whole document, once or twice, in a     *)
(* directory of their own: the draft of a flow, whose second answer        *)
(* replaces single values of the first (flow_proposal), and the first      *)
(* compilation of a script, whose second answer replaces all of it         *)
(* (script_compilation).  A directory is tested once, nothing is locked,   *)
(* and no run is taken up again; every file in it is written once          *)
(* (RunStore), and who would write another ends with an exception.         *)
(***************************************************************************)
EXTENDS Naturals, Sequences

CONSTANTS
    Process,
    None

Place == {"title", "scene"}         \* the values of a response that may be wrong
Value == {"p", "q", "bad"}

(* A response with wrong values, or wrong otherwise ("shapeless"); or bytes*)
(* that do not decode, or no answer.                                       *)
Shapeless == [no |-> "object"]
Junk == [no |-> "text"]
Failure == [no |-> "answer"]

Response == [Place -> Value] \cup {Shapeless, Junk, Failure}

Replacements == UNION {[places -> Value] : places \in SUBSET Place}

Ticket == [source : Response, paths : SUBSET Place]

Final == [status : {"completed", "failed"}, content : Response \cup Replacements \cup {None}]

VARIABLES
    document,       \* "flow" or "script"
    attempts,       \* the answer of each attempt, None before it is there
    ticket,         \* repairs/: what may be repaired
    record, draft,  \* outputs/: of a script, the answers; the document
    final,          \* steps/publish-final.json
    entered,        \* the processes that found no directory
    step, number,   \* of each process: its step, the attempt it is at,
    first, second   \* and the answers it has

run == <<document, attempts, ticket, record, draft, final, entered, step, number, first, second>>

RunFiles == <<attempts, ticket, record, draft, final>>

TwoCallInit ==
    /\ document \in {"flow", "script"}
    /\ attempts = <<>>
    /\ ticket = None /\ record = None /\ draft = None /\ final = None
    /\ entered = {}
    /\ step = [e \in Process |-> "idle"]
    /\ number = [e \in Process |-> 0]
    /\ first = [e \in Process |-> None]
    /\ second = [e \in Process |-> None]

-----------------------------------------------------------------------------
Errors(r) == {p \in Place : r[p] = "bad"}

IsObject(r) == r \in [Place -> Value]

(* check_flow and check_script_document: more than the values alone.       *)
IsConsistent(r) == \A p, q \in Place : p # q => r[p] # r[q]

IsValid(r) == IsObject(r) /\ Errors(r) = {} /\ IsConsistent(r)

(* A flow can be repaired if all that is wrong is single values; a script  *)
(* unless the runner itself failed (_repair_paths, and                     *)
(* _repairable_content_failure).                                           *)
CanRepair(r) ==
    IF document = "flow" THEN IsObject(r) /\ Errors(r) # {}
    ELSE r # Failure /\ ~ IsValid(r)

TicketFor(r) == IF document = "flow" THEN [source |-> r, paths |-> Errors(r)]
                ELSE [source |-> r, paths |-> Place]

ApplyAnyReplacements(r, replacements) ==      \* faulty: also what was not asked for
    [p \in Place |-> IF p \in DOMAIN replacements THEN replacements[p] ELSE r[p]]

(* _apply_replacements: each value that was wrong, once, and nothing else. *)
ApplyReplacements(r, replacements) ==
    IF DOMAIN replacements = Errors(r)
    THEN [p \in Place |-> IF p \in Errors(r) THEN replacements[p] ELSE r[p]]
    ELSE Shapeless

(* The response a process ends up with.                                    *)
Repaired(e) ==
    IF second[e] = None THEN first[e]
    ELSE IF document = "script" \/ ~ (second[e] \in Replacements) THEN second[e]
    ELSE ApplyReplacements(first[e], second[e])

Ends(e, how) == step' = [step EXCEPT ![e] = how]

-----------------------------------------------------------------------------
Enter(e) ==
    /\ step[e] = "idle" /\ e \notin entered
    /\ entered' = entered \cup {e}
    /\ step' = [step EXCEPT ![e] = IF entered = {} THEN "initialize" ELSE "conflict"]
    /\ UNCHANGED <<document, RunFiles, number, first, second>>

(* Both tested the directory before either made it.                        *)
EnterTogether(e) ==
    /\ step[e] = "idle" /\ e \notin entered
    /\ \A o \in entered : step[o] = "initialize"
    /\ entered' = entered \cup {e}
    /\ Ends(e, "initialize")
    /\ UNCHANGED <<document, RunFiles, number, first, second>>

(* initialize, with equal specifications; and the limit of two calls.      *)
CheckLimit(e) ==
    /\ step[e] \in {"initialize", "repair"}
    /\ Ends(e, IF Len(attempts) >= 2 THEN "exception" ELSE "count")
    /\ UNCHANGED <<document, RunFiles, entered, number, first, second>>

(* The number of the attempt, from another look at the directories.        *)
CountAttempts(e) ==
    /\ step[e] = "count"
    /\ number' = [number EXCEPT ![e] = Len(attempts) + 1]
    /\ Ends(e, "place")
    /\ UNCHANGED <<document, RunFiles, entered, first, second>>

(* The rename of a reserved attempt fails if the number was taken.         *)
PlaceAttempt(e) ==
    /\ step[e] = "place"
    /\ IF Len(attempts) >= number[e] THEN Ends(e, "exception") /\ UNCHANGED attempts
       ELSE attempts' = Append(attempts, None) /\ Ends(e, "call")
    /\ UNCHANGED <<document, ticket, record, draft, final, entered, number, first, second>>

AnswerFirst(e, r) ==
    /\ step[e] = "call" /\ first[e] = None
    /\ attempts' = [attempts EXCEPT ![number[e]] = r]
    /\ first' = [first EXCEPT ![e] = r]
    /\ Ends(e, IF IsValid(r) THEN "save" ELSE IF CanRepair(r) THEN "ticket" ELSE "fail")
    /\ UNCHANGED <<document, ticket, record, draft, final, entered, number, second>>

WriteOnceAnd(file, value, e, next) ==         \* RunStore: equal, or an exception
    /\ file' = IF file = None THEN value ELSE file
    /\ Ends(e, IF file \in {None, value} THEN next ELSE "exception")

SaveTicket(e) ==
    /\ step[e] = "ticket"
    /\ WriteOnceAnd(ticket, TicketFor(first[e]), e, "repair")
    /\ UNCHANGED <<document, attempts, record, draft, final, entered, number, first, second>>

AnswerSecond(e, r) ==
    /\ step[e] = "call" /\ first[e] # None
    /\ r \in {Junk, Failure} \cup (IF document = "flow" THEN Replacements ELSE Response)
    /\ attempts' = [attempts EXCEPT ![number[e]] = r]
    /\ second' = [second EXCEPT ![e] = r]
    /\ Ends(e, "judge")
    /\ UNCHANGED <<document, ticket, record, draft, final, entered, number, first>>

JudgeRepair(e) ==
    /\ step[e] = "judge"
    /\ Ends(e, IF IsValid(Repaired(e)) THEN "save" ELSE "fail")
    /\ UNCHANGED <<document, RunFiles, entered, number, first, second>>

(* outputs/compilation.json, of a success and of a failure.                *)
SaveRecord(e) ==
    /\ document = "script" /\ step[e] \in {"save", "fail"}
    /\ WriteOnceAnd(record, <<first[e], second[e]>>, e,
                    IF step[e] = "save" THEN "publish" ELSE "give up")
    /\ UNCHANGED <<document, attempts, ticket, draft, final, entered, number, first, second>>

SaveDraft(e) ==
    /\ step[e] = IF document = "flow" THEN "save" ELSE "publish"
    /\ WriteOnceAnd(draft, Repaired(e), e, "finish")
    /\ UNCHANGED <<document, attempts, ticket, record, final, entered, number, first, second>>

Completed(e) == [status |-> "completed", content |-> Repaired(e)]

Failed == [status |-> "failed", content |-> None]

RecordFinal(e) ==
    /\ \/ step[e] = "finish" /\ WriteOnceAnd(final, Completed(e), e, "proposed")
       \/ /\ step[e] = IF document = "flow" THEN "fail" ELSE "give up"
          /\ WriteOnceAnd(final, Failed, e, "rejected")
    /\ UNCHANGED <<document, attempts, ticket, record, draft, entered, number, first, second>>

AtRest == {"idle", "conflict", "exception", "proposed", "rejected", "stopped"}

(* A stop before there is a directory is none.                             *)
StopRun(e) ==
    /\ step[e] \notin AtRest \cup {"initialize"}
    /\ Ends(e, "stopped")
    /\ UNCHANGED <<document, RunFiles, entered, number, first, second>>

TwoCallNext ==
    \E e \in Process :
        \/ Enter(e) \/ EnterTogether(e)
        \/ CheckLimit(e) \/ CountAttempts(e) \/ PlaceAttempt(e)
        \/ \E r \in Response : AnswerFirst(e, r)
        \/ SaveTicket(e)
        \/ \E r \in Response \cup Replacements : AnswerSecond(e, r)
        \/ JudgeRepair(e) \/ SaveRecord(e) \/ SaveDraft(e) \/ RecordFinal(e) \/ StopRun(e)

-----------------------------------------------------------------------------
(* A document that was saved is valid, and is what an attempt answered; of *)
(* a flow, what differs from the first answer are the values that were     *)
(* wrong in it, and a recorded answer replaces them.                       *)
DraftIsAnswered ==
    draft # None =>
        /\ IsValid(draft)
        /\ \E i \in DOMAIN attempts :
              /\ IsObject(attempts[i])
              /\ \/ /\ draft = attempts[i]
                    /\ document = "flow" => \E e \in Process : first[e] = draft
                 \/ /\ document = "flow"
                    /\ ticket = TicketFor(attempts[i])
                    /\ \A p \in Place \ ticket.paths : draft[p] = attempts[i][p]
                    /\ \E j \in DOMAIN attempts : attempts[j] \in Replacements

(* The final record is about the document that is there, nobody is told of *)
(* a document that is not, and a failure with a document means that two    *)
(* processes used the directory.                                           *)
FinalAgrees ==
    /\ final # None /\ final.status = "completed" => draft = final.content
    /\ \A e \in Process :
          /\ step[e] = "proposed" => final = Completed(e)
          /\ step[e] = "rejected" => final = Failed
    /\ final = Failed /\ draft # None =>
          \E e, o \in entered : e # o /\ "conflict" \notin {step[e], step[o]}

ProposalsHold == DraftIsAnswered /\ FinalAgrees

(* What a directory holds stays, and once nobody is at work in it, it gets *)
(* nothing more: a run that was stopped is not taken up again.             *)
RunsAreLeft ==
    [][/\ ticket # None => ticket' = ticket
       /\ record # None => record' = record
       /\ draft # None => draft' = draft
       /\ final # None => final' = final
       /\ (entered # {} /\ \A e \in Process : step[e] \in AtRest) => UNCHANGED RunFiles]_run
=============================================================================
