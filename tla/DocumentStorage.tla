--------------------------- MODULE DocumentStorage ---------------------------
(***************************************************************************)
(* Versioned documents (document_operations.py) and the files they are     *)
(* saved in (storage._save_validated_document), as the command line uses   *)
(* them: a process reads a document, patches or approves it in memory, and *)
(* saves the result over the file it read or in another one.  Nothing locks*)
(* a file: what is stored is checked first and replaced in a second step.  *)
(***************************************************************************)
EXTENDS Naturals

CONSTANTS
    Process,    \* processes that work on documents
    Path,       \* files
    Id, Text,   \* document identifiers, and what a document says
    MaxRev,     \* bound: no document is patched beyond this revision
    Overlap,    \* whether a save may fall between another's check and write
    None

ASSUME RevAssumption == MaxRev \in Nat \ {0}

ASSUME OverlapAssumption == Overlap \in BOOLEAN

Content == [id : Id, rev : 1..MaxRev, text : Text]

(* The approval holds the hash of the content it was given for.            *)
Document == [content : Content, approval : Content \cup {None}]

ASSUME AbsentAssumption == None \notin Document \cup Content \cup Path

VARIABLES
    disk,               \* the document in each file
    pc, doing,          \* of each process: its next step, and its ...
    source, result      \* ... file, the document it read and the new one

vars == <<disk, pc, doing, source, result>>

Outcome == {"saved", "conflict", "immutable", "invalid"}

TypeOK ==
    /\ disk \in [Path -> Document \cup {None}]
    /\ pc \in [Process -> {"idle", "change", "check", "write"} \cup Outcome]
    /\ doing \in [Process -> Path \cup {None}]
    /\ source \in [Process -> Document \cup {None}]
    /\ result \in [Process -> Document \cup {None}]

IsDraft(d) == d.approval = None

(* check_flow: a draft has no approval, and an approval is for the content.*)
Valid(d) == d.approval \in {None, d.content}

(* A proposal writes its draft before anybody works on it.                 *)
Init ==
    /\ \E d \in Document :
          /\ IsDraft(d) /\ d.content.rev = 1
          /\ disk \in {[p \in Path |-> IF p = at THEN d ELSE None] : at \in Path}
    /\ pc = [e \in Process |-> "idle"]
    /\ doing = [e \in Process |-> None]
    /\ source = [e \in Process |-> None]
    /\ result = [e \in Process |-> None]

-----------------------------------------------------------------------------
Goes(e, next) == pc' = [pc EXCEPT ![e] = next]

(* Also after a stop: the new invocation has nothing of the old one.       *)
Read(e, p) ==
    /\ disk[p] # None
    /\ Goes(e, "change")
    /\ doing' = [doing EXCEPT ![e] = p]
    /\ source' = [source EXCEPT ![e] = disk[p]]
    /\ result' = [result EXCEPT ![e] = None]
    /\ UNCHANGED disk

(* apply_document_patch: a patch may replace anything, the approval and the*)
(* identifier too, but must count the revision up by one and leave a valid *)
(* document.  An approved document is patched as a draft of it.            *)
Patch(e, d) ==
    /\ pc[e] = "change"
    /\ d.content.rev = source[e].content.rev + 1
    /\ result' = [result EXCEPT ![e] = d]
    /\ Goes(e, IF Valid(d) THEN "check" ELSE "invalid")
    /\ UNCHANGED <<disk, doing, source>>

(* Nothing comes of a patch that does not test the revision first or does  *)
(* not apply, of one of an approved document that is not asked for as a new*)
(* draft, and of a new draft of a draft.                                   *)
Refuse(e) ==
    /\ pc[e] = "change"
    /\ pc' \in {[pc EXCEPT ![e] = o] : o \in
          {"invalid"} \cup (IF IsDraft(source[e]) THEN {} ELSE {"immutable"})}
    /\ UNCHANGED <<disk, doing, source, result>>

Approve(e) ==
    /\ pc[e] = "change"
    /\ result' = [result EXCEPT
          ![e] = [content |-> source[e].content, approval |-> source[e].content]]
    /\ Goes(e, "check")
    /\ UNCHANGED <<disk, doing, source>>

(* What is in the file a process has chosen for its result.                *)
Stored(e) == disk[doing[e]]

AnyResult(e) == TRUE                                   \* faulty: no check

(* The revision expected in the file that was read is the one that was     *)
(* read, and no other file may exist.                                      *)
AgreesWithStored(e) ==
    /\ Stored(e).content.id = result[e].content.id
    /\ Stored(e).content.rev = source[e].content.rev
    /\ IsDraft(Stored(e)) \/ Stored(e) = result[e]

Refusal(e) ==
    IF /\ Stored(e).content.id = result[e].content.id
       /\ Stored(e).content.rev = source[e].content.rev
    THEN "immutable" ELSE "conflict"

Unhindered(e) == Overlap \/ \A f \in Process \ {e} : pc[f] # "write"

CheckSame(e) ==
    /\ pc[e] = "check"
    /\ Unhindered(e)
    /\ Goes(e, IF AgreesWithStored(e) THEN "write" ELSE Refusal(e))
    /\ UNCHANGED <<disk, doing, source, result>>

CheckOther(e, p) ==
    /\ pc[e] = "check"
    /\ p # doing[e]
    /\ Unhindered(e)
    /\ doing' = [doing EXCEPT ![e] = p]
    /\ Goes(e, IF disk[p] = None THEN "write" ELSE "conflict")
    /\ UNCHANGED <<disk, source, result>>

Write(e) ==
    /\ pc[e] = "write"
    /\ disk' = [disk EXCEPT ![doing[e]] = result[e]]
    /\ Goes(e, "saved")
    /\ UNCHANGED <<doing, source, result>>

-----------------------------------------------------------------------------
Next ==
    \E e \in Process :
        \/ \E p \in Path : Read(e, p)
        \/ \E d \in Document : Patch(e, d)
        \/ Refuse(e)
        \/ Approve(e)
        \/ CheckSame(e)
        \/ \E p \in Path : CheckOther(e, p)
        \/ Write(e)

Spec == Init /\ [][Next]_vars

-----------------------------------------------------------------------------
(* Every stored approval is for the content it is stored with, whatever    *)
(* was patched and approved in between.                                    *)
ApprovalsFit == \A p \in Path : disk[p] # None => Valid(disk[p])

(* An approved document is never changed by anything saved over it.        *)
ApprovedIsFinal ==
    [][\A p \in Path :
          disk[p] # None /\ ~ IsDraft(disk[p]) => disk'[p] = disk[p]]_disk

(* A save replaces the very document that was read and changed: no edit of *)
(* another process is lost, the identifier stays, and only an approval     *)
(* leaves the revision as it is.                                           *)
NoEditIsLost ==
    [][\A p \in Path :
          disk[p] # None /\ disk'[p] # disk[p] =>
              /\ \E e \in Process : pc[e] = "write" /\ doing[e] = p /\ source[e] = disk[p]
              /\ disk'[p].content.id = disk[p].content.id
              /\ \/ disk'[p].content.rev = disk[p].content.rev + 1
                 \/ disk'[p] = [disk[p] EXCEPT !.approval = disk[p].content]]_disk
=============================================================================
