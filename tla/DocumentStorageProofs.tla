------------------------- MODULE DocumentStorageProofs -------------------------
(***************************************************************************)
(* Theorems about MCDocumentStorage, for every number of processes, files, *)
(* documents and temporary directories: the documents that are edited and  *)
(* saved (DocumentStorage), the runs that draft them (TwoCallRun) and the  *)
(* results that are renamed into place (RenamedBundle).                    *)
(***************************************************************************)
EXTENDS MCDocumentStorage, Sequences, TLAPS

(* What a process works on once it has read a document.                    *)
ReadOK(e) ==
    pc[e] \in {"change", "check", "write"} =>
        doing[e] \in Path /\ source[e] \in Document /\ Valid(source[e])

Follows(d, r) ==
    \/ r.content.rev = d.content.rev + 1
    \/ r = [content |-> d.content, approval |-> d.content]

ResultOK(e) ==
    pc[e] \in {"check", "write"} =>
        result[e] \in Document /\ Valid(result[e]) /\ Follows(source[e], result[e])

(* What may be in a file that held the document s before.                  *)
Later(d, s) ==
    \/ d = s
    \/ d.content.rev > s.content.rev
    \/ d.content = s.content /\ ~ IsDraft(d)

(* As long as no save falls between another's check and write, a process   *)
(* that still has to check its result finds in the file it read what has   *)
(* come of the document it read, and one that writes replaces nothing, its *)
(* own result, or the very draft that it read.                             *)
FileOK(e) ==
    /\ pc[e] \in {"change", "check"} =>
          disk[doing[e]] # None /\ Later(disk[doing[e]], source[e])
    /\ pc[e] = "write" =>
          \/ disk[doing[e]] \in {None, result[e]}
          \/ /\ disk[doing[e]] = source[e] /\ IsDraft(source[e])
             /\ result[e].content.id = source[e].content.id

OneWriter ==
    \A e, f \in Process : pc[e] = "write" /\ pc[f] = "write" => e = f

DInv == TypeOK /\ ApprovalsFit /\ \A e \in Process : ReadOK(e) /\ ResultOK(e)

EInv == DInv /\ OneWriter /\ \A e \in Process : FileOK(e)

-----------------------------------------------------------------------------
LEMMA DInitOK == Init => EInv
  <1> SUFFICES ASSUME Init PROVE EInv
    OBVIOUS
  <1>1. PICK d \in Document, file \in Path :
          /\ IsDraft(d)
          /\ disk = [p \in Path |-> IF p = file THEN d ELSE None]
    BY DEF Init
  <1>2. /\ pc = [e \in Process |-> "idle"] /\ doing = [e \in Process |-> None]
        /\ source = [e \in Process |-> None] /\ result = [e \in Process |-> None]
    BY DEF Init
  <1>3. TypeOK
    BY <1>1, <1>2 DEF TypeOK
  <1>4. ApprovalsFit
    BY <1>1 DEF ApprovalsFit, IsDraft, Valid
  <1>5. QED BY <1>2, <1>3, <1>4 DEF EInv, DInv, ReadOK, ResultOK, OneWriter, FileOK

(* One process acts, the others are as they were.                          *)
Acts(e) ==
    \A f \in Process \ {e} :
        /\ pc'[f] = pc[f] /\ doing'[f] = doing[f]
        /\ source'[f] = source[f] /\ result'[f] = result[f]

LEMMA OneActs ==
    ASSUME DInv, NEW e \in Process, TypeOK', Acts(e), ReadOK(e)', ResultOK(e)', ApprovalsFit'
    PROVE  DInv'
  <1>1. ASSUME NEW f \in Process PROVE ReadOK(f)' /\ ResultOK(f)'
    BY DEF DInv, Acts, ReadOK, ResultOK
  <1>2. QED BY <1>1 DEF DInv

LEMMA StaysFit == ASSUME DInv, disk' = disk PROVE ApprovalsFit'
  BY DEF DInv, ApprovalsFit

LEMMA ReadKeeps ==
    ASSUME DInv, NEW e \in Process, NEW p \in Path, Read(e, p)
    PROVE  DInv' /\ Acts(e)
  <1>1. /\ disk[p] \in Document /\ Valid(disk[p])
    BY DEF Read, DInv, TypeOK, ApprovalsFit
  <1>2. Acts(e)
    BY DEF Read, Goes, Acts, DInv, TypeOK
  <1>3. TypeOK'
    BY <1>1 DEF Read, Goes, DInv, TypeOK
  <1>4. /\ pc'[e] = "change" /\ doing'[e] = p /\ source'[e] = disk[p] /\ disk' = disk
    BY DEF Read, Goes, DInv, TypeOK
  <1>5. QED BY <1>1, <1>2, <1>3, <1>4, OneActs, StaysFit DEF ReadOK, ResultOK, Valid

LEMMA PatchKeeps ==
    ASSUME DInv, NEW e \in Process, NEW d \in Document, Patch(e, d)
    PROVE  DInv' /\ Acts(e)
  <1>1. Acts(e)
    BY DEF Patch, Goes, Acts, DInv, TypeOK
  <1>2. TypeOK'
    BY DEF Patch, Goes, DInv, TypeOK, Outcome
  <1>3. /\ pc[e] = "change" /\ pc'[e] = IF Valid(d) THEN "check" ELSE "invalid"
        /\ result'[e] = d /\ UNCHANGED <<disk, doing, source>>
        /\ d.content.rev = source[e].content.rev + 1
    BY DEF Patch, Goes, DInv, TypeOK
  <1>4. ReadOK(e)' /\ ResultOK(e)'
    BY <1>3 DEF DInv, ReadOK, ResultOK, Follows, Valid
  <1>5. QED BY <1>1, <1>2, <1>3, <1>4, OneActs, StaysFit

LEMMA ApproveKeeps ==
    ASSUME DInv, NEW e \in Process, Approve(e)
    PROVE  DInv' /\ Acts(e)
  <1> DEFINE r == [content |-> source[e].content, approval |-> source[e].content]
  <1>1. Acts(e)
    BY DEF Approve, Goes, Acts, DInv, TypeOK
  <1>2. /\ pc[e] = "change" /\ pc'[e] = "check" /\ result'[e] = r
        /\ UNCHANGED <<disk, doing, source>>
    BY DEF Approve, Goes, DInv, TypeOK
  <1>3. r \in Document /\ Valid(r)
    BY <1>2 DEF DInv, ReadOK, Document, Valid
  <1>4. TypeOK'
    BY <1>3 DEF Approve, Goes, DInv, TypeOK
  <1>5. ReadOK(e)' /\ ResultOK(e)'
    BY <1>2, <1>3 DEF DInv, ReadOK, ResultOK, Follows, Valid
  <1>6. QED BY <1>1, <1>2, <1>4, <1>5, OneActs, StaysFit

LEMMA RefuseKeeps ==
    ASSUME DInv, NEW e \in Process, Refuse(e)
    PROVE  DInv' /\ Acts(e)
  <1>1. PICK o \in {"invalid", "immutable"} : pc' = [pc EXCEPT ![e] = o]
    BY DEF Refuse
  <1>2. UNCHANGED <<disk, doing, source, result>> /\ pc'[e] = o
    BY <1>1 DEF Refuse, DInv, TypeOK
  <1>3. Acts(e) /\ TypeOK'
    BY <1>1, <1>2 DEF Acts, DInv, TypeOK, Outcome
  <1>4. QED BY <1>1, <1>2, <1>3, OneActs, StaysFit DEF ReadOK, ResultOK

LEMMA CheckKeeps ==
    ASSUME DInv, NEW e \in Process, CheckSame(e) \/ \E p \in Path : CheckOther(e, p)
    PROVE  DInv' /\ Acts(e)
  <1>1. PICK o \in {"write", "conflict", "immutable"}, q \in Path :
          /\ pc[e] = "check"
          /\ pc' = [pc EXCEPT ![e] = o]
          /\ doing' = [doing EXCEPT ![e] = q]
          /\ UNCHANGED <<disk, source, result>>
    <2>1. CASE CheckSame(e)
      <3>1. doing' = [doing EXCEPT ![e] = doing[e]] /\ doing[e] \in Path
        BY <2>1 DEF CheckSame, DInv, TypeOK, ReadOK
      <3>2. QED BY <2>1, <3>1 DEF CheckSame, Goes, Refusal
    <2>2. CASE \E p \in Path : CheckOther(e, p)
      BY <2>2 DEF CheckOther, Goes
    <2>3. QED BY <2>1, <2>2
  <1>2. Acts(e) /\ TypeOK'
    BY <1>1 DEF Acts, DInv, TypeOK, Outcome
  <1>3. pc'[e] = o /\ doing'[e] = q
    BY <1>1 DEF DInv, TypeOK
  <1>4. ReadOK(e)' /\ ResultOK(e)'
    BY <1>1, <1>3 DEF DInv, ReadOK, ResultOK, Valid
  <1>5. QED BY <1>1, <1>2, <1>4, OneActs, StaysFit

LEMMA WriteKeeps ==
    ASSUME DInv, NEW e \in Process, Write(e)
    PROVE  DInv' /\ Acts(e)
  <1>1. /\ pc[e] = "write" /\ result[e] \in Document /\ Valid(result[e]) /\ doing[e] \in Path
    BY DEF Write, DInv, ReadOK, ResultOK
  <1>2. /\ disk' = [disk EXCEPT ![doing[e]] = result[e]]
        /\ pc' = [pc EXCEPT ![e] = "saved"]
        /\ UNCHANGED <<doing, source, result>>
    BY DEF Write, Goes
  <1>3. Acts(e) /\ TypeOK' /\ pc'[e] = "saved"
    BY <1>1, <1>2 DEF Acts, DInv, TypeOK, Outcome
  <1>4. ApprovalsFit'
    <2>1. ASSUME NEW p \in Path, disk'[p] # None PROVE Valid(disk'[p])
      BY <1>1, <1>2, <2>1 DEF DInv, TypeOK, ApprovalsFit
    <2>2. QED BY <2>1 DEF ApprovalsFit, Valid
  <1>5. QED BY <1>3, <1>4, OneActs DEF ReadOK, ResultOK

LEMMA DNextOK == ASSUME DInv, Next PROVE DInv'
  BY ReadKeeps, PatchKeeps, ApproveKeeps, RefuseKeeps, CheckKeeps, WriteKeeps DEF Next

-----------------------------------------------------------------------------
(* The steps that leave all files as they are.                             *)
LEMMA OthersKeepFiles ==
    ASSUME EInv, NEW e \in Process, Acts(e), disk' = disk, FileOK(e)',
           pc'[e] = "write" => \A f \in Process \ {e} : pc[f] # "write"
    PROVE  OneWriter' /\ \A f \in Process : FileOK(f)'
  <1>1. ASSUME NEW f \in Process PROVE FileOK(f)'
    BY DEF EInv, FileOK, Acts, Later, IsDraft
  <1>2. OneWriter'
    BY DEF EInv, OneWriter, Acts
  <1>3. QED BY <1>1, <1>2

LEMMA AbsentContent == \A d \in Document : d # None /\ d.content # None
  BY AbsentAssumption DEF Document

(* A result that may be written over a file was made from what is in it.   *)
LEMMA CheckedFiles ==
    ASSUME ~ Overlap, EInv, NEW e \in Process,
           CheckSame(e) \/ \E p \in Path : CheckOther(e, p)
    PROVE  EInv'
  <1>1. DInv' /\ Acts(e) /\ disk' = disk
    BY CheckKeeps DEF EInv, CheckSame, CheckOther
  <1>2. pc[e] = "check" /\ \A f \in Process \ {e} : pc[f] # "write"
    BY DEF CheckSame, CheckOther, Unhindered
  <1>3. CASE CheckSame(e)
    <2>1. /\ pc'[e] = IF AgreesWithStored(e) THEN "write" ELSE Refusal(e)
          /\ UNCHANGED <<disk, doing, source, result>>
      BY <1>3 DEF CheckSame, Goes, EInv, DInv, TypeOK
    <2>2. CASE AgreesWithStored(e)
      <3>1. /\ source[e] \in Document /\ disk[doing[e]] # None
            /\ disk[doing[e]] \in Document
            /\ Later(disk[doing[e]], source[e])
        BY <1>2 DEF EInv, DInv, TypeOK, ReadOK, FileOK
      <3>2. disk[doing[e]].content.rev = source[e].content.rev
            /\ disk[doing[e]].content.id = result[e].content.id
            /\ (IsDraft(disk[doing[e]]) \/ disk[doing[e]] = result[e])
        BY <2>2 DEF AgreesWithStored, Stored
      <3>3. source[e].content.rev \in Nat
        BY <3>1 DEF Document, Content
      <3>4. disk[doing[e]] = source[e] \/ ~ IsDraft(disk[doing[e]])
        BY <3>1, <3>2, <3>3 DEF Later
      <3>5. FileOK(e)'
        BY <2>1, <2>2, <3>2, <3>4 DEF FileOK, IsDraft
      <3>6. QED BY <1>1, <1>2, <3>5, OthersKeepFiles DEF EInv
    <2>3. CASE ~ AgreesWithStored(e)
      BY <1>1, <2>1, <2>3, OthersKeepFiles DEF EInv, FileOK, Refusal
    <2>4. QED BY <2>2, <2>3
  <1>4. CASE \E p \in Path : CheckOther(e, p)
    <2>1. PICK p \in Path : CheckOther(e, p)
      BY <1>4
    <2>2. /\ pc'[e] = IF disk[p] = None THEN "write" ELSE "conflict"
          /\ doing'[e] = p /\ UNCHANGED <<disk, source, result>>
      BY <2>1 DEF CheckOther, Goes, EInv, DInv, TypeOK
    <2>3. FileOK(e)'
      BY <2>2 DEF FileOK
    <2>4. QED BY <1>1, <1>2, <2>3, OthersKeepFiles DEF EInv
  <1>5. QED BY <1>3, <1>4

LEMMA QuietFiles ==
    ASSUME EInv, NEW e \in Process,
           \/ \E p \in Path : Read(e, p)
           \/ \E d \in Document : Patch(e, d)
           \/ Refuse(e)
           \/ Approve(e)
    PROVE  EInv'
  <1>1. DInv' /\ Acts(e) /\ disk' = disk
    BY ReadKeeps, PatchKeeps, RefuseKeeps, ApproveKeeps
       DEF EInv, Read, Patch, Refuse, Approve
  <1>2. CASE \E p \in Path : Read(e, p)
    <2>1. PICK p \in Path : Read(e, p)
      BY <1>2
    <2>2. /\ pc'[e] = "change" /\ doing'[e] = p /\ source'[e] = disk[p] /\ disk[p] # None
      BY <2>1 DEF Read, Goes, EInv, DInv, TypeOK
    <2>3. FileOK(e)'
      BY <1>1, <2>2 DEF FileOK, Later
    <2>4. QED BY <1>1, <2>2, <2>3, OthersKeepFiles DEF EInv
  <1>3. CASE (\E d \in Document : Patch(e, d)) \/ Refuse(e) \/ Approve(e)
    <2>1. /\ pc[e] = "change" /\ pc'[e] \in {"check", "invalid", "immutable"}
          /\ UNCHANGED <<disk, doing, source>>
      BY <1>3 DEF Patch, Refuse, Approve, Goes, EInv, DInv, TypeOK
    <2>2. FileOK(e)'
      BY <2>1 DEF EInv, FileOK, Later, IsDraft
    <2>3. QED BY <1>1, <2>1, <2>2, OthersKeepFiles DEF EInv
  <1>4. QED BY <1>2, <1>3

(* What a save makes of the file.                                          *)
LEMMA SavedFile ==
    ASSUME EInv, NEW e \in Process, Write(e)
    PROVE  /\ doing[e] \in Path /\ disk'[doing[e]] = result[e]
           /\ \A p \in Path \ {doing[e]} : disk'[p] = disk[p]
           /\ \/ disk[doing[e]] = None
              \/ disk'[doing[e]] = disk[doing[e]]
              \/ /\ disk[doing[e]] = source[e] /\ IsDraft(source[e])
                 /\ result[e].content.id = source[e].content.id
                 /\ Follows(source[e], result[e])
           /\ result[e] \in Document
  BY DEF Write, EInv, DInv, TypeOK, ReadOK, ResultOK, FileOK

LEMMA WrittenFiles == ASSUME EInv, NEW e \in Process, Write(e) PROVE EInv'
  <1>1. DInv' /\ Acts(e) /\ pc[e] = "write" /\ pc'[e] = "saved"
    BY WriteKeeps DEF EInv, DInv, TypeOK, Write, Goes
  <1>2. OneWriter'
    BY <1>1 DEF EInv, OneWriter, Acts
  <1>3. ASSUME NEW f \in Process \ {e} PROVE FileOK(f)'
    <2>1. /\ pc[f] # "write"
          /\ pc'[f] = pc[f] /\ doing'[f] = doing[f] /\ source'[f] = source[f]
      BY <1>1 DEF EInv, OneWriter, Acts
    <2>2. SUFFICES ASSUME pc[f] \in {"change", "check"}
                   PROVE  disk'[doing[f]] # None /\ Later(disk'[doing[f]], source[f])
      BY <2>1 DEF FileOK, Later, IsDraft
    <2>3. /\ doing[f] \in Path /\ source[f] \in Document
          /\ disk[doing[f]] # None /\ disk[doing[f]] \in Document
          /\ Later(disk[doing[f]], source[f])
      BY <2>2 DEF EInv, DInv, TypeOK, ReadOK, FileOK
    <2>4. CASE disk'[doing[f]] = disk[doing[f]]
      BY <2>3, <2>4
    <2>5. CASE disk'[doing[f]] # disk[doing[f]]
      <3>1. /\ doing[f] = doing[e] /\ disk'[doing[f]] = result[e]
            /\ disk[doing[f]] = source[e] /\ IsDraft(source[e])
            /\ Follows(source[e], result[e]) /\ result[e] \in Document
        BY <2>3, <2>5, SavedFile
      <3>2. /\ source[e].content.rev \in Nat /\ source[f].content.rev \in Nat
            /\ result[e].content.rev \in Nat /\ source[e].content # None
        BY <2>3, <3>1, AbsentContent DEF Document, Content
      <3>3. Later(source[e], source[f])
        BY <2>3, <3>1
      <3>4. CASE source[e] = source[f]
        BY <3>1, <3>2, <3>4, AbsentContent DEF Follows, Later, IsDraft
      <3>5. CASE source[e].content.rev > source[f].content.rev
        <4>1. result[e].content.rev >= source[e].content.rev
          BY <3>1, <3>2 DEF Follows
        <4>2. QED BY <3>1, <3>2, <3>5, <4>1, AbsentContent DEF Later
      <3>6. QED BY <3>1, <3>3, <3>4, <3>5 DEF Later
    <2>6. QED BY <2>4, <2>5
  <1>4. FileOK(e)'
    BY <1>1 DEF FileOK
  <1>5. QED BY <1>1, <1>2, <1>3, <1>4 DEF EInv

LEMMA ENextOK == ASSUME ~ Overlap, EInv, Next PROVE EInv'
  BY QuietFiles, CheckedFiles, WrittenFiles DEF Next

LEMMA DocumentsRest ==
    ASSUME UNCHANGED vars
    PROVE  (DInv => DInv') /\ (EInv => EInv')
  BY DEF vars, DInv, EInv, TypeOK, ApprovalsFit, Valid, ReadOK, ResultOK, Follows, OneWriter,
     FileOK, Later, IsDraft

LEMMA DocumentsInvariant == WorkSpec => []DInv
  <1>1. WorkInit => DInv
    BY DInitOK DEF WorkInit, EInv
  <1>2. DInv /\ [WorkNext]_<<working, vars, drafts, results>> => DInv'
    BY DNextOK, DocumentsRest DEF WorkNext, WorkOnDocuments, WorkOnDrafts, WorkOnResults
  <1>3. QED BY <1>1, <1>2, PTL DEF WorkSpec

LEMMA FilesInvariant == ~ Overlap /\ WorkSpec => []EInv
  <1>1. WorkInit => EInv
    BY DInitOK DEF WorkInit
  <1>2. ~ Overlap /\ EInv /\ [WorkNext]_<<working, vars, drafts, results>> => EInv'
    BY ENextOK, DocumentsRest DEF WorkNext, WorkOnDocuments, WorkOnDrafts, WorkOnResults
  <1>3. CASE ~ Overlap
    BY <1>1, <1>2, <1>3, PTL DEF WorkSpec
  <1>4. QED BY <1>3

(* As long as no save falls between another's check and write, an approved *)
(* document is never changed, and what a process has read and edited is    *)
(* never saved over the edit of another (save_document).                   *)
THEOREM EditsKept == ~ Overlap /\ WorkSpec => EditsAreKept
  <1>1. ASSUME EInv, Next
        PROVE  /\ \A p \in Path : disk[p] # None /\ ~ IsDraft(disk[p]) => disk'[p] = disk[p]
               /\ \A p \in Path :
                     disk[p] # None /\ disk'[p] # disk[p] =>
                        /\ \E e \in Process :
                              pc[e] = "write" /\ doing[e] = p /\ source[e] = disk[p]
                        /\ disk'[p].content.id = disk[p].content.id
                        /\ \/ disk'[p].content.rev = disk[p].content.rev + 1
                           \/ disk'[p] = [disk[p] EXCEPT !.approval = disk[p].content]
    <2>1. PICK e \in Process :
            \/ \E p \in Path : Read(e, p)
            \/ \E d \in Document : Patch(e, d)
            \/ Refuse(e)
            \/ Approve(e)
            \/ CheckSame(e)
            \/ \E p \in Path : CheckOther(e, p)
            \/ Write(e)
      BY <1>1 DEF Next
    <2>2. CASE disk' = disk
      BY <2>2
    <2>3. CASE Write(e)
      <3>1. pc[e] = "write"
        BY <2>3 DEF Write
      <3>2. SUFFICES ASSUME NEW p \in Path, disk[p] # None, disk'[p] # disk[p]
                     PROVE  /\ IsDraft(disk[p])
                            /\ doing[e] = p /\ source[e] = disk[p]
                            /\ disk'[p].content.id = disk[p].content.id
                            /\ \/ disk'[p].content.rev = disk[p].content.rev + 1
                               \/ disk'[p] = [disk[p] EXCEPT !.approval = disk[p].content]
        BY <3>1
      <3>3. /\ doing[e] = p /\ disk'[p] = result[e] /\ disk[p] = source[e]
            /\ IsDraft(source[e]) /\ result[e].content.id = source[e].content.id
            /\ Follows(source[e], result[e])
        BY <1>1, <2>3, <3>2, SavedFile
      <3>4. source[e] \in Document
        BY <1>1, <3>1 DEF EInv, DInv, ReadOK
      <3>5. [source[e] EXCEPT !.approval = source[e].content]
            = [content |-> source[e].content, approval |-> source[e].content]
        BY <3>4 DEF Document
      <3>6. QED BY <3>3, <3>5 DEF Follows
    <2>4. QED BY <2>1, <2>2, <2>3 DEF Read, Patch, Refuse, Approve, CheckSame, CheckOther
  <1>2. EInv /\ [WorkNext]_<<working, vars, drafts, results>> =>
          /\ [\A p \in Path : disk[p] # None /\ ~ IsDraft(disk[p]) => disk'[p] = disk[p]]_disk
          /\ [\A p \in Path :
                 disk[p] # None /\ disk'[p] # disk[p] =>
                    /\ \E e \in Process :
                          pc[e] = "write" /\ doing[e] = p /\ source[e] = disk[p]
                    /\ disk'[p].content.id = disk[p].content.id
                    /\ \/ disk'[p].content.rev = disk[p].content.rev + 1
                       \/ disk'[p] = [disk[p] EXCEPT !.approval = disk[p].content]]_disk
    BY <1>1 DEF WorkNext, WorkOnDocuments, WorkOnDrafts, WorkOnResults, vars
  <1>3. QED BY <1>2, FilesInvariant, PTL DEF WorkSpec, EditsAreKept, ApprovedIsFinal, NoEditIsLost

-----------------------------------------------------------------------------
(* The results that are renamed into place.                                *)
Kind == Bundles!Kind

AtWork(e) == pcB[e] \in Bundles!Working

(* All parts are there, and listed if the kind has a list.                 *)
Built(c) ==
    /\ c.parts = Bundles!Needed(c.kind, c.outcome)
    /\ c.listed = IF c.kind = "replay" THEN None ELSE c.parts
    /\ c.kind = "score" => c.outcome = "succeeded"

Descends(c) ==
    c.source # None =>
        \E s \in Kind :
            /\ target[s] # None /\ target[s].maker = c.source
            /\ target[s].outcome = "succeeded"

ResultTypeOK ==
    /\ target \in [Kind -> Bundles!Bundle \cup {None}]
    /\ temporary \in [Temp -> Bundles!Bundle \cup {None}]
    /\ pcB \in [Process -> Bundles!Working \cup
                             {"idle", "refused", "kept", "failed", "published"}]
    /\ doingB \in [Process -> Kind \cup {None}]
    /\ at \in [Process -> Temp \cup {None}]

(* A process works in a directory it has made, and knows what is in it.    *)
WorkOK(e) ==
    AtWork(e) =>
        /\ at[e] \in Temp /\ temporary[at[e]] # None
        /\ temporary[at[e]].kind = doingB[e] /\ temporary[at[e]].maker = at[e]
        /\ pcB[e] = "save" =>
              /\ temporary[at[e]].listed = None
              /\ temporary[at[e]].parts \subseteq
                    Bundles!Needed(doingB[e], temporary[at[e]].outcome)
        /\ pcB[e] = "list" =>
              /\ temporary[at[e]].parts = Bundles!Needed(doingB[e], temporary[at[e]].outcome)
              /\ doingB[e] # "replay"
              /\ doingB[e] = "score" => temporary[at[e]].outcome = "succeeded"
        /\ pcB[e] \in {"check", "rename"} => Built(temporary[at[e]])

ReportOK(e) ==
    pcB[e] = "published" =>
        doingB[e] \in Kind /\ target[doingB[e]] # None /\ target[doingB[e]].maker = at[e]

TempOK(t) ==
    temporary[t] # None =>
        /\ Descends(temporary[t])
        /\ \/ t \in stopped
           \/ temporary[t].kind = "score"
           \/ \E e \in Process : AtWork(e) /\ at[e] = t

TargetOK(k) ==
    target[k] # None => target[k].kind = k /\ Built(target[k]) /\ Descends(target[k])

WorkApart == \A e, f \in Process : AtWork(e) /\ AtWork(f) /\ at[e] = at[f] => e = f

BInv ==
    /\ ResultTypeOK
    /\ \A e \in Process : WorkOK(e) /\ ReportOK(e)
    /\ WorkApart
    /\ \A t \in Temp : TempOK(t)
    /\ \A k \in Kind : TargetOK(k)

LEMMA BInitOK == Bundles!BundleInit => BInv
  <1> SUFFICES ASSUME Bundles!BundleInit PROVE BInv
    OBVIOUS
  <1> USE DEF Kind
  <1>1. ResultTypeOK
    BY DEF Bundles!BundleInit, ResultTypeOK
  <1>2. \A e \in Process : pcB[e] = "idle"
    BY DEF Bundles!BundleInit
  <1>3. (\A t \in Temp : temporary[t] = None) /\ (\A k \in Kind : target[k] = None)
    BY DEF Bundles!BundleInit
  <1>4. QED BY <1>1, <1>2, <1>3
            DEF BInv, WorkOK, ReportOK, WorkApart, TempOK, TargetOK, AtWork, Bundles!Working

(* A step of one process, in the directories M that are its own.           *)
Frame(e, M) ==
    /\ \A f \in Process \ {e} :
          /\ pcB'[f] = pcB[f] /\ doingB'[f] = doingB[f] /\ at'[f] = at[f]
          /\ AtWork(f) => at[f] \notin M
    /\ AtWork(e) => at[e] \in M
    /\ AtWork(e)' => at'[e] \in M
    /\ \A t \in Temp \ M : temporary'[t] = temporary[t]
    /\ \A k \in Kind : target[k] # None => target'[k] = target[k]
    /\ stopped \subseteq stopped'

LEMMA FramedStep ==
    ASSUME BInv, NEW e \in Process, NEW M \in SUBSET Temp, Frame(e, M),
           ResultTypeOK', WorkOK(e)', ReportOK(e)',
           \A t \in M : TempOK(t)',
           \A k \in Kind : target'[k] # target[k] => TargetOK(k)'
    PROVE  BInv'
  <1>1. ASSUME NEW f \in Process PROVE WorkOK(f)' /\ ReportOK(f)'
    <2>1. CASE f = e
      BY <2>1
    <2>2. CASE f # e
      <3>1. pcB'[f] = pcB[f] /\ doingB'[f] = doingB[f] /\ at'[f] = at[f]
            /\ (AtWork(f) => at[f] \notin M) /\ WorkOK(f) /\ ReportOK(f)
        BY <2>2 DEF Frame, BInv
      <3>2. AtWork(f)' <=> AtWork(f)
        BY <3>1 DEF AtWork, Bundles!Working
      <3>3. AtWork(f) => at[f] \in Temp /\ temporary'[at[f]] = temporary[at[f]]
        BY <3>1 DEF WorkOK, Frame
      <3>4. WorkOK(f)'
        BY <3>1, <3>2, <3>3 DEF WorkOK, Built, Bundles!Needed
      <3>5. ReportOK(f)'
        BY <3>1 DEF ReportOK, Frame, Kind, Bundles!Kind
      <3>6. QED BY <3>4, <3>5
    <2>3. QED BY <2>1, <2>2
  <1>2. WorkApart'
    BY DEF BInv, WorkApart, Frame, AtWork, Bundles!Working
  <1>3. ASSUME NEW t \in Temp PROVE TempOK(t)'
    <2>1. CASE t \in M
      BY <2>1
    <2>2. CASE t \notin M
      <3>1. SUFFICES ASSUME temporary'[t] # None PROVE TempOK(t)'
        BY DEF TempOK
      <3>2. temporary'[t] = temporary[t] /\ TempOK(t)
        BY <2>2 DEF Frame, BInv
      <3>3. Descends(temporary[t])'
        BY <3>1, <3>2 DEF TempOK, Frame, Descends, Kind, Bundles!Kind
      <3>4. ASSUME NEW f \in Process, AtWork(f), at[f] = t PROVE AtWork(f)' /\ at'[f] = t
        BY <2>2, <3>4 DEF Frame, AtWork, Bundles!Working
      <3>5. QED BY <3>1, <3>2, <3>3, <3>4 DEF TempOK, Frame
    <2>3. QED BY <2>1, <2>2
  <1>4. ASSUME NEW k \in Kind PROVE TargetOK(k)'
    <2>1. CASE target'[k] # target[k]
      BY <2>1
    <2>2. CASE target'[k] = target[k]
      <3>1. TargetOK(k)
        BY DEF BInv
      <3>2. target[k] # None => Descends(target[k])'
        BY <2>2, <3>1 DEF TargetOK, Frame, Descends, Kind, Bundles!Kind
      <3>3. QED BY <2>2, <3>1, <3>2 DEF TargetOK, Built, Bundles!Needed
    <2>3. QED BY <2>1, <2>2
  <1>5. QED BY <1>1, <1>2, <1>3, <1>4 DEF BInv, Kind, Bundles!Kind

LEMMA NeededParts ==
    ASSUME NEW k, NEW outcome PROVE Bundles!Needed(k, outcome) \subseteq Bundles!Part
  BY DEF Bundles!Needed, Bundles!Part

(* Where a process starts to build a result.                               *)
LEMMA OpenKeeps ==
    ASSUME BInv, NEW e \in Process, NEW k \in Kind, NEW t \in Temp,
           NEW from \in Temp \cup {None}, NEW outcome \in {"succeeded", "failed"},
           Bundles!Open(e, k, t, from, outcome),
           from # None =>
              \E s \in Kind : target[s] # None /\ target[s].maker = from
                              /\ target[s].outcome = "succeeded"
    PROVE  BInv'
  <1> DEFINE c == [kind |-> k, maker |-> t, source |-> from, outcome |-> outcome,
                   parts |-> {}, listed |-> None]
  <1>1. /\ ~ AtWork(e) /\ target[k] = None /\ t \in Bundles!Fresh
        /\ temporary' = [temporary EXCEPT ![t] = c]
        /\ pcB' = [pcB EXCEPT ![e] = "save"]
        /\ doingB' = [doingB EXCEPT ![e] = k]
        /\ at' = [at EXCEPT ![e] = t]
        /\ UNCHANGED <<target, stopped>>
    BY DEF Bundles!Open, AtWork
  <1>2. c \in Bundles!Bundle /\ c # None
    <2>1. c \in Bundles!Bundle
      <3>1. {} \in SUBSET Bundles!Part /\ k \in Bundles!Kind
        BY DEF Kind
      <3>2. QED BY <3>1 DEF Bundles!Bundle
    <2>2. QED BY <2>1, AbsentResultAssumption
  <1>3. ResultTypeOK'
    BY <1>1, <1>2 DEF BInv, ResultTypeOK, Kind, Bundles!Kind, Bundles!Working, Bundles!Bundle,
       Bundles!Part
  <1>4. pcB'[e] = "save" /\ doingB'[e] = k /\ at'[e] = t /\ temporary'[t] = c
    BY <1>1 DEF BInv, ResultTypeOK
  <1>5. Frame(e, {t})
    <2>1. \A f \in Process : at[f] # t
      BY <1>1 DEF Bundles!Fresh
    <2>2. QED BY <1>1, <1>4, <2>1 DEF Frame, BInv, ResultTypeOK
  <1>6. WorkOK(e)' /\ ReportOK(e)'
    BY <1>2, <1>4 DEF WorkOK, ReportOK, AtWork
  <1>7. TempOK(t)'
    <2>1. Descends(temporary[t])'
      BY <1>1, <1>4 DEF Descends, Kind, Bundles!Kind
    <2>2. AtWork(e)' /\ at'[e] = t
      BY <1>4 DEF AtWork, Bundles!Working
    <2>3. QED BY <2>1, <2>2 DEF TempOK
  <1>8. QED BY <1>1, <1>3, <1>5, <1>6, <1>7, FramedStep

LEMMA BeginsKeep ==
    ASSUME BInv, NEW e \in Process, NEW t \in Temp,
           \/ Bundles!BeginProposal(e, t) \/ Bundles!BeginComposition(e, t)
           \/ Bundles!BeginScore(e, t) \/ Bundles!BeginTrial(e, t)
           \/ Bundles!BeginFinal(e, t) \/ Bundles!BeginReplay(e, t)
    PROVE  BInv'
  <1> USE DEF Kind, Bundles!Kind
  <1>1. CASE Bundles!BeginProposal(e, t)
    BY <1>1, OpenKeeps DEF Bundles!BeginProposal
  <1>2. CASE Bundles!BeginComposition(e, t)
    BY <1>2, OpenKeeps DEF Bundles!BeginComposition
  <1>3. CASE Bundles!BeginScore(e, t)
    BY <1>3, OpenKeeps DEF Bundles!BeginScore
  <1>4. ASSUME NEW k \in Kind, Bundles!IsReady(k)
        PROVE  /\ target[k].maker \in Temp
               /\ \E s \in Kind : target[s] # None /\ target[s].maker = target[k].maker
                                  /\ target[s].outcome = "succeeded"
    BY <1>4 DEF Bundles!IsReady, BInv, ResultTypeOK, Bundles!Bundle
  <1>5. CASE Bundles!BeginTrial(e, t)
    BY <1>4, <1>5, OpenKeeps DEF Bundles!BeginTrial
  <1>6. CASE Bundles!BeginFinal(e, t)
    BY <1>4, <1>6, OpenKeeps DEF Bundles!BeginFinal
  <1>7. CASE Bundles!BeginReplay(e, t)
    <2>1. PICK k \in {"trial", "final"} :
            Bundles!IsReady(k)
            /\ Bundles!Open(e, "replay", t, target[k].maker, "succeeded")
      BY <1>7 DEF Bundles!BeginReplay
    <2>2. QED BY <1>4, <2>1, OpenKeeps
  <1>8. QED BY <1>1, <1>2, <1>3, <1>5, <1>6, <1>7

LEMMA ConflictKeeps ==
    ASSUME BInv, NEW e \in Process, NEW k \in Kind, Bundles!Conflict(e, k)
    PROVE  BInv'
  <1>1. /\ ~ AtWork(e)
        /\ pcB' = [pcB EXCEPT ![e] = "refused"]
        /\ doingB' = [doingB EXCEPT ![e] = k]
        /\ at' = [at EXCEPT ![e] = None]
        /\ UNCHANGED <<target, temporary, stopped>>
    BY DEF Bundles!Conflict, AtWork
  <1>2. ResultTypeOK' /\ pcB'[e] = "refused"
    BY <1>1 DEF BInv, ResultTypeOK, Kind, Bundles!Kind, Bundles!Working, Bundles!Bundle,
       Bundles!Part
  <1>3. Frame(e, {})
    BY <1>1, <1>2 DEF Frame, BInv, ResultTypeOK, AtWork, Bundles!Working
  <1>4. WorkOK(e)' /\ ReportOK(e)'
    BY <1>2 DEF WorkOK, ReportOK, AtWork, Bundles!Working
  <1>5. QED BY <1>1, <1>2, <1>3, <1>4, FramedStep

(* A process at work in its directory.                                     *)
LEMMA WorkFrame ==
    ASSUME BInv, NEW e \in Process, AtWork(e),
           \A f \in Process \ {e} :
              pcB'[f] = pcB[f] /\ doingB'[f] = doingB[f] /\ at'[f] = at[f],
           AtWork(e)' => at'[e] = at[e],
           \A t \in Temp \ {at[e]} : temporary'[t] = temporary[t],
           \A k \in Kind : target[k] # None => target'[k] = target[k],
           stopped \subseteq stopped'
    PROVE  Frame(e, {at[e]}) /\ at[e] \in Temp
  BY DEF Frame, BInv, WorkApart, WorkOK

(* ... goes on to next with d in the place of what it had there.           *)
Fills(e, d, next) ==
    /\ temporary' = [temporary EXCEPT ![at[e]] = d]
    /\ pcB' = [pcB EXCEPT ![e] = next]
    /\ UNCHANGED <<target, doingB, at, stopped>>
    /\ d.kind = temporary[at[e]].kind /\ d.maker = temporary[at[e]].maker
    /\ d.source = temporary[at[e]].source /\ d.outcome = temporary[at[e]].outcome
    /\ next = "save" =>
          d.listed = None /\ d.parts \subseteq Bundles!Needed(d.kind, d.outcome)
    /\ next = "list" =>
          /\ d.parts = Bundles!Needed(d.kind, d.outcome)
          /\ d.kind # "replay"
          /\ d.kind = "score" => d.outcome = "succeeded"
    /\ next \in {"check", "rename"} => Built(d)
    /\ next = "kept" => d.kind = "score"

LEMMA FillsKeeps ==
    ASSUME BInv, NEW e \in Process, AtWork(e),
           NEW d \in Bundles!Bundle, NEW next \in Bundles!Working \cup {"kept"},
           Fills(e, d, next)
    PROVE  BInv'
  <1> DEFINE c == temporary[at[e]]
  <1>1. /\ at[e] \in Temp /\ c \in Bundles!Bundle /\ c # None
        /\ c.kind = doingB[e] /\ c.maker = at[e] /\ doingB[e] \in Kind
    BY DEF BInv, WorkOK, ResultTypeOK, Kind, Bundles!Bundle
  <1>2. ResultTypeOK' /\ pcB'[e] = next /\ temporary'[at[e]] = d
        /\ (\A f \in Process \ {e} : pcB'[f] = pcB[f])
        /\ (\A t \in Temp \ {at[e]} : temporary'[t] = temporary[t])
    BY <1>1 DEF Fills, BInv, ResultTypeOK, Kind, Bundles!Kind, Bundles!Working, Bundles!Bundle,
       Bundles!Part
  <1>3. Frame(e, {at[e]})
    BY <1>1, <1>2, WorkFrame DEF Fills
  <1>4. d # None
    BY AbsentResultAssumption
  <1>5. WorkOK(e)' /\ ReportOK(e)'
    BY <1>1, <1>2, <1>4
       DEF Fills, WorkOK, ReportOK, AtWork, Bundles!Working, Built, Bundles!Needed
  <1>6. TempOK(at[e])'
    <2>1. Descends(c) /\ (at[e] \in stopped \/ c.kind = "score" \/ AtWork(e))
      BY <1>1 DEF BInv, TempOK
    <2>2. Descends(d)'
      BY <2>1 DEF Fills, Descends, Kind, Bundles!Kind
    <2>3. temporary'[at'[e]] = d /\ at' = at
      BY <1>2 DEF Fills
    <2>4. d.kind = "score" \/ (AtWork(e)' /\ at'[e] = at[e])
      BY <1>2 DEF Fills, AtWork, Bundles!Working
    <2>5. QED BY <2>2, <2>3, <2>4 DEF Fills, TempOK, Descends
  <1>7. QED BY <1>1, <1>2, <1>3, <1>5, <1>6, FramedStep DEF Fills

(* ... saves parts, lists them, and has them checked.                      *)
LEMMA PartsKeep ==
    ASSUME BInv, NEW e \in Process,
           \/ \E part \in Bundles!Part : Bundles!Save(e, part)
           \/ Bundles!Saved(e)
           \/ Bundles!List(e)
    PROVE  BInv'
  <1> DEFINE c == temporary[at[e]]
  <1>1. /\ pcB[e] \in {"save", "list"} /\ AtWork(e)
        /\ at[e] \in Temp /\ c \in Bundles!Bundle /\ c # None
        /\ c.kind = doingB[e] /\ c.maker = at[e] /\ doingB[e] \in Kind
    BY DEF Bundles!Save, Bundles!Saved, Bundles!List, BInv, WorkOK, AtWork, Bundles!Working,
       ResultTypeOK, Kind, Bundles!Bundle
  <1>2. PICK d \in Bundles!Bundle, next \in Bundles!Working \cup {"kept"} :
            Fills(e, d, next)
    <2>1. CASE \E part \in Bundles!Part : Bundles!Save(e, part)
      <3>1. PICK part \in Bundles!Part : Bundles!Save(e, part)
        BY <2>1
      <3>2. part \in Bundles!Needed(c.kind, c.outcome) /\ pcB[e] = "save"
        BY <3>1 DEF Bundles!Save, Bundles!Missing, Bundles!Mine
      <3>3. c.listed = None /\ c.parts \subseteq Bundles!Needed(c.kind, c.outcome)
        BY <1>1, <3>2 DEF BInv, WorkOK
      <3>4. [c EXCEPT !.parts = c.parts \cup {part}] \in Bundles!Bundle
        BY <1>1 DEF Bundles!Bundle
      <3>5. temporary' = [temporary EXCEPT ![at[e]] = [c EXCEPT !.parts = c.parts \cup {part}]]
            /\ pcB' = [pcB EXCEPT ![e] = "save"]
            /\ UNCHANGED <<target, doingB, at, stopped>>
        BY <1>1, <3>1, <3>2 DEF Bundles!Save, BInv, ResultTypeOK
      <3> DEFINE d == [c EXCEPT !.parts = c.parts \cup {part}]
      <3>6. /\ d.kind = c.kind /\ d.maker = c.maker /\ d.source = c.source
            /\ d.outcome = c.outcome /\ d.listed = c.listed /\ d.parts = c.parts \cup {part}
        BY <1>1 DEF Bundles!Bundle
      <3>7. d.parts \subseteq Bundles!Needed(d.kind, d.outcome)
        BY <3>2, <3>3, <3>6
      <3> HIDE DEF d
      <3>8. d \in Bundles!Bundle /\ temporary' = [temporary EXCEPT ![at[e]] = d]
        BY <3>4, <3>5 DEF d
      <3>9. Fills(e, d, "save")
        BY <3>3, <3>5, <3>6, <3>7, <3>8 DEF Fills
      <3>10. QED BY <3>8, <3>9 DEF Bundles!Working
    <2>2. CASE Bundles!Saved(e)
      <3>1. /\ pcB[e] = "save"
            /\ pcB' = [pcB EXCEPT ![e] = Bundles!AfterParts(c)]
            /\ Bundles!AfterParts(c) # "save"
            /\ UNCHANGED <<target, temporary, doingB, at, stopped>>
        BY <2>2 DEF Bundles!Saved, Bundles!Mine
      <3>2. c.listed = None /\ c.parts \subseteq Bundles!Needed(c.kind, c.outcome)
        BY <1>1, <3>1 DEF BInv, WorkOK
      <3>3. c.parts = Bundles!Needed(c.kind, c.outcome)
        BY <3>1, <3>2 DEF Bundles!AfterParts, Bundles!Missing
      <3>4. temporary' = [temporary EXCEPT ![at[e]] = c]
        BY <1>1, <3>1 DEF BInv, ResultTypeOK
      <3>5. c.outcome \in {"succeeded", "failed"}
        BY <1>1 DEF Bundles!Bundle
      <3>6. \/ Bundles!AfterParts(c) = "kept" /\ c.kind = "score"
            \/ Bundles!AfterParts(c) = "check" /\ c.kind = "replay"
            \/ /\ Bundles!AfterParts(c) = "list" /\ c.kind # "replay"
               /\ c.kind = "score" => c.outcome = "succeeded"
        BY <3>1, <3>5 DEF Bundles!AfterParts
      <3> HIDE DEF c
      <3>7. Fills(e, c, Bundles!AfterParts(c))
        BY <1>1, <3>1, <3>2, <3>3, <3>4, <3>6 DEF Fills, Built, c
      <3>8. QED BY <1>1, <3>6, <3>7 DEF Bundles!Working
    <2>3. CASE Bundles!List(e)
      <3> DEFINE d == [c EXCEPT !.listed = c.parts]
      <3>1. /\ pcB[e] = "list"
            /\ temporary' = [temporary EXCEPT ![at[e]] = d]
            /\ pcB' = [pcB EXCEPT ![e] =
                  IF c.kind \in {"proposal", "trial"} THEN "rename" ELSE "check"]
            /\ UNCHANGED <<target, doingB, at, stopped>>
        BY <1>1, <2>3 DEF Bundles!List, Bundles!Mine, BInv, ResultTypeOK
      <3>2. /\ c.parts = Bundles!Needed(c.kind, c.outcome) /\ c.kind # "replay"
            /\ c.kind = "score" => c.outcome = "succeeded"
        BY <1>1, <3>1 DEF BInv, WorkOK
      <3>3. /\ d.kind = c.kind /\ d.maker = c.maker /\ d.source = c.source
            /\ d.outcome = c.outcome /\ d.listed = c.parts /\ d.parts = c.parts
            /\ d \in Bundles!Bundle
        BY <1>1 DEF Bundles!Bundle
      <3> HIDE DEF c, d
      <3>4. Built(d)
        BY <3>2, <3>3 DEF Built
      <3> DEFINE next == IF c.kind \in {"proposal", "trial"} THEN "rename" ELSE "check"
      <3>5. next \in {"check", "rename"} /\ pcB' = [pcB EXCEPT ![e] = next]
        BY <3>1
      <3> HIDE DEF next
      <3>6. Fills(e, d, next)
        BY <3>1, <3>3, <3>4, <3>5 DEF Fills, c
      <3>7. QED BY <3>3, <3>5, <3>6 DEF Bundles!Working
    <2>4. QED BY <2>1, <2>2, <2>3
  <1>3. QED BY <1>1, <1>2, FillsKeeps

(* ... ends without a result: what it had is removed, or kept of a score.  *)
LEMMA LeavesKeep ==
    ASSUME BInv, NEW e \in Process, AtWork(e),
           temporary' = Bundles!Removed(e),
           pcB' = [pcB EXCEPT ![e] = IF doingB[e] = "score" THEN "kept" ELSE "failed"],
           UNCHANGED <<target, doingB, at, stopped>>
    PROVE  BInv'
  <1>1. at[e] \in Temp /\ temporary[at[e]].kind = doingB[e]
    BY DEF BInv, WorkOK
  <1>2. ResultTypeOK'
    BY <1>1 DEF BInv, ResultTypeOK, Bundles!Removed, Kind, Bundles!Kind, Bundles!Working
  <1>3. /\ pcB'[e] \in {"kept", "failed"}
        /\ \A f \in Process \ {e} : pcB'[f] = pcB[f]
        /\ \A t \in Temp \ {at[e]} : temporary'[t] = temporary[t]
        /\ \/ temporary'[at[e]] = None
           \/ temporary'[at[e]] = temporary[at[e]] /\ doingB[e] = "score"
    BY <1>1 DEF BInv, ResultTypeOK, Bundles!Removed
  <1>4. Frame(e, {at[e]})
    BY <1>3, WorkFrame
  <1>5. WorkOK(e)' /\ ReportOK(e)'
    BY <1>3 DEF WorkOK, ReportOK, AtWork, Bundles!Working
  <1>6. TempOK(at[e])'
    <2>1. CASE temporary'[at[e]] = None
      BY <2>1 DEF TempOK
    <2>2. CASE temporary'[at[e]] = temporary[at[e]] /\ doingB[e] = "score"
      <3>1. temporary[at[e]] # None => Descends(temporary[at[e]])
        BY <1>1 DEF BInv, TempOK
      <3>2. QED BY <1>1, <2>2, <3>1 DEF TempOK, Descends
    <2>3. QED BY <1>3, <2>1, <2>2
  <1>7. QED BY <1>1, <1>2, <1>4, <1>5, <1>6, FramedStep

(* ... finds nothing missing.                                              *)
LEMMA CheckedKeeps ==
    ASSUME BInv, NEW e \in Process, pcB[e] = "check",
           pcB' = [pcB EXCEPT ![e] = "rename"],
           UNCHANGED <<target, temporary, doingB, at, stopped>>
    PROVE  BInv'
  <1>1. AtWork(e) /\ at[e] \in Temp /\ temporary[at[e]] \in Bundles!Bundle /\ WorkOK(e)
    BY DEF AtWork, Bundles!Working, BInv, WorkOK, ResultTypeOK
  <1>2. Fills(e, temporary[at[e]], "rename")
    BY <1>1 DEF Fills, BInv, WorkOK, ResultTypeOK
  <1>3. QED BY <1>1, <1>2, FillsKeeps DEF Bundles!Working

(* ... puts its directory where the result belongs.                        *)
LEMMA RenameKeeps ==
    ASSUME BInv, NEW e \in Process, Bundles!Rename(e)
    PROVE  BInv'
  <1> DEFINE c == temporary[at[e]]
  <1>1. /\ AtWork(e) /\ at[e] \in Temp /\ c \in Bundles!Bundle /\ c # None
        /\ doingB[e] \in Kind /\ c.kind = doingB[e] /\ c.maker = at[e] /\ Built(c)
        /\ Descends(c)
    BY DEF Bundles!Rename, AtWork, Bundles!Working, BInv, WorkOK, ResultTypeOK, TempOK,
       Kind, Bundles!Bundle
  <1>2. /\ target[doingB[e]] = None
        /\ target' = [target EXCEPT ![doingB[e]] = c]
        /\ temporary' = [temporary EXCEPT ![at[e]] = None]
        /\ pcB' = [pcB EXCEPT ![e] = "published"]
        /\ UNCHANGED <<doingB, at, stopped>>
    BY DEF Bundles!Rename, Bundles!Mine
  <1> HIDE DEF c
  <1>3. ResultTypeOK'
    BY <1>1, <1>2 DEF BInv, ResultTypeOK
  <1>4. /\ pcB'[e] = "published" /\ target'[doingB[e]] = c /\ temporary'[at[e]] = None
        /\ \A f \in Process \ {e} : pcB'[f] = pcB[f]
        /\ \A t \in Temp \ {at[e]} : temporary'[t] = temporary[t]
        /\ \A k \in Kind : k # doingB[e] => target'[k] = target[k]
    BY <1>1, <1>2 DEF BInv, ResultTypeOK, Kind
  <1>5. Frame(e, {at[e]})
    BY <1>1, <1>2, <1>4, WorkFrame
  <1>6. WorkOK(e)' /\ ReportOK(e)'
    BY <1>1, <1>2, <1>4 DEF WorkOK, ReportOK, AtWork, Bundles!Working
  <1>7. TempOK(at[e])'
    BY <1>2, <1>4 DEF TempOK
  <1>8. TargetOK(doingB[e])'
    <2>1. c.source # None =>
            \E s \in Kind : /\ target'[s] # None /\ target'[s].maker = c.source
                            /\ target'[s].outcome = "succeeded"
      BY <1>1, <1>2, <1>4 DEF Descends
    <2>2. QED BY <1>1, <1>2, <1>4, <2>1
              DEF TargetOK, Built, Descends, Bundles!Needed, Kind, Bundles!Kind
  <1>9. \A t \in {at[e]} : TempOK(t)'
    BY <1>2, <1>7
  <1>10. \A k \in Kind : target'[k] # target[k] => TargetOK(k)'
    BY <1>2, <1>4, <1>8
  <1>11. QED BY <1>1, <1>3, <1>5, <1>6, <1>9, <1>10, FramedStep

(* ... is stopped.                                                         *)
LEMMA StopKeeps ==
    ASSUME BInv, NEW e \in Process, Bundles!Stop(e)
    PROVE  BInv'
  <1>1. /\ AtWork(e) /\ at[e] \in Temp
        /\ stopped' = stopped \cup {at[e]}
        /\ pcB' = [pcB EXCEPT ![e] = "idle"]
        /\ at' = [at EXCEPT ![e] = None]
        /\ UNCHANGED <<target, temporary, doingB>>
    BY DEF Bundles!Stop, AtWork, BInv, WorkOK
  <1>2. ResultTypeOK' /\ pcB'[e] = "idle" /\ ~ AtWork(e)'
    BY <1>1 DEF BInv, ResultTypeOK, AtWork, Bundles!Working
  <1>3. Frame(e, {at[e]})
    BY <1>1, <1>2, WorkFrame DEF BInv, ResultTypeOK
  <1>4. WorkOK(e)' /\ ReportOK(e)'
    BY <1>2 DEF WorkOK, ReportOK
  <1>5. \A t \in {at[e]} : TempOK(t)'
    <2>1. temporary[at[e]] # None => Descends(temporary[at[e]])
      BY <1>1 DEF BInv, TempOK
    <2>2. QED BY <1>1, <2>1 DEF TempOK, Descends
  <1>6. QED BY <1>1, <1>2, <1>3, <1>4, <1>5, FramedStep

LEMMA BNextOK == BInv /\ Bundles!BundleNext => BInv'
  <1> SUFFICES ASSUME BInv, Bundles!BundleNext PROVE BInv'
    OBVIOUS
  <1>1. PICK e \in Process :
          \/ \E k \in Kind : Bundles!Conflict(e, k)
          \/ \E t \in Temp :
                \/ Bundles!BeginProposal(e, t) \/ Bundles!BeginComposition(e, t)
                \/ Bundles!BeginScore(e, t) \/ Bundles!BeginTrial(e, t)
                \/ Bundles!BeginFinal(e, t) \/ Bundles!BeginReplay(e, t)
          \/ \E part \in Bundles!Part : Bundles!Save(e, part)
          \/ Bundles!Saved(e) \/ Bundles!List(e) \/ Bundles!Check(e)
          \/ Bundles!StorageFails(e) \/ Bundles!Rename(e) \/ Bundles!Stop(e)
    BY DEF Bundles!BundleNext, Kind
  <1>2. CASE Bundles!Check(e)
    <2>1. AtWork(e)
      BY <1>2 DEF Bundles!Check, AtWork, Bundles!Working
    <2>2. QED BY <1>2, <2>1, LeavesKeep, CheckedKeeps DEF Bundles!Check
  <1>3. CASE Bundles!StorageFails(e)
    BY <1>3, LeavesKeep DEF Bundles!StorageFails, AtWork
  <1>4. QED BY <1>1, <1>2, <1>3, ConflictKeeps, BeginsKeep, PartsKeep, RenameKeeps, StopKeeps

LEMMA ResultsInvariant == WorkSpec => []BInv
  <1>1. WorkInit => BInv
    BY BInitOK DEF WorkInit
  <1>2. BInv /\ [WorkNext]_<<working, vars, drafts, results>> => BInv'
    <2> SUFFICES ASSUME BInv, [WorkNext]_<<working, vars, drafts, results>> PROVE BInv'
      OBVIOUS
    <2>1. CASE Bundles!BundleNext
      BY <2>1, BNextOK
    <2>2. CASE UNCHANGED results
      <3>1. ResultTypeOK' /\ WorkApart'
        BY <2>2 DEF results, BInv, ResultTypeOK, WorkApart, AtWork
      <3>2. ASSUME NEW e \in Process PROVE WorkOK(e)' /\ ReportOK(e)'
        BY <2>2 DEF results, BInv, WorkOK, ReportOK, AtWork, Built
      <3>3. ASSUME NEW t \in Temp PROVE TempOK(t)'
        BY <2>2 DEF results, BInv, TempOK, AtWork, Descends
      <3>4. ASSUME NEW k \in Kind PROVE TargetOK(k)'
        BY <2>2 DEF results, BInv, TargetOK, Built, Descends
      <3>5. QED BY <3>1, <3>2, <3>3, <3>4 DEF BInv, Kind, Bundles!Kind
    <2>3. QED BY <2>1, <2>2 DEF WorkNext, WorkOnDocuments, WorkOnDrafts, WorkOnResults
  <1>3. QED BY <1>1, <1>2, PTL DEF WorkSpec

(* What is in place is complete, was made from a success that is in place, *)
(* and nobody reports another's: whichever processes build what, and where *)
(* any of them is stopped (proposal, composition_bundle, trial_bundle,     *)
(* phase6_realization, phase8_bundle).                                     *)
THEOREM ResultsHold == WorkSpec => []BundlesHold
  <1>1. BInv => BundlesHold
    <2> SUFFICES ASSUME BInv PROVE BundlesHold
      OBVIOUS
    <2>1. Bundles!BundlesAreWhole
      BY DEF Bundles!BundlesAreWhole, BInv, TargetOK, Built, Kind
    <2>2. Bundles!LineageIsPublished
      BY DEF Bundles!LineageIsPublished, BInv, TargetOK, Descends, Kind
    <2>3. Bundles!ReportsItsOwn
      BY DEF Bundles!ReportsItsOwn, BInv, ReportOK, TempOK, AtWork
    <2>4. QED BY <2>1, <2>2, <2>3 DEF BundlesHold, Bundles!BundlesHold
  <1>2. QED BY <1>1, ResultsInvariant, PTL

-----------------------------------------------------------------------------
(* The runs that draft a document in one or two calls.                     *)
Answer == Drafts!Response \cup Drafts!Replacements

Step == Drafts!AtRest \cup
    {"initialize", "count", "place", "call", "ticket", "repair", "judge", "save", "fail",
     "publish", "give up", "finish"}

RunTypeOK ==
    /\ document \in {"flow", "script"}
    /\ attempts \in Seq(Answer \cup {None})
    /\ ticket \in Drafts!Ticket \cup {None}
    /\ draft \in Drafts!Response \cup {None}
    /\ final \in Drafts!Final \cup {None}
    /\ entered \in SUBSET Process
    /\ step \in [Process -> Step]
    /\ number \in [Process -> Nat]
    /\ first \in [Process -> Drafts!Response \cup {None}]
    /\ second \in [Process -> Answer \cup {None}]

Answered(r) == \E i \in DOMAIN attempts : attempts[i] = r

(* The first answer can be repaired, and the ticket is the one for it.     *)
MayRepair(e) ==
    first[e] # None /\ Drafts!CanRepair(first[e]) /\ ticket = Drafts!TicketFor(first[e])

(* An attempt is of the process that waits for its answer.                 *)
CallOK(e) ==
    /\ step[e] # "idle" => e \in entered
    /\ step[e] = "place" => number[e] \in 1..(Len(attempts) + 1)
    /\ step[e] = "call" => number[e] \in DOMAIN attempts /\ attempts[number[e]] = None

(* The answers a process has are recorded, the second one as a repair.     *)
AnswersOK(e) ==
    /\ first[e] # None => Answered(first[e])
    /\ second[e] # None =>
          /\ Answered(second[e]) /\ MayRepair(e)
          /\ document = "flow" =>
                second[e] \in Drafts!Replacements \cup {Drafts!Junk, Drafts!Failure}
          /\ document = "script" => second[e] \in Drafts!Response

(* What a process has got to, it got to with the answers it needs.         *)
StepOK(e) ==
    /\ step[e] \in {"idle", "conflict", "initialize"} => first[e] = None
    /\ step[e] = "ticket" => first[e] # None /\ Drafts!CanRepair(first[e]) /\ second[e] = None
    /\ step[e] = "repair" => MayRepair(e) /\ second[e] = None
    /\ step[e] \in {"count", "place", "call"} =>
          second[e] = None /\ (first[e] = None \/ MayRepair(e))
    /\ step[e] = "judge" => second[e] # None
    /\ step[e] \in {"save", "publish"} => first[e] # None /\ Drafts!IsValid(Drafts!Repaired(e))
    /\ step[e] \in {"finish", "proposed"} => draft # None /\ draft = Drafts!Repaired(e)
    /\ step[e] = "proposed" => final = Drafts!Completed(e)
    /\ step[e] = "rejected" => final = Drafts!Failed

(* Past the document: its process can no longer record a failure.          *)
Past == {"finish", "proposed", "exception", "stopped"}

DraftOK ==
    draft # None =>
        \E e \in Process :
            /\ draft = Drafts!Repaired(e) /\ Drafts!IsValid(draft)
            /\ first[e] # None /\ step[e] \in Past

FinalOK ==
    /\ final = Drafts!Failed => \E e \in Process : step[e] = "rejected"
    /\ final # None /\ final.status = "completed" => draft # None /\ draft = final.content

CallsApart ==
    \A e, f \in Process :
        step[e] = "call" /\ step[f] = "call" /\ number[e] = number[f] => e = f

RInv ==
    /\ RunTypeOK /\ CallsApart /\ DraftOK /\ FinalOK
    /\ \A e \in Process : CallOK(e) /\ AnswersOK(e) /\ StepOK(e)

LEMMA RInitOK == Drafts!TwoCallInit => RInv
  <1> SUFFICES ASSUME Drafts!TwoCallInit PROVE RInv
    OBVIOUS
  <1>1. /\ document \in {"flow", "script"} /\ attempts = <<>> /\ entered = {}
        /\ ticket = None /\ draft = None /\ final = None
        /\ step = [e \in Process |-> "idle"] /\ number = [e \in Process |-> 0]
        /\ first = [e \in Process |-> None] /\ second = [e \in Process |-> None]
    BY DEF Drafts!TwoCallInit
  <1>2. RunTypeOK
    BY <1>1 DEF RunTypeOK, Step, Drafts!AtRest
  <1>3. None # Drafts!Failed
    BY AbsentAnswerAssumption DEF Drafts!Failed, Drafts!Final
  <1>4. \A e \in Process : CallOK(e) /\ AnswersOK(e) /\ StepOK(e)
    BY <1>1 DEF CallOK, AnswersOK, StepOK
  <1>5. QED BY <1>1, <1>2, <1>3, <1>4 DEF RInv, CallsApart, DraftOK, FinalOK

(* A ticket is written for an answer that can be repaired.                 *)
LEMMA TicketType ==
    ASSUME NEW r \in Drafts!Response, Drafts!CanRepair(r)
    PROVE  Drafts!TicketFor(r) \in Drafts!Ticket /\ Drafts!TicketFor(r) # None
  <1>1. Drafts!Errors(r) \in SUBSET Drafts!Place
    BY DEF Drafts!Errors
  <1>2. Drafts!TicketFor(r) \in Drafts!Ticket
    BY <1>1 DEF Drafts!TicketFor, Drafts!Ticket
  <1>3. QED BY <1>2, AbsentAnswerAssumption

(* What a step of one process leaves as it is.                             *)
RunFrame(e) ==
    /\ document' = document
    /\ \A f \in Process \ {e} :
          /\ step'[f] = step[f] /\ number'[f] = number[f]
          /\ first'[f] = first[f] /\ second'[f] = second[f]
    /\ entered \subseteq entered'
    /\ Len(attempts) <= Len(attempts')
    /\ \A i \in DOMAIN attempts :
          /\ attempts[i] # None => attempts'[i] = attempts[i]
          /\ \A f \in Process \ {e} :
                step[f] = "call" /\ number[f] = i => attempts'[i] = attempts[i]
    /\ ticket # None => ticket' = ticket
    /\ draft # None => draft' = draft
    /\ final # None => final' = final
    /\ step[e] \in Past =>
          step'[e] \in Past /\ first'[e] = first[e] /\ second'[e] = second[e]
    /\ step[e] # "rejected"

LEMMA RunFramed ==
    ASSUME RInv, NEW e \in Process, RunFrame(e), RunTypeOK',
           CallOK(e)', AnswersOK(e)', StepOK(e)',
           step'[e] = "call" =>
              \A f \in Process \ {e} : step[f] = "call" => number[f] # number'[e],
           draft' # draft =>
              /\ draft' = Drafts!Repaired(e)' /\ Drafts!IsValid(draft')
              /\ first'[e] # None /\ step'[e] \in Past,
           final' # final =>
              \/ final' = Drafts!Failed /\ step'[e] = "rejected"
              \/ final'.status = "completed" /\ draft' # None /\ draft' = final'.content
    PROVE  RInv'
  <1>1. ASSUME NEW f \in Process, f # e
        PROVE  /\ step'[f] = step[f] /\ number'[f] = number[f]
               /\ first'[f] = first[f] /\ second'[f] = second[f]
               /\ Drafts!Repaired(f)' = Drafts!Repaired(f)
    <2>1. /\ step'[f] = step[f] /\ number'[f] = number[f] /\ document' = document
          /\ first'[f] = first[f] /\ second'[f] = second[f]
      BY <1>1 DEF RunFrame
    <2>2. QED BY <2>1 DEF Drafts!Repaired, Drafts!ApplyReplacements, Drafts!Errors
  <1>2. DOMAIN attempts = 1..Len(attempts) /\ DOMAIN attempts' = 1..Len(attempts')
        /\ Len(attempts) \in Nat /\ Len(attempts') \in Nat /\ Len(attempts) <= Len(attempts')
    BY DEF RInv, RunTypeOK, RunFrame
  <1>3. \A r : r # None /\ Answered(r) => Answered(r)'
    BY <1>2 DEF Answered, RunFrame
  <1>4. ASSUME NEW f \in Process PROVE CallOK(f)' /\ AnswersOK(f)' /\ StepOK(f)'
    <2>1. CASE f = e
      BY <2>1
    <2>2. CASE f # e
      <3>1. CallOK(f) /\ AnswersOK(f) /\ StepOK(f)
        BY DEF RInv
      <3>2. CallOK(f)'
        <4>1. f \in entered => f \in entered'
          BY DEF RunFrame
        <4>2. number[f] \in 1..(Len(attempts) + 1) => number[f] \in 1..(Len(attempts') + 1)
          BY <1>2
        <4>3. step[f] = "call" => number[f] \in DOMAIN attempts' /\ attempts'[number[f]] = None
          BY <1>2, <2>2, <3>1 DEF CallOK, RunFrame
        <4>4. QED BY <1>1, <2>2, <3>1, <4>1, <4>2, <4>3 DEF CallOK
      <3>3. MayRepair(f) => MayRepair(f)'
        <4>1. ASSUME MayRepair(f) PROVE ticket' = ticket
          BY <4>1, TicketType DEF MayRepair, RInv, RunTypeOK, RunFrame
        <4>2. \A r : /\ Drafts!CanRepair(r)' <=> Drafts!CanRepair(r)
                     /\ Drafts!TicketFor(r)' = Drafts!TicketFor(r)
          BY DEF RunFrame, Drafts!CanRepair, Drafts!TicketFor
        <4>3. QED BY <1>1, <2>2, <4>1, <4>2 DEF MayRepair
      <3>4. AnswersOK(f)'
        BY <1>1, <1>3, <2>2, <3>1, <3>3 DEF AnswersOK, RunFrame
      <3>5. StepOK(f)'
        <4>1. step[f] = "proposed" => draft # None /\ final = Drafts!Completed(f) /\ final # None
          <5>1. SUFFICES ASSUME step[f] = "proposed"
                         PROVE  draft # None /\ final = Drafts!Completed(f) /\ final # None
            OBVIOUS
          <5>2. draft # None /\ final = Drafts!Completed(f) /\ draft = Drafts!Repaired(f)
            BY <3>1, <5>1 DEF StepOK
          <5>3. final \in Drafts!Final
            BY <5>2 DEF RInv, RunTypeOK, Drafts!Final, Drafts!Completed
          <5>4. QED BY <5>2, <5>3, AbsentAnswerAssumption
        <4>2. step[f] = "rejected" => final = Drafts!Failed /\ final # None
          <5>1. Drafts!Failed # None
            BY AbsentAnswerAssumption DEF Drafts!Failed, Drafts!Final
          <5>2. QED BY <3>1, <5>1 DEF StepOK
        <4>3. Drafts!Completed(f)' = Drafts!Completed(f) /\ Drafts!Failed' = Drafts!Failed
          BY <1>1, <2>2 DEF Drafts!Completed
        <4>4. /\ step[f] \in {"finish", "proposed"} => draft' = Drafts!Repaired(f) /\ draft' # None
              /\ step[f] = "proposed" => final' = Drafts!Completed(f)
              /\ step[f] = "rejected" => final' = Drafts!Failed
          BY <3>1, <4>1, <4>2 DEF StepOK, RunFrame
        <4>5. \A r : Drafts!CanRepair(r)' <=> Drafts!CanRepair(r)
          BY DEF RunFrame, Drafts!CanRepair
        <4> HIDE DEF Drafts!Completed, Drafts!Failed, Drafts!Repaired
        <4>6. QED BY <1>1, <2>2, <3>1, <3>3, <4>3, <4>4, <4>5 DEF StepOK
      <3>6. QED BY <3>2, <3>4, <3>5
    <2>3. QED BY <2>1, <2>2
  <1>5. CallsApart'
    BY <1>1 DEF CallsApart, RInv
  <1>6. DraftOK'
    <2>1. SUFFICES ASSUME draft' # None, draft' = draft PROVE DraftOK'
      BY DEF DraftOK
    <2>2. PICK f \in Process : /\ draft = Drafts!Repaired(f) /\ Drafts!IsValid(draft)
                               /\ first[f] # None /\ step[f] \in Past
      BY <2>1 DEF DraftOK, RInv
    <2>3. CASE f # e
      BY <1>1, <2>1, <2>2, <2>3 DEF DraftOK
    <2>4. CASE f = e
      <3>1. /\ step'[e] \in Past /\ first'[e] = first[e] /\ second'[e] = second[e]
            /\ document' = document
        BY <2>2, <2>4 DEF RunFrame
      <3>2. Drafts!Repaired(e)' = Drafts!Repaired(e)
        BY <3>1 DEF Drafts!Repaired, Drafts!ApplyReplacements, Drafts!Errors
      <3>3. QED BY <2>1, <2>2, <2>4, <3>1, <3>2 DEF DraftOK
    <2>5. QED BY <2>3, <2>4
  <1>7. FinalOK'
    <2>1. CASE final' = final
      <3>1. final = Drafts!Failed => \E f \in Process : step'[f] = "rejected"
        BY <1>1 DEF FinalOK, RInv, RunFrame
      <3>2. final # None /\ final.status = "completed" => draft' # None /\ draft' = final.content
        BY DEF FinalOK, RInv, RunFrame
      <3>3. QED BY <2>1, <3>1, <3>2 DEF FinalOK, Drafts!Failed
    <2>2. CASE final' # final
      BY <2>2 DEF FinalOK, Drafts!Failed
    <2>3. QED BY <2>1, <2>2
  <1>8. QED BY <1>4, <1>5, <1>6, <1>7 DEF RInv

(* A process goes on from one step to the next, without an answer.         *)
LEMMA MoveKeeps ==
    ASSUME RInv, NEW e \in Process, NEW n \in Step,
           step' = [step EXCEPT ![e] = n], n # "call",
           UNCHANGED <<document, attempts, first, second>>,
           entered \subseteq entered', entered' \in SUBSET Process, e \in entered',
           number' \in [Process -> Nat],
           \A f \in Process \ {e} : number'[f] = number[f],
           n = "place" => number'[e] \in 1..(Len(attempts) + 1),
           step[e] # "rejected", step[e] \in Past => n \in Past,
           ticket' \in Drafts!Ticket \cup {None}, ticket # None => ticket' = ticket,
           draft # None => draft' = draft,
           draft' # draft =>
              /\ draft' = Drafts!Repaired(e) /\ Drafts!IsValid(draft')
              /\ first[e] # None /\ n \in Past,
           final' \in Drafts!Final \cup {None}, final # None => final' = final,
           final' # final =>
              \/ final' = Drafts!Failed /\ n = "rejected"
              \/ final'.status = "completed" /\ draft' # None /\ draft' = final'.content,
           StepOK(e)'
    PROVE  RInv'
  <1>1. /\ step'[e] = n /\ \A f \in Process \ {e} : step'[f] = step[f]
        /\ step' \in [Process -> Step]
    BY DEF RInv, RunTypeOK
  <1>2. draft' \in Drafts!Response \cup {None}
    BY DEF RInv, RunTypeOK, Drafts!IsValid, Drafts!IsObject, Drafts!Response
  <1>3. RunTypeOK'
    BY <1>1, <1>2 DEF RInv, RunTypeOK
  <1>4. DOMAIN attempts = 1..Len(attempts) /\ Len(attempts) \in Nat
    BY DEF RInv, RunTypeOK
  <1>5. RunFrame(e)
    BY <1>1, <1>4 DEF RunFrame
  <1>6. CallOK(e)'
    BY <1>1 DEF CallOK
  <1>7. AnswersOK(e)'
    <2>1. AnswersOK(e) /\ first[e] \in Drafts!Response \cup {None}
      BY DEF RInv, RunTypeOK
    <2>2. MayRepair(e) => MayRepair(e)'
      <3>1. MayRepair(e) => ticket' = ticket
        BY <2>1, TicketType DEF MayRepair
      <3>2. QED BY <3>1 DEF MayRepair, Drafts!CanRepair, Drafts!TicketFor
    <2>3. QED BY <2>1, <2>2 DEF AnswersOK, Answered
  <1>8. Drafts!Repaired(e)' = Drafts!Repaired(e)
    BY DEF Drafts!Repaired, Drafts!ApplyReplacements, Drafts!Errors
  <1>9. QED BY <1>1, <1>3, <1>5, <1>6, <1>7, <1>8, RunFramed

(* ... finds the directory, or makes it, and counts what it holds, once for*)
(* the limit and once for the number.                                      *)
LEMMA EntersKeep ==
    ASSUME RInv, NEW e \in Process,
           Drafts!Enter(e) \/ Drafts!EnterTogether(e)
           \/ Drafts!CheckLimit(e) \/ Drafts!CountAttempts(e)
    PROVE  RInv'
  <1>1. StepOK(e) /\ CallOK(e) /\ AnswersOK(e) /\ RunTypeOK
    BY DEF RInv
  <1>2. Len(attempts) \in Nat
    BY <1>1 DEF RunTypeOK
  <1>3. PICK n \in {"initialize", "conflict", "exception", "count", "place"} :
          /\ step' = [step EXCEPT ![e] = n]
          /\ step[e] \in {"idle", "initialize", "repair", "count"}
          /\ n \in {"initialize", "conflict"} => step[e] = "idle"
          /\ n \in {"count", "place"} => step[e] # "idle"
          /\ n = "place" => number'[e] \in 1..(Len(attempts) + 1)
          /\ entered \subseteq entered' /\ entered' \in SUBSET Process /\ e \in entered'
          /\ number' \in [Process -> Nat]
          /\ \A f \in Process \ {e} : number'[f] = number[f]
          /\ UNCHANGED <<document, attempts, ticket, draft, final, first, second>>
    <2>1. CASE Drafts!Enter(e)
      BY <1>1, <2>1 DEF Drafts!Enter, Drafts!RunFiles, RunTypeOK
    <2>2. CASE Drafts!EnterTogether(e)
      BY <1>1, <2>2 DEF Drafts!EnterTogether, Drafts!Ends, Drafts!RunFiles, RunTypeOK
    <2>3. CASE Drafts!CheckLimit(e)
      <3>1. e \in entered
        BY <1>1, <2>3 DEF Drafts!CheckLimit, CallOK
      <3>2. QED
        BY <1>1, <2>3, <3>1 DEF Drafts!CheckLimit, Drafts!Ends, Drafts!RunFiles, RunTypeOK
    <2>4. CASE Drafts!CountAttempts(e)
      <3>1. e \in entered
        BY <1>1, <2>4 DEF Drafts!CountAttempts, CallOK
      <3>2. /\ number' = [number EXCEPT ![e] = Len(attempts) + 1]
            /\ step' = [step EXCEPT ![e] = "place"] /\ step[e] = "count"
            /\ UNCHANGED <<document, attempts, ticket, draft, final, entered, first, second>>
        BY <2>4 DEF Drafts!CountAttempts, Drafts!Ends, Drafts!RunFiles
      <3>3. number'[e] = Len(attempts) + 1 /\ number' \in [Process -> Nat]
            /\ \A f \in Process \ {e} : number'[f] = number[f]
        BY <1>1, <1>2, <3>2 DEF RunTypeOK
      <3>4. number'[e] \in 1..(Len(attempts) + 1)
        BY <1>2, <3>3
      <3>5. QED BY <1>1, <3>1, <3>2, <3>3, <3>4 DEF RunTypeOK
    <2>5. QED BY <2>1, <2>2, <2>3, <2>4
  <1>4. step'[e] = n
    BY <1>1, <1>3 DEF RunTypeOK
  <1>5. StepOK(e)'
    <2>1. n \in {"count", "place"} =>
             second[e] = None /\ (first[e] = None \/ MayRepair(e))
      <3>1. CASE step[e] \in {"repair", "count"}
        BY <1>1, <3>1 DEF StepOK
      <3>2. CASE step[e] = "initialize"
        BY <1>1, <3>2 DEF StepOK, AnswersOK, MayRepair
      <3>3. QED BY <1>3, <3>1, <3>2
    <2>2. MayRepair(e)' <=> MayRepair(e)
      BY <1>3 DEF MayRepair, Drafts!CanRepair, Drafts!TicketFor
    <2>3. QED BY <1>1, <1>3, <1>4, <2>1, <2>2 DEF StepOK
  <1>6. n \in Step /\ step[e] \notin Past
    BY <1>3 DEF Step, Past, Drafts!AtRest
  <1>7. QED BY <1>1, <1>3, <1>5, <1>6, MoveKeeps DEF RunTypeOK

LEMMA SavesKeep ==
    ASSUME RInv, NEW e \in Process, NEW n \in Step,
           step' = [step EXCEPT ![e] = n], n \notin {"place", "call"},
           step[e] \notin {"idle", "rejected"}, step[e] \in Past => n \in Past,
           UNCHANGED <<document, attempts, entered, number, first, second>>,
           ticket' \in Drafts!Ticket \cup {None}, ticket # None => ticket' = ticket,
           draft # None => draft' = draft,
           draft' # draft =>
              /\ draft' = Drafts!Repaired(e) /\ Drafts!IsValid(draft')
              /\ first[e] # None /\ n \in Past,
           final' \in Drafts!Final \cup {None}, final # None => final' = final,
           final' # final =>
              \/ final' = Drafts!Failed /\ n = "rejected"
              \/ final'.status = "completed" /\ draft' # None /\ draft' = final'.content,
           StepOK(e)'
    PROVE  RInv'
  <1>1. e \in entered /\ entered \in SUBSET Process /\ number \in [Process -> Nat]
    BY DEF RInv, RunTypeOK, CallOK
  <1>2. QED BY <1>1, MoveKeeps

LEMMA TicketKeeps ==
    ASSUME RInv, NEW e \in Process, Drafts!SaveTicket(e)
    PROVE  RInv'
  <1> DEFINE t == Drafts!TicketFor(first[e])
  <1>1. /\ step[e] = "ticket" /\ first[e] \in Drafts!Response /\ Drafts!CanRepair(first[e])
        /\ second[e] = None /\ RunTypeOK
    BY DEF Drafts!SaveTicket, RInv, StepOK, RunTypeOK
  <1>2. t \in Drafts!Ticket /\ t # None
    BY <1>1, TicketType
  <1> HIDE DEF t
  <1>3. PICK n \in {"repair", "exception"} :
          /\ step' = [step EXCEPT ![e] = n]
          /\ ticket' = IF ticket = None THEN t ELSE ticket
          /\ n = "repair" => ticket' = t
          /\ UNCHANGED <<document, attempts, draft, final, entered, number, first, second>>
    BY DEF Drafts!SaveTicket, Drafts!WriteOnceAnd, Drafts!Ends, t
  <1>4. step'[e] = n /\ n \in Step
    BY <1>1, <1>3 DEF RunTypeOK, Step, Drafts!AtRest
  <1>5. n = "repair" => MayRepair(e)'
    BY <1>1, <1>3, AbsentAnswerAssumption
       DEF MayRepair, Drafts!CanRepair, Drafts!TicketFor, t
  <1>6. StepOK(e)'
    BY <1>1, <1>3, <1>4, <1>5 DEF StepOK
  <1>7. QED BY <1>1, <1>2, <1>3, <1>4, <1>6, SavesKeep DEF Past, RunTypeOK

LEMMA JudgeKeeps ==
    ASSUME RInv, NEW e \in Process, Drafts!JudgeRepair(e)
    PROVE  RInv'
  <1>1. /\ step[e] = "judge" /\ first[e] # None /\ RunTypeOK
        /\ UNCHANGED <<document, attempts, ticket, draft, final, entered, number, first, second>>
    BY DEF Drafts!JudgeRepair, Drafts!RunFiles, RInv, StepOK, AnswersOK, MayRepair
  <1>2. PICK n \in {"save", "fail"} :
          /\ step' = [step EXCEPT ![e] = n]
          /\ n = "save" => Drafts!IsValid(Drafts!Repaired(e))
    BY DEF Drafts!JudgeRepair, Drafts!Ends
  <1>3. step'[e] = n /\ n \in Step
    BY <1>1, <1>2 DEF RunTypeOK, Step
  <1>4. Drafts!Repaired(e)' = Drafts!Repaired(e)
    BY <1>1 DEF Drafts!Repaired, Drafts!ApplyReplacements, Drafts!Errors
  <1>5. StepOK(e)'
    BY <1>1, <1>2, <1>3, <1>4 DEF StepOK
  <1>6. QED BY <1>1, <1>2, <1>3, <1>5, SavesKeep DEF Past, RunTypeOK

LEMMA RecordKeeps ==
    ASSUME RInv, NEW e \in Process, Drafts!SaveRecord(e)
    PROVE  RInv'
  <1>1. /\ step[e] \in {"save", "fail"} /\ RunTypeOK /\ StepOK(e)
        /\ UNCHANGED <<document, attempts, ticket, draft, final, entered, number, first, second>>
    BY DEF Drafts!SaveRecord, RInv
  <1>2. PICK n \in {"publish", "give up", "exception"} :
          /\ step' = [step EXCEPT ![e] = n]
          /\ n = "publish" => step[e] = "save"
    BY <1>1 DEF Drafts!SaveRecord, Drafts!WriteOnceAnd, Drafts!Ends
  <1>3. step'[e] = n /\ n \in Step
    BY <1>1, <1>2 DEF RunTypeOK, Step, Drafts!AtRest
  <1>4. Drafts!Repaired(e)' = Drafts!Repaired(e)
    BY <1>1 DEF Drafts!Repaired, Drafts!ApplyReplacements, Drafts!Errors
  <1>5. n = "publish" => first[e] # None /\ Drafts!IsValid(Drafts!Repaired(e))
    BY <1>1, <1>2 DEF StepOK
  <1>6. StepOK(e)'
    BY <1>1, <1>2, <1>3, <1>4, <1>5 DEF StepOK
  <1>7. QED BY <1>1, <1>2, <1>3, <1>6, SavesKeep DEF Past, RunTypeOK

LEMMA DraftKeeps ==
    ASSUME RInv, NEW e \in Process, Drafts!SaveDraft(e)
    PROVE  RInv'
  <1> DEFINE d == Drafts!Repaired(e)
  <1>1. /\ step[e] \in {"save", "publish"} /\ RunTypeOK
        /\ first[e] # None /\ Drafts!IsValid(d)
        /\ UNCHANGED <<document, attempts, ticket, final, entered, number, first, second>>
    BY DEF Drafts!SaveDraft, RInv, StepOK
  <1>2. d # None
    <2>1. d \in Drafts!Response
      BY <1>1 DEF Drafts!IsValid, Drafts!IsObject, Drafts!Response
    <2>2. QED BY <2>1, AbsentAnswerAssumption
  <1>3. d' = d
    BY <1>1 DEF Drafts!Repaired, Drafts!ApplyReplacements, Drafts!Errors
  <1>4. PICK n \in {"finish", "exception"} :
          /\ step' = [step EXCEPT ![e] = n]
          /\ draft' = IF draft = None THEN d ELSE draft
          /\ n = "finish" => draft' = d
    BY <1>2 DEF Drafts!SaveDraft, Drafts!WriteOnceAnd, Drafts!Ends
  <1>5. step'[e] = n /\ n \in Step
    BY <1>1, <1>4 DEF RunTypeOK, Step, Drafts!AtRest
  <1>6. StepOK(e)'
    BY <1>1, <1>2, <1>3, <1>4, <1>5 DEF StepOK
  <1>7. QED BY <1>1, <1>3, <1>4, <1>5, <1>6, SavesKeep DEF Past, RunTypeOK

LEMMA FinalKeeps ==
    ASSUME RInv, NEW e \in Process, Drafts!RecordFinal(e)
    PROVE  RInv'
  <1>1. /\ step[e] \in {"finish", "fail", "give up"} /\ RunTypeOK /\ StepOK(e)
        /\ UNCHANGED <<document, attempts, ticket, draft, entered, number, first, second>>
    BY DEF Drafts!RecordFinal, RInv
  <1>2. Drafts!Completed(e)' = Drafts!Completed(e) /\ Drafts!Repaired(e)' = Drafts!Repaired(e)
    BY <1>1 DEF Drafts!Completed, Drafts!Repaired, Drafts!ApplyReplacements, Drafts!Errors
  <1>3. CASE step[e] = "finish" /\ Drafts!WriteOnceAnd(final, Drafts!Completed(e), e, "proposed")
    <2> DEFINE c == Drafts!Completed(e)
    <2>1. draft # None /\ draft = Drafts!Repaired(e) /\ draft \in Drafts!Response
      BY <1>1, <1>3 DEF StepOK, RunTypeOK
    <2>2. c \in Drafts!Final /\ c # None /\ c.status = "completed" /\ c.content = draft
      <3>1. c = [status |-> "completed", content |-> draft]
        BY <2>1 DEF Drafts!Completed
      <3>2. c \in Drafts!Final
        BY <2>1, <3>1 DEF Drafts!Final
      <3>3. QED BY <3>1, <3>2, AbsentAnswerAssumption
    <2> HIDE DEF c
    <2>3. PICK n \in {"proposed", "exception"} :
            /\ step' = [step EXCEPT ![e] = n]
            /\ final' = IF final = None THEN c ELSE final
            /\ n = "proposed" => final' = c
      BY <1>3 DEF Drafts!WriteOnceAnd, Drafts!Ends, c
    <2>4. step'[e] = n /\ n \in Step
      BY <1>1, <2>3 DEF RunTypeOK, Step, Drafts!AtRest
    <2>5. StepOK(e)'
      BY <1>1, <1>2, <2>1, <2>3, <2>4 DEF StepOK, c
    <2>6. QED BY <1>1, <1>3, <2>1, <2>2, <2>3, <2>4, <2>5, SavesKeep DEF Past, RunTypeOK
  <1>4. CASE /\ step[e] \in {"fail", "give up"}
             /\ Drafts!WriteOnceAnd(final, Drafts!Failed, e, "rejected")
    <2>1. Drafts!Failed \in Drafts!Final /\ Drafts!Failed' = Drafts!Failed
      BY DEF Drafts!Failed, Drafts!Final
    <2>2. PICK n \in {"rejected", "exception"} :
            /\ step' = [step EXCEPT ![e] = n]
            /\ final' = IF final = None THEN Drafts!Failed ELSE final
            /\ n = "rejected" => final' = Drafts!Failed
            /\ final' # final => n = "rejected"
      BY <1>4 DEF Drafts!WriteOnceAnd, Drafts!Ends
    <2>3. step'[e] = n /\ n \in Step
      BY <1>1, <2>2 DEF RunTypeOK, Step, Drafts!AtRest
    <2>4. StepOK(e)'
      BY <1>1, <2>1, <2>2, <2>3 DEF StepOK
    <2>5. QED BY <1>1, <1>4, <2>1, <2>2, <2>3, <2>4, SavesKeep DEF Past, RunTypeOK
  <1>5. QED BY <1>3, <1>4 DEF Drafts!RecordFinal

LEMMA StoppedKeeps ==
    ASSUME RInv, NEW e \in Process, Drafts!StopRun(e)
    PROVE  RInv'
  <1>1. /\ step[e] \notin Drafts!AtRest /\ RunTypeOK
        /\ step' = [step EXCEPT ![e] = "stopped"]
        /\ UNCHANGED <<document, attempts, ticket, draft, final, entered, number, first, second>>
    BY DEF Drafts!StopRun, Drafts!Ends, Drafts!RunFiles, RInv
  <1>2. step'[e] = "stopped" /\ "stopped" \in Step /\ "stopped" \in Past
    BY <1>1 DEF RunTypeOK, Step, Drafts!AtRest, Past
  <1>3. StepOK(e)'
    BY <1>1, <1>2 DEF StepOK
  <1>4. QED BY <1>1, <1>2, <1>3, SavesKeep DEF Drafts!AtRest, RunTypeOK

LEMMA PlaceKeeps ==
    ASSUME RInv, NEW e \in Process, Drafts!PlaceAttempt(e)
    PROVE  RInv'
  <1>1. /\ step[e] = "place" /\ RunTypeOK /\ StepOK(e) /\ CallOK(e) /\ AnswersOK(e)
        /\ UNCHANGED <<document, ticket, draft, final, entered, number, first, second>>
    BY DEF Drafts!PlaceAttempt, RInv
  <1>2. Len(attempts) \in Nat /\ DOMAIN attempts = 1..Len(attempts)
        /\ number[e] \in 1..(Len(attempts) + 1) /\ e \in entered
    BY <1>1 DEF RunTypeOK, CallOK
  <1>3. CASE Len(attempts) >= number[e]
    <2>1. step' = [step EXCEPT ![e] = "exception"] /\ attempts' = attempts
      BY <1>3 DEF Drafts!PlaceAttempt, Drafts!Ends
    <2>2. step'[e] = "exception" /\ "exception" \in Step
      BY <1>1, <2>1 DEF RunTypeOK, Step, Drafts!AtRest
    <2>3. StepOK(e)'
      BY <1>1, <2>2 DEF StepOK
    <2>4. QED BY <1>1, <2>1, <2>2, <2>3, SavesKeep DEF Past, RunTypeOK
  <1>4. CASE ~ (Len(attempts) >= number[e])
    <2>1. step' = [step EXCEPT ![e] = "call"] /\ attempts' = Append(attempts, None)
      BY <1>4 DEF Drafts!PlaceAttempt, Drafts!Ends
    <2>2. number[e] = Len(attempts) + 1
      BY <1>2, <1>4
    <2>3. /\ Len(attempts') = Len(attempts) + 1 /\ attempts'[Len(attempts) + 1] = None
          /\ \A i \in DOMAIN attempts : attempts'[i] = attempts[i]
          /\ attempts' \in Seq(Answer \cup {None}) /\ DOMAIN attempts' = 1..Len(attempts')
      BY <1>1, <2>1 DEF RunTypeOK
    <2>4. step'[e] = "call" /\ "call" \in Step /\ \A f \in Process \ {e} : step'[f] = step[f]
      BY <1>1, <2>1 DEF RunTypeOK, Step
    <2>5. RunTypeOK'
      BY <1>1, <2>1, <2>3, <2>4 DEF RunTypeOK
    <2>6. RunFrame(e)
      BY <1>1, <1>2, <2>3, <2>4 DEF RunFrame, Past
    <2>7. CallOK(e)'
      BY <1>1, <1>2, <2>2, <2>3, <2>4 DEF CallOK
    <2>8. MayRepair(e)' <=> MayRepair(e)
      BY <1>1 DEF MayRepair, Drafts!CanRepair, Drafts!TicketFor
    <2>9. second[e] = None /\ (first[e] = None \/ MayRepair(e))
      BY <1>1 DEF StepOK
    <2>10. AnswersOK(e)'
      BY <1>1, <1>2, <2>3, <2>9 DEF AnswersOK, Answered
    <2>11. StepOK(e)'
      BY <1>1, <2>4, <2>8, <2>9 DEF StepOK
    <2>12. \A f \in Process \ {e} : step[f] = "call" => number[f] # number'[e]
      <3>1. \A f \in Process : step[f] = "call" => number[f] \in 1..Len(attempts)
        BY <1>2 DEF RInv, CallOK
      <3>2. QED BY <1>1, <1>2, <2>2, <3>1
    <2>13. QED BY <1>1, <2>5, <2>6, <2>7, <2>10, <2>11, <2>12, RunFramed
  <1>5. QED BY <1>3, <1>4

(* What an answer changes: the attempt it is for.                          *)
LEMMA AnswerRecorded ==
    ASSUME RInv, NEW e \in Process, step[e] = "call", NEW r \in Answer,
           attempts' = [attempts EXCEPT ![number[e]] = r]
    PROVE  /\ attempts' \in Seq(Answer \cup {None})
           /\ Len(attempts') = Len(attempts) /\ DOMAIN attempts' = DOMAIN attempts
           /\ number[e] \in DOMAIN attempts /\ attempts'[number[e]] = r
           /\ \A i \in DOMAIN attempts :
                 /\ attempts[i] # None => attempts'[i] = attempts[i]
                 /\ \A f \in Process \ {e} :
                       step[f] = "call" /\ number[f] = i => attempts'[i] = attempts[i]
           /\ \A s : s # None /\ Answered(s) => Answered(s)'
           /\ Answered(r)'
  <1>1. attempts \in Seq(Answer \cup {None}) /\ number[e] \in DOMAIN attempts
        /\ attempts[number[e]] = None
    BY DEF RInv, RunTypeOK, CallOK
  <1>2. /\ attempts' \in Seq(Answer \cup {None})
        /\ Len(attempts') = Len(attempts) /\ DOMAIN attempts' = DOMAIN attempts
        /\ attempts'[number[e]] = r
        /\ \A i \in DOMAIN attempts : i # number[e] => attempts'[i] = attempts[i]
    BY <1>1
  <1>3. \A f \in Process \ {e} : step[f] = "call" => number[f] # number[e]
    BY DEF RInv, CallsApart
  <1>4. QED BY <1>1, <1>2, <1>3 DEF Answered

LEMMA FirstKeeps ==
    ASSUME RInv, NEW e \in Process, NEW r \in Drafts!Response, Drafts!AnswerFirst(e, r)
    PROVE  RInv'
  <1>1. /\ step[e] = "call" /\ first[e] = None /\ second[e] = None /\ RunTypeOK /\ e \in entered
        /\ attempts' = [attempts EXCEPT ![number[e]] = r]
        /\ first' = [first EXCEPT ![e] = r]
        /\ UNCHANGED <<document, ticket, draft, final, entered, number, second>>
    BY DEF Drafts!AnswerFirst, RInv, StepOK, CallOK
  <1>2. r \in Answer /\ r # None
    BY AbsentAnswerAssumption DEF Answer
  <1>3. PICK n \in {"save", "ticket", "fail"} :
          /\ step' = [step EXCEPT ![e] = n]
          /\ n = "save" => Drafts!IsValid(r)
          /\ n = "ticket" => Drafts!CanRepair(r)
    BY DEF Drafts!AnswerFirst, Drafts!Ends
  <1>4. /\ step'[e] = n /\ n \in Step /\ first'[e] = r /\ second'[e] = None
        /\ \A f \in Process \ {e} : step'[f] = step[f] /\ first'[f] = first[f]
    BY <1>1, <1>3 DEF RunTypeOK, Step
  <1>5. RunTypeOK'
    BY <1>1, <1>2, <1>3, <1>4, AnswerRecorded DEF RunTypeOK
  <1>6. Len(attempts) \in Nat
    BY <1>1 DEF RunTypeOK
  <1>7. RunFrame(e)
    <2>1. /\ Len(attempts') = Len(attempts)
          /\ \A i \in DOMAIN attempts :
                /\ attempts[i] # None => attempts'[i] = attempts[i]
                /\ \A f \in Process \ {e} :
                      step[f] = "call" /\ number[f] = i => attempts'[i] = attempts[i]
      BY <1>1, <1>2, AnswerRecorded
    <2>2. QED BY <1>1, <1>4, <1>6, <2>1 DEF RunFrame, Past
  <1>8. CallOK(e)' /\ AnswersOK(e)'
    BY <1>1, <1>2, <1>3, <1>4, AnswerRecorded DEF CallOK, AnswersOK
  <1>9. Drafts!Repaired(e)' = r
    BY <1>4 DEF Drafts!Repaired
  <1>10. n = "ticket" => Drafts!CanRepair(first[e])'
    BY <1>1, <1>3, <1>4 DEF Drafts!CanRepair
  <1>11. StepOK(e)'
    BY <1>1, <1>2, <1>3, <1>4, <1>9, <1>10 DEF StepOK
  <1>12. QED BY <1>1, <1>3, <1>4, <1>5, <1>7, <1>8, <1>11, RunFramed

LEMMA SecondKeeps ==
    ASSUME RInv, NEW e \in Process, NEW r \in Answer, Drafts!AnswerSecond(e, r)
    PROVE  RInv'
  <1>1. /\ step[e] = "call" /\ first[e] # None /\ second[e] = None /\ MayRepair(e)
        /\ RunTypeOK /\ e \in entered
        /\ document = "flow" => r \in Drafts!Replacements \cup {Drafts!Junk, Drafts!Failure}
        /\ document = "script" => r \in Drafts!Response
        /\ attempts' = [attempts EXCEPT ![number[e]] = r]
        /\ second' = [second EXCEPT ![e] = r]
        /\ step' = [step EXCEPT ![e] = "judge"]
        /\ UNCHANGED <<document, ticket, draft, final, entered, number, first>>
    BY DEF Drafts!AnswerSecond, Drafts!Ends, RInv, StepOK, CallOK, Drafts!Response
  <1>2. r # None
    BY AbsentAnswerAssumption DEF Answer
  <1>3. /\ step'[e] = "judge" /\ "judge" \in Step /\ second'[e] = r
        /\ \A f \in Process \ {e} : step'[f] = step[f] /\ second'[f] = second[f]
    BY <1>1 DEF RunTypeOK, Step
  <1>4. RunTypeOK'
    BY <1>1, <1>3, AnswerRecorded DEF RunTypeOK
  <1>5. Len(attempts) \in Nat
    BY <1>1 DEF RunTypeOK
  <1>6. RunFrame(e)
    <2>1. /\ Len(attempts') = Len(attempts)
          /\ \A i \in DOMAIN attempts :
                /\ attempts[i] # None => attempts'[i] = attempts[i]
                /\ \A f \in Process \ {e} :
                      step[f] = "call" /\ number[f] = i => attempts'[i] = attempts[i]
      BY <1>1, AnswerRecorded
    <2>2. QED BY <1>1, <1>3, <1>5, <2>1 DEF RunFrame, Past
  <1>7. MayRepair(e)'
    BY <1>1 DEF MayRepair, Drafts!CanRepair, Drafts!TicketFor
  <1>8. Answered(first[e])'
    <2>1. Answered(first[e])
      BY <1>1 DEF RInv, AnswersOK
    <2>2. QED BY <1>1, <2>1, AnswerRecorded DEF Answered
  <1>9. CallOK(e)' /\ AnswersOK(e)'
    BY <1>1, <1>2, <1>3, <1>7, <1>8, AnswerRecorded DEF CallOK, AnswersOK
  <1>10. StepOK(e)'
    BY <1>1, <1>2, <1>3 DEF StepOK
  <1>11. QED BY <1>1, <1>3, <1>4, <1>6, <1>9, <1>10, RunFramed

LEMMA RNextOK == RInv /\ Drafts!TwoCallNext => RInv'
  <1> SUFFICES ASSUME RInv, Drafts!TwoCallNext PROVE RInv'
    OBVIOUS
  <1>1. PICK e \in Process :
          \/ Drafts!Enter(e) \/ Drafts!EnterTogether(e)
          \/ Drafts!CheckLimit(e) \/ Drafts!CountAttempts(e)
          \/ Drafts!PlaceAttempt(e)
          \/ \E r \in Drafts!Response : Drafts!AnswerFirst(e, r)
          \/ Drafts!SaveTicket(e)
          \/ \E r \in Answer : Drafts!AnswerSecond(e, r)
          \/ Drafts!JudgeRepair(e) \/ Drafts!SaveRecord(e) \/ Drafts!SaveDraft(e)
          \/ Drafts!RecordFinal(e) \/ Drafts!StopRun(e)
    BY DEF Drafts!TwoCallNext, Answer
  <1>2. QED BY <1>1, EntersKeep, PlaceKeeps, FirstKeeps, TicketKeeps, SecondKeeps, JudgeKeeps,
               RecordKeeps, DraftKeeps, FinalKeeps, StoppedKeeps

LEMMA RunsInvariant == WorkSpec => []RInv
  <1>1. WorkInit => RInv
    BY RInitOK DEF WorkInit
  <1>2. RInv /\ [WorkNext]_<<working, vars, drafts, results>> => RInv'
    <2> SUFFICES ASSUME RInv, [WorkNext]_<<working, vars, drafts, results>> PROVE RInv'
      OBVIOUS
    <2>1. CASE Drafts!TwoCallNext
      BY <2>1, RNextOK
    <2>2. CASE UNCHANGED drafts
      <3>1. UNCHANGED <<document, attempts, ticket, draft, final, entered, step, number,
                        first, second>>
        BY <2>2 DEF drafts
      <3>2. RunTypeOK' /\ CallsApart'
        BY <3>1 DEF RInv, RunTypeOK, CallsApart
      <3>3. \A e \in Process : Drafts!Repaired(e)' = Drafts!Repaired(e)
        BY <3>1 DEF Drafts!Repaired, Drafts!ApplyReplacements, Drafts!Errors
      <3>4. DraftOK' /\ FinalOK'
        BY <3>1, <3>3 DEF RInv, DraftOK, FinalOK
      <3>5. ASSUME NEW e \in Process PROVE CallOK(e)' /\ AnswersOK(e)' /\ StepOK(e)'
        <4>1. Drafts!Completed(e)' = Drafts!Completed(e)
          BY <3>3 DEF Drafts!Completed
        <4>2. \A r : /\ Drafts!CanRepair(r)' <=> Drafts!CanRepair(r)
                     /\ Drafts!TicketFor(r)' = Drafts!TicketFor(r)
          BY <3>1 DEF Drafts!CanRepair, Drafts!TicketFor
        <4>3. MayRepair(e)' <=> MayRepair(e)
          BY <3>1, <4>2 DEF MayRepair
        <4>4. CallOK(e)' /\ AnswersOK(e)'
          BY <3>1, <4>3 DEF RInv, CallOK, AnswersOK, Answered
        <4>5. StepOK(e)'
          BY <3>1, <3>3, <4>1, <4>2, <4>3 DEF RInv, StepOK
        <4>6. QED BY <4>4, <4>5
      <3>6. QED BY <3>2, <3>4, <3>5 DEF RInv
    <2>3. QED BY <2>1, <2>2 DEF WorkNext, WorkOnDocuments, WorkOnDrafts, WorkOnResults
  <1>3. QED BY <1>1, <1>2, PTL DEF WorkSpec

(* Neither bytes that do not decode nor an answer that is none is valid.   *)
LEMMA NotAnObject ==
    ~ Drafts!IsValid(Drafts!Junk) /\ ~ Drafts!IsValid(Drafts!Failure)
        /\ ~ Drafts!IsValid(Drafts!Shapeless)
  <1>1. ASSUME NEW v PROVE [no |-> v] \notin [Drafts!Place -> Drafts!Value]
    <2>1. SUFFICES ASSUME [no |-> v] \in [Drafts!Place -> Drafts!Value] PROVE FALSE
      OBVIOUS
    <2>2. DOMAIN [no |-> v] = Drafts!Place
      BY <2>1
    <2>3. "title" \in DOMAIN [no |-> v]
      BY <2>2 DEF Drafts!Place
    <2>4. QED BY <2>3
  <1>2. QED BY <1>1 DEF Drafts!IsValid, Drafts!IsObject, Drafts!Junk, Drafts!Failure,
               Drafts!Shapeless

LEMMA DraftAnswered == RInv => Drafts!DraftIsAnswered
  <1> SUFFICES ASSUME RInv, draft # None PROVE Drafts!DraftIsAnswered
    BY DEF Drafts!DraftIsAnswered
  <1>1. PICK e \in Process : /\ draft = Drafts!Repaired(e) /\ Drafts!IsValid(draft)
                             /\ first[e] # None
    BY DEF RInv, DraftOK
  <1>2. AnswersOK(e) /\ document \in {"flow", "script"} /\ second[e] \in Answer \cup {None}
    BY DEF RInv, RunTypeOK
  <1>3. Drafts!IsObject(draft)
    BY <1>1 DEF Drafts!IsValid
  <1>4. CASE second[e] = None
    <2>1. draft = first[e]
      BY <1>1, <1>4 DEF Drafts!Repaired
    <2>2. PICK i \in DOMAIN attempts : attempts[i] = draft
      BY <1>1, <1>2, <2>1 DEF AnswersOK, Answered
    <2>3. QED BY <1>1, <1>3, <2>1, <2>2 DEF Drafts!DraftIsAnswered
  <1>5. CASE second[e] # None /\ document = "script"
    <2>1. draft = second[e]
      BY <1>1, <1>5 DEF Drafts!Repaired
    <2>2. PICK i \in DOMAIN attempts : attempts[i] = draft
      BY <1>2, <1>5, <2>1 DEF AnswersOK, Answered
    <2>3. QED BY <1>1, <1>3, <1>5, <2>1, <2>2 DEF Drafts!DraftIsAnswered
  <1>6. CASE second[e] # None /\ document = "flow"
    <2>1. second[e] \in Drafts!Replacements
      <3>1. ASSUME second[e] \notin Drafts!Replacements PROVE FALSE
        <4>1. draft = second[e]
          BY <1>1, <1>6, <3>1 DEF Drafts!Repaired
        <4>2. draft \in {Drafts!Junk, Drafts!Failure}
          BY <1>2, <1>6, <3>1, <4>1 DEF AnswersOK
        <4>3. QED BY <1>1, <4>2, NotAnObject
      <3>2. QED BY <3>1
    <2>2. draft = Drafts!ApplyReplacements(first[e], second[e])
      BY <1>1, <1>6, <2>1 DEF Drafts!Repaired
    <2>3. draft = [p \in Drafts!Place |-> IF p \in Drafts!Errors(first[e]) THEN second[e][p]
                                                                          ELSE first[e][p]]
      BY <1>1, <2>2, NotAnObject DEF Drafts!ApplyReplacements
    <2>4. PICK i \in DOMAIN attempts : attempts[i] = first[e]
      BY <1>1, <1>2 DEF AnswersOK, Answered
    <2>5. PICK j \in DOMAIN attempts : attempts[j] = second[e]
      BY <1>2, <1>6 DEF AnswersOK, Answered
    <2>6. /\ Drafts!IsObject(attempts[i]) /\ ticket = Drafts!TicketFor(attempts[i])
          /\ ticket.paths = Drafts!Errors(first[e])
      BY <1>2, <1>6, <2>4 DEF AnswersOK, MayRepair, Drafts!CanRepair, Drafts!TicketFor
    <2>7. \A p \in Drafts!Place \ ticket.paths : draft[p] = attempts[i][p]
      BY <2>3, <2>4, <2>6
    <2>8. attempts[j] \in Drafts!Replacements
      BY <2>1, <2>5
    <2>9. QED BY <1>1, <1>6, <2>6, <2>7, <2>8 DEF Drafts!DraftIsAnswered
  <1>7. QED BY <1>2, <1>4, <1>5, <1>6

(* A stored document fits what approved it, a draft is what the model      *)
(* answered, repaired only where it was asked to, and the final record     *)
(* agrees with it, for any number of processes that are stopped anywhere   *)
(* (storage, flow_proposal, script_compilation).                           *)
THEOREM DocumentsAgree == WorkSpec => []DocumentsFit
  <1>1. DInv => TypeOK /\ ApprovalsFit
    BY DEF DInv
  <1>2. RInv => Drafts!FinalAgrees
    <2> SUFFICES ASSUME RInv PROVE Drafts!FinalAgrees
      OBVIOUS
    <2>1. final # None /\ final.status = "completed" => draft = final.content
      BY DEF RInv, FinalOK
    <2>2. \A e \in Process : /\ step[e] = "proposed" => final = Drafts!Completed(e)
                             /\ step[e] = "rejected" => final = Drafts!Failed
      BY DEF RInv, StepOK
    <2>3. ASSUME final = Drafts!Failed, draft # None
          PROVE  \E e, o \in entered : e # o /\ "conflict" \notin {step[e], step[o]}
      <3>1. PICK e \in Process : step[e] = "rejected"
        BY <2>3 DEF RInv, FinalOK
      <3>2. PICK o \in Process : step[o] \in Past
        BY <2>3 DEF RInv, DraftOK
      <3>3. e \in entered /\ o \in entered
        BY <3>1, <3>2 DEF RInv, CallOK, Past
      <3>4. QED BY <3>1, <3>2, <3>3 DEF Past
    <2>4. QED BY <2>1, <2>2, <2>3 DEF Drafts!FinalAgrees
  <1>3. DInv /\ RInv => DocumentsFit
    BY <1>1, <1>2, DraftAnswered DEF DocumentsFit, Drafts!ProposalsHold
  <1>4. QED BY <1>3, DocumentsInvariant, RunsInvariant, PTL

(* No result in place is ever replaced, and what a run has written stays;  *)
(* once nobody is at work in its directory it gets nothing more.           *)
THEOREM ResultsAreLeft == WorkSpec => ResultsStay
  <1>1. ASSUME BInv, RInv, [WorkNext]_<<working, vars, drafts, results>>
        PROVE  /\ \A k \in Kind : target[k] # None => target'[k] = target[k]
               /\ ticket # None => ticket' = ticket
               /\ record # None => record' = record
               /\ draft # None => draft' = draft
               /\ final # None => final' = final
               /\ (entered # {} /\ \A e \in Process : step[e] \in Drafts!AtRest) =>
                      UNCHANGED Drafts!RunFiles
    <2> USE <1>1
    <2>1. CASE UNCHANGED results /\ UNCHANGED drafts
      BY <2>1 DEF results, drafts, Drafts!RunFiles
    <2>2. CASE Bundles!BundleNext /\ UNCHANGED drafts
      <3>1. target' = target \/ \E e \in Process : Bundles!Rename(e)
        <4>1. ASSUME NEW e \in Process, NEW k, Bundles!Conflict(e, k) PROVE target' = target
          BY <4>1 DEF Bundles!Conflict
        <4>2. ASSUME NEW e, NEW k, NEW t, NEW s, NEW o, Bundles!Open(e, k, t, s, o)
              PROVE  target' = target
          BY <4>2 DEF Bundles!Open
        <4>3. ASSUME NEW e \in Process, NEW t \in Temp,
                     \/ Bundles!BeginProposal(e, t) \/ Bundles!BeginComposition(e, t)
                     \/ Bundles!BeginScore(e, t) \/ Bundles!BeginTrial(e, t)
                     \/ Bundles!BeginFinal(e, t) \/ Bundles!BeginReplay(e, t)
              PROVE  target' = target
          BY <4>2, <4>3 DEF Bundles!BeginProposal, Bundles!BeginComposition,
             Bundles!BeginScore, Bundles!BeginTrial, Bundles!BeginFinal, Bundles!BeginReplay
        <4>4. ASSUME NEW e \in Process,
                     \/ \E part \in Bundles!Part : Bundles!Save(e, part)
                     \/ Bundles!Saved(e) \/ Bundles!List(e) \/ Bundles!Check(e)
                     \/ Bundles!StorageFails(e) \/ Bundles!Stop(e)
              PROVE  target' = target
          BY <4>4 DEF Bundles!Save, Bundles!Saved, Bundles!List, Bundles!Check,
             Bundles!StorageFails, Bundles!Stop
        <4>5. QED BY <2>2, <4>1, <4>3, <4>4 DEF Bundles!BundleNext
      <3>2. \A k \in Kind : target[k] # None => target'[k] = target[k]
        BY <3>1 DEF Bundles!Rename, BInv, ResultTypeOK
      <3>3. QED BY <2>2, <3>2 DEF drafts, Drafts!RunFiles
    <2>3. CASE Drafts!TwoCallNext /\ UNCHANGED results
      <3>1. /\ ticket # None => ticket' = ticket
            /\ record # None => record' = record
            /\ draft # None => draft' = draft
            /\ final # None => final' = final
        BY <2>3 DEF Drafts!TwoCallNext, Drafts!Enter, Drafts!EnterTogether,
           Drafts!CheckLimit, Drafts!CountAttempts, Drafts!PlaceAttempt,
           Drafts!AnswerFirst, Drafts!SaveTicket, Drafts!AnswerSecond, Drafts!JudgeRepair, Drafts!SaveRecord, Drafts!SaveDraft,
           Drafts!RecordFinal, Drafts!StopRun, Drafts!WriteOnceAnd, Drafts!RunFiles
      <3>2. UNCHANGED Drafts!RunFiles \/ \E e \in Process : step[e] \notin Drafts!AtRest
        BY <2>3 DEF Drafts!TwoCallNext, Drafts!Enter, Drafts!EnterTogether,
           Drafts!CheckLimit, Drafts!CountAttempts, Drafts!PlaceAttempt,
           Drafts!AnswerFirst, Drafts!SaveTicket, Drafts!AnswerSecond, Drafts!JudgeRepair, Drafts!SaveRecord, Drafts!SaveDraft,
           Drafts!RecordFinal, Drafts!StopRun, Drafts!RunFiles, Drafts!AtRest
      <3>3. QED BY <2>3, <3>1, <3>2 DEF results
    <2>4. QED BY <2>1, <2>2, <2>3
              DEF WorkNext, WorkOnDocuments, WorkOnDrafts, WorkOnResults, results, drafts
  <1>2. BInv /\ RInv /\ [WorkNext]_<<working, vars, drafts, results>> =>
          /\ [\A k \in Kind : target[k] # None => target'[k] = target[k]]_Bundles!bundles
          /\ [/\ ticket # None => ticket' = ticket
              /\ record # None => record' = record
              /\ draft # None => draft' = draft
              /\ final # None => final' = final
              /\ (entered # {} /\ \A e \in Process : step[e] \in Drafts!AtRest) =>
                     UNCHANGED Drafts!RunFiles]_Drafts!run
    BY <1>1
  <1>3. QED BY <1>2, ResultsInvariant, RunsInvariant, PTL
            DEF WorkSpec, ResultsStay, Bundles!BundlesAreFinal, Drafts!RunsAreLeft, Kind
=============================================================================
