----------------------- MODULE StagedRealizationProofs -----------------------
(***************************************************************************)
(* The proofs for MCStagedRealization: that the records of a single run    *)
(* rest on each other whoever advances or reviews it, that the run keeps   *)
(* to StageRun, that the chain of such runs does as one, that nothing      *)
(* stale stays in the workspace their diffs are applied to, and that the   *)
(* schedule of the performance is right.  The parts are about the single   *)
(* run, the chain, the workspace and the schedule, in this order.          *)
(***************************************************************************)
EXTENDS MCStagedRealization, TLAPS, SequenceTheorems, NaturalsInduction,
    WellFoundedInduction, FiniteSetTheorems

(* The single run.  The first m operations apply, and what they write.     *)
AllApply(m) == \A k \in 1 .. m : Run!Applies(k)

Prefix(m) == [k \in 1 .. m |-> Run!Effective(k).answer]

(* A workspace on which operation i may build.                             *)
Standing(i, base) == AllApply(i - 1) /\ base = Prefix(i - 1)

(* A replacement of operation i that its check has accepted.  It may have  *)
(* been built on less than what stands before the operation by now.        *)
Accepted(i, d) ==
    /\ i \in Modelled /\ d.answer \notin Bad /\ Uses[i] \subseteq DOMAIN d.base
    /\ Len(d.base) \in 0 .. i - 1 /\ d.base = Prefix(Len(d.base))

Allowed(i) == IF i \in Checked THEN RepairLimit + 1 ELSE 1

WasBad(t) == t.ended = "completed" /\ t.answer \in Bad

(* The records of operation i: the diff rests on the operations before it  *)
(* and on a saved response, a review on a diff, a response on the latest   *)
(* attempt, and all attempts before that one ended in a bad answer.        *)
DiffRests(i) ==
    diff[i] # None =>
       /\ AllApply(i - 1) /\ diff[i].base = Prefix(i - 1)
       /\ i \in Modelled => response[i] # None /\ response[i] = diff[i].answer
       /\ i \notin Modelled => diff[i].answer = None

ReviewRests(i) ==
    review[i] # None =>
       /\ i \in Reviewed /\ diff[i] # None
       /\ review[i].decision = "replace" => Accepted(i, review[i].diff)

ResponseRests(i) ==
    response[i] # None =>
       attempts[i] # <<>> /\ Run!Latest(i) = [answer |-> response[i], ended |-> "completed"]

AskedRight(i) ==
    /\ attempts[i] # <<>> => i \in Modelled
    /\ Len(attempts[i]) <= Allowed(i)
    /\ \A k \in 1 .. Len(attempts[i]) - 1 : WasBad(attempts[i][k])
    /\ \A k \in 1 .. Len(attempts[i]) :
          attempts[i][k].ended = "completed" => attempts[i][k].answer \in Answer

RecordsRest ==
    \A i \in Run!Op : DiffRests(i) /\ ReviewRests(i) /\ ResponseRests(i) /\ AskedRight(i)

(* What a process in the middle of its work knows that the records still   *)
(* bear out when it writes: nobody else can have moved past operation i    *)
(* with anything else.                                                     *)
Asking == {"call", "execute", "ask", "asked", "inspect", "save"}
Building == {"build", "keep"}
Judging == {"decide", "note"}

OnItsWay(p) ==
    pc[p] \in Asking \cup Building =>
       at[p] \in Run!Op /\ Standing(at[p], seen[p])

InHand(i, a) ==
    /\ attempts[i] # <<>> /\ a \in Answer
    /\ Run!Latest(i) = [answer |-> a, ended |-> "completed"]

HasAsked(p) ==
    /\ pc[p] \in Asking => at[p] \in Modelled
    /\ pc[p] \in {"ask", "asked", "inspect", "save"} => response[at[p]] = None
    /\ pc[p] = "ask" =>
          /\ Len(attempts[at[p]]) < Allowed(at[p])
          /\ \A k \in 1 .. Len(attempts[at[p]]) : WasBad(attempts[at[p]][k])
    /\ pc[p] = "asked" => attempts[at[p]] # <<>>
    /\ pc[p] = "inspect" => at[p] \in Checked
    /\ pc[p] \in {"inspect", "save"} => InHand(at[p], held[p])

HasBuilt(p) ==
    pc[p] \in Building =>
       /\ at[p] \in Modelled => held[p] # None /\ response[at[p]] = held[p]
       /\ at[p] \notin Modelled => held[p] = None

HasJudged(p) ==
    /\ pc[p] \in {"replace", "review"} \cup Judging => choice[p] \in Run!Choice
    /\ pc[p] = "replace" => choice[p].decision = "replace"
    /\ pc[p] = "review" /\ choice[p].decision = "replace" =>
          Len(seen[p]) \in 0 .. N /\ AllApply(Len(seen[p]))
            /\ seen[p] = Prefix(Len(seen[p]))
    /\ pc[p] \in Judging =>
          /\ at[p] \in Run!Op /\ at[p] \in Reviewed /\ diff[at[p]] # None
          /\ choice[p].decision = "replace" =>
                Accepted(at[p], [base |-> seen[p], answer |-> choice[p].answer])

UpTo(n) == n \in 0 .. N /\ AllApply(n) /\ (n < N => ~ Run!Applies(n + 1))

CompletedIsFirst == UpTo(Run!Completed) /\ \A n : UpTo(n) => n = Run!Completed

LEMMA CompletedIs == CompletedIsFirst
<1>1. \E n \in 0 .. N : AllApply(n) /\ (n < N => ~ Run!Applies(n + 1))
  <2>. DEFINE Out == {i \in 1 .. N : ~ Run!Applies(i)}
  <2>1. CASE Out = {}
    <3>1. N \in 0 .. N /\ AllApply(N)  BY <2>1, SizeAssumption DEF AllApply
    <3>. QED  BY <3>1, SizeAssumption
  <2>2. CASE Out # {}
    <3>1. PICK m \in Out : \A j \in Out : ~ <<j, m>> \in OpToRel(<, Nat)
      <4>1. Out \subseteq Nat  BY SizeAssumption
      <4>. QED  BY <2>2, <4>1, NatLessThanWellFounded, WFMin, Zenon
    <3>2. m \in 1 .. N /\ ~ Run!Applies(m)  OBVIOUS
    <3>3. \A j \in 1 .. m - 1 : Run!Applies(j)
      <4>. SUFFICES ASSUME NEW j \in 1 .. m - 1, ~ Run!Applies(j) PROVE FALSE  OBVIOUS
      <4>1. j \in Out /\ j < m /\ j \in Nat /\ m \in Nat  BY <3>2, SizeAssumption
      <4>2. <<j, m>> \in OpToRel(<, Nat)  BY <4>1 DEF OpToRel
      <4>. QED  BY <3>1, <4>1, <4>2
    <3>4. m - 1 \in 0 .. N /\ (m - 1) + 1 = m  BY <3>2, SizeAssumption
    <3>. QED  BY <3>2, <3>3, <3>4 DEF AllApply
  <2>. QED  BY <2>1, <2>2
<1>2. UpTo(Run!Completed)  BY <1>1, Zenon DEF UpTo, Run!Completed, AllApply
<1>3. ASSUME NEW n, UpTo(n) PROVE n = Run!Completed
  <2>. DEFINE c == Run!Completed
  <2>1. n \in Nat /\ c \in Nat /\ n <= N /\ c <= N
    BY <1>2, <1>3, SizeAssumption DEF UpTo
  <2>2. CASE n < c
    <3>1. n + 1 \in 1 .. c /\ n < N  BY <2>1, <2>2, SizeAssumption
    <3>. HIDE DEF c
    <3>. QED  BY <1>2, <1>3, <3>1 DEF UpTo, AllApply, c
  <2>3. CASE c < n
    <3>1. c + 1 \in 1 .. n /\ c < N  BY <2>1, <2>3, SizeAssumption
    <3>. HIDE DEF c
    <3>. QED  BY <1>2, <1>3, <3>1 DEF UpTo, AllApply, c
  <2>. QED  BY <2>1, <2>2, <2>3
<1>. QED  BY <1>2, <1>3 DEF CompletedIsFirst

(* Records are only added. *)
Grows ==
    \A i \in Run!Op : /\ diff[i] # None => diff'[i] = diff[i]
                      /\ review[i] # None => review'[i] = review[i]

LEMMA DecidedStays ==
  ASSUME Grows, NEW i \in Run!Op, Run!Decided(i)
  PROVE  Run!Decided(i)' /\ Run!Effective(i)' = Run!Effective(i)
BY DEF Grows, Run!Decided, Run!Effective

LEMMA AllApplyStays ==
  ASSUME Grows, NEW m \in 0 .. N, AllApply(m)
  PROVE  AllApply(m)' /\ Prefix(m)' = Prefix(m)
<1>1. ASSUME NEW k \in 1 .. m
      PROVE k \in Run!Op /\ Run!Decided(k)' /\ Run!Effective(k)' = Run!Effective(k)
  <2>1. k \in Run!Op  BY SizeAssumption DEF Run!Op
  <2>2. Run!Decided(k)  BY DEF AllApply, Run!Applies
  <2>. QED  BY <2>1, <2>2, DecidedStays
<1>2. ASSUME NEW k \in 1 .. m PROVE Run!Applies(k)'
  <2>1. \A j \in 1 .. k - 1 : j \in 1 .. m  BY SizeAssumption
  <2>2. Run!Effective(k).base = [j \in 1 .. k - 1 |-> Run!Effective(j).answer]
        /\ ~ Run!Flawed(k, Run!Effective(k))
    BY DEF AllApply, Run!Applies
  <2>3. \A j \in 1 .. k - 1 : Run!Effective(j)' = Run!Effective(j)  BY <1>1, <2>1
  <2>. QED  BY <1>1, <2>2, <2>3 DEF Run!Applies, Run!Flawed
<1>. QED  BY <1>1, <1>2 DEF AllApply, Prefix

LEMMA StandingStays ==
  ASSUME Grows, NEW i \in Run!Op, NEW b, Standing(i, b)
  PROVE  Standing(i, b)'
<1>1. i - 1 \in 0 .. N  BY SizeAssumption DEF Run!Op
<1>. QED  BY <1>1, AllApplyStays DEF Standing


MindHolds(p) == OnItsWay(p) /\ HasAsked(p) /\ HasBuilt(p) /\ HasJudged(p)

SameRun(q) ==
    /\ pc'[q] = pc[q] /\ seen'[q] = seen[q] /\ at'[q] = at[q]
    /\ held'[q] = held[q] /\ choice'[q] = choice[q]

ResponsesStay == \A i \in Run!Op : response[i] # None => response'[i] = response[i]

LEMMA AcceptedStays ==
  ASSUME Grows, NEW i \in Run!Op, AllApply(i - 1), NEW d, Accepted(i, d)
  PROVE  Accepted(i, d)'
<1>1. PICK m \in 0 .. i - 1 : m = Len(d.base)  BY DEF Accepted
<1>2. m \in 0 .. N /\ AllApply(m)  BY <1>1, SizeAssumption DEF Run!Op, AllApply
<1>3. Prefix(m)' = Prefix(m)  BY <1>2, AllApplyStays
<1>. QED  BY <1>1, <1>3 DEF Accepted, Prefix

LEMMA JudgedStays ==
  ASSUME RecordsRest, Grows, NEW q \in Proc, HasJudged(q),
         pc'[q] = pc[q], seen'[q] = seen[q], at'[q] = at[q], choice'[q] = choice[q]
  PROVE  HasJudged(q)'
<1>1. ASSUME pc[q] = "review", choice[q].decision = "replace"
      PROVE  /\ Len(seen[q]) \in 0 .. N /\ AllApply(Len(seen[q]))'
             /\ seen[q] = Prefix(Len(seen[q]))'
  <2>. DEFINE m == Len(seen[q])
  <2>1. m \in 0 .. N /\ AllApply(m) /\ seen[q] = Prefix(m)  BY <1>1 DEF HasJudged
  <2>2. \A n \in 0 .. N : AllApply(n) => AllApply(n)' /\ Prefix(n)' = Prefix(n)
    BY AllApplyStays
  <2>. QED  BY <1>1, <2>1, <2>2 DEF HasJudged, AllApply, Prefix
<1>2. ASSUME pc[q] \in Judging
      PROVE  /\ at[q] \in Run!Op /\ at[q] \in Reviewed /\ diff'[at[q]] # None
             /\ choice[q].decision = "replace" =>
                   Accepted(at[q], [base |-> seen[q], answer |-> choice[q].answer])'
  <2>1. at[q] \in Run!Op /\ at[q] \in Reviewed /\ diff[at[q]] # None  BY <1>2 DEF HasJudged
  <2>2. AllApply(at[q] - 1)  BY <2>1 DEF RecordsRest, DiffRests
  <2>. QED  BY <1>2, <2>1, <2>2, AcceptedStays DEF HasJudged, Grows
<1>. QED  BY <1>1, <1>2 DEF HasJudged

LEMMA MindStays ==
  ASSUME RecordsRest, Grows, ResponsesStay, NEW q \in Proc, MindHolds(q), SameRun(q),
         pc[q] \notin Run!Locked \/ UNCHANGED <<response, attempts>>
  PROVE  MindHolds(q)'
<1>1. OnItsWay(q)'  BY StandingStays DEF MindHolds, OnItsWay, SameRun
<1>2. HasAsked(q)'
  <2>1. CASE pc[q] \notin Run!Locked
    <3>1. pc[q] \notin {"execute", "ask", "asked", "inspect", "save"}
      BY <2>1 DEF Run!Locked
    <3>. QED  BY <3>1 DEF MindHolds, HasAsked, SameRun, Asking
  <2>2. CASE UNCHANGED <<response, attempts>>
    BY <2>2 DEF MindHolds, HasAsked, SameRun, Asking, InHand, Run!Latest, Allowed, WasBad
  <2>. QED  BY <2>1, <2>2
<1>3. HasBuilt(q)'
  <2>1. pc[q] \in Building => at[q] \in Run!Op  BY DEF MindHolds, OnItsWay
  <2>. QED  BY <2>1 DEF MindHolds, HasBuilt, SameRun, ResponsesStay
<1>4. HasJudged(q)'  BY JudgedStays DEF MindHolds, SameRun
<1>. QED  BY <1>1, <1>2, <1>3, <1>4 DEF MindHolds

RunInv == Run!TypeOK /\ RecordsRest /\ \A p \in Proc : MindHolds(p)

LEMMA RecordsStay ==
  ASSUME RecordsRest, UNCHANGED Run!disk
  PROVE  RecordsRest' /\ Grows /\ ResponsesStay
<1>. USE DEF Run!disk
<1>1. ASSUME NEW i \in Run!Op PROVE (DiffRests(i) /\ ReviewRests(i))'
  <2>1. i - 1 \in 0 .. N  BY SizeAssumption DEF Run!Op
  <2>2. Grows  BY DEF Grows
  <2>3. diff[i] # None => AllApply(i - 1)  BY DEF RecordsRest, DiffRests
  <2>4. DiffRests(i)'  BY <2>1, <2>2, AllApplyStays DEF RecordsRest, DiffRests
  <2>5. ReviewRests(i)'
    BY <2>2, <2>3, AcceptedStays DEF RecordsRest, DiffRests, ReviewRests
  <2>. QED  BY <2>4, <2>5
<1>2. ASSUME NEW i \in Run!Op PROVE (ResponseRests(i) /\ AskedRight(i))'
  BY DEF RecordsRest, ResponseRests, AskedRight, Run!Latest, Allowed, WasBad
<1>. QED  BY <1>1, <1>2 DEF RecordsRest, Grows, ResponsesStay

(* Only the process changes its mind. *)
Alone(p) == \A q \in Proc \ {p} : SameRun(q)

LEMMA OthersStay ==
  ASSUME RunInv, Grows, ResponsesStay, NEW p \in Proc, Alone(p),
         pc[p] \in Run!Locked \/ UNCHANGED <<response, attempts>>, NEW q \in Proc \ {p}
  PROVE  MindHolds(q)'
<1>1. pc[p] \in Run!Locked => pc[q] \notin Run!Locked  BY DEF RunInv, Run!TypeOK
<1>. QED  BY <1>1, MindStays DEF RunInv, Alone

(* What TypeOK says of the records, and of the processes. *)
DiskOK ==
    /\ request \in [Run!Op -> BOOLEAN]
    /\ attempts \in [Run!Op -> Seq(Run!Attempt)]
    /\ response \in [Run!Op -> Run!Written]
    /\ diff \in [Run!Op -> Run!Diff \cup {None}]
    /\ review \in [Run!Op -> Run!Review \cup {None}]

MindOK ==
    /\ lock \in Proc \cup {None} /\ crashes \in 0 .. MaxCrash
    /\ pc \in [Proc -> Run!Working \cup Run!Outcome]
    /\ seen \in [Proc -> Run!Workspace]
    /\ at \in [Proc -> Run!Op \cup {None}]
    /\ held \in [Proc -> Run!Written]
    /\ choice \in [Proc -> Run!Choice \cup {None}]
    /\ \A p \in Proc : pc[p] \in Run!Locked <=> lock = p

LEMMA TypesAre == Run!TypeOK <=> DiskOK /\ MindOK
BY DEF Run!TypeOK, DiskOK, MindOK

(* A step that writes no record. *)
LEMMA MindStep ==
  ASSUME RunInv, UNCHANGED Run!disk, NEW p \in Proc, Alone(p), MindOK', MindHolds(p)'
  PROVE  RunInv'
<1>1. RecordsRest' /\ Grows /\ ResponsesStay  BY RecordsStay DEF RunInv
<1>2. \A q \in Proc \ {p} : MindHolds(q)'  BY <1>1, OthersStay DEF Run!disk
<1>3. Run!TypeOK'  BY DEF RunInv, Run!TypeOK, MindOK, Run!disk
<1>. QED  BY <1>1, <1>2, <1>3 DEF RunInv

LEMMA EndsTyped ==
  ASSUME MindOK, NEW p \in Proc, NEW o \in Run!Outcome, Run!Ends(p, o), UNCHANGED crashes,
         (pc[p] \notin Run!Locked /\ lock' = lock) \/ (pc[p] \in Run!Locked /\ lock' = None)
  PROVE  MindOK' /\ MindHolds(p)' /\ Alone(p)
<1>1. Alone(p)  BY DEF MindOK, Alone, SameRun, Run!Ends, Run!Goes, Run!Knows
<1>2. pc'[p] = o /\ o \notin Run!Locked
      /\ o \notin Asking \cup Building \cup Judging \cup {"replace", "review"}
  BY DEF MindOK, Run!Ends, Run!Goes, Run!Outcome, Run!Locked, Asking, Building, Judging
<1>3. MindHolds(p)'
  BY <1>2 DEF MindHolds, OnItsWay, HasAsked, HasBuilt, HasJudged, Asking, Building,
     Judging, Run!Outcome
<1>4. /\ lock' \in Proc \cup {None} /\ crashes' \in 0 .. MaxCrash
      /\ pc' \in [Proc -> Run!Working \cup Run!Outcome]
  BY DEF MindOK, Run!Ends, Run!Goes
<1>5. /\ seen' \in [Proc -> Run!Workspace] /\ at' \in [Proc -> Run!Op \cup {None}]
      /\ held' \in [Proc -> Run!Written] /\ choice' \in [Proc -> Run!Choice \cup {None}]
  BY DEF MindOK, Run!Ends, Run!Knows, Run!Workspace, Run!Written
<1>6. \A q \in Proc : pc'[q] \in Run!Locked <=> lock' = q
  BY <1>1, <1>2, NoneAssumption DEF MindOK, Alone, SameRun
<1>. QED  BY <1>1, <1>3, <1>4, <1>5, <1>6 DEF MindOK

LEMMA GoesTyped ==
  ASSUME MindOK, NEW p \in Proc, NEW next \in Run!Working, Run!Goes(p, next),
         UNCHANGED crashes,
         \/ /\ next \in Run!Locked
            /\ (pc[p] \in Run!Locked /\ lock' = lock) \/ (lock = None /\ lock' = p)
         \/ next \notin Run!Locked /\ pc[p] \notin Run!Locked /\ lock' = lock
         \/ next \notin Run!Locked /\ pc[p] \in Run!Locked /\ lock' = None,
         \/ UNCHANGED Run!mind
         \/ \E b \in Run!Workspace, i \in Run!Op \cup {None}, a \in Run!Written, c \in Run!Choice \cup {None} :
               Run!Knows(p, b, i, a, c)
         \/ \E a \in Run!Written : Run!Holds(p, a)
  PROVE  MindOK' /\ Alone(p) /\ pc'[p] = next
<1>1. Alone(p) /\ pc'[p] = next
  BY DEF MindOK, Alone, SameRun, Run!Goes, Run!Knows, Run!Holds, Run!mind
<1>2. /\ lock' \in Proc \cup {None} /\ crashes' \in 0 .. MaxCrash
      /\ pc' \in [Proc -> Run!Working \cup Run!Outcome]
  BY DEF MindOK, Run!Goes
<1>3. /\ seen' \in [Proc -> Run!Workspace] /\ at' \in [Proc -> Run!Op \cup {None}]
      /\ held' \in [Proc -> Run!Written] /\ choice' \in [Proc -> Run!Choice \cup {None}]
  BY DEF MindOK, Run!Knows, Run!Holds, Run!mind
<1>4. \A q \in Proc : pc'[q] \in Run!Locked <=> lock' = q
  BY <1>1, NoneAssumption DEF MindOK, Alone, SameRun
<1>. QED  BY <1>1, <1>2, <1>3, <1>4 DEF MindOK

LEMMA InitHolds == Run!Init => RunInv
<1>. SUFFICES ASSUME Run!Init PROVE RunInv  OBVIOUS
<1>1. Run!TypeOK
  BY SizeAssumption, NoneAssumption DEF Run!Init, Run!TypeOK, Run!Written, Run!Workspace,
     Run!Outcome, Run!Locked, Run!Working
<1>2. RecordsRest
  BY SizeAssumption DEF Run!Init, RecordsRest, DiffRests, ReviewRests, ResponseRests,
     AskedRight, Allowed
<1>3. \A p \in Proc : MindHolds(p)
  BY DEF Run!Init, MindHolds, OnItsWay, HasAsked, HasBuilt, HasJudged, Asking, Building,
     Judging
<1>. QED  BY <1>1, <1>2, <1>3 DEF RunInv

LEMMA StartAdvanceKeeps == ASSUME RunInv, NEW p \in Proc, Run!StartAdvance(p) PROVE RunInv'
<1>1. pc[p] \notin Run!Locked /\ "look" \in Run!Working \ Run!Locked
  BY DEF Run!StartAdvance, Run!Idle, Run!Outcome, Run!Locked, Run!Working
<1>2. MindOK' /\ Alone(p) /\ pc'[p] = "look"
  BY <1>1, GoesTyped, TypesAre DEF Run!StartAdvance, RunInv
<1>4. MindHolds(p)'
  BY <1>2 DEF MindHolds, OnItsWay, HasAsked, HasBuilt, HasJudged, Asking, Building,
     Judging
<1>. QED  BY <1>2, <1>4, MindStep DEF Run!StartAdvance

LEMMA StartReviewKeeps == ASSUME RunInv, NEW p \in Proc, Run!StartReview(p) PROVE RunInv'
<1>1. PICK c \in Run!Choice :
        /\ Run!Knows(p, <<>>, None, None, c)
        /\ Run!Goes(p, IF c.decision = "replace" THEN "replace" ELSE "review")
        /\ UNCHANGED <<Run!disk, lock, crashes>>
  BY DEF Run!StartReview
<1>. DEFINE next == IF c.decision = "replace" THEN "replace" ELSE "review"
<1>2. pc[p] \notin Run!Locked /\ next \in Run!Working \ Run!Locked
  BY DEF Run!StartReview, Run!Idle, Run!Outcome, Run!Locked, Run!Working
<1>3. <<>> \in Run!Workspace /\ None \in Run!Written  BY DEF Run!Workspace, Run!Written
<1>. HIDE DEF next
<1>4. MindOK' /\ Alone(p) /\ pc'[p] = next
  BY <1>1, <1>2, <1>3, GoesTyped, TypesAre DEF RunInv, next
<1>5. choice'[p] = c  BY <1>1, TypesAre DEF Run!Knows, RunInv, MindOK
<1>6. MindHolds(p)'
  BY <1>4, <1>5 DEF next, MindHolds, OnItsWay, HasAsked, HasBuilt, HasJudged, Asking,
     Building, Judging
<1>. QED  BY <1>1, <1>4, <1>6, MindStep

LEMMA AppliedStands ==
  ASSUME Run!TypeOK
  PROVE  /\ Run!Completed \in 0 .. N /\ AllApply(Run!Completed)
         /\ Run!Applied = Prefix(Run!Completed) /\ Run!Applied \in Run!Workspace
            /\ Len(Run!Applied) = Run!Completed
         /\ \A m \in 0 .. N : AllApply(m) => m <= Run!Completed
<1>1. Run!Completed \in 0 .. N /\ AllApply(Run!Completed)
  BY CompletedIs DEF CompletedIsFirst, UpTo
<1>. DEFINE c == Run!Completed
<1>2. c \in Nat  BY <1>1, SizeAssumption
<1>3. ASSUME NEW k \in 1 .. c PROVE Run!Effective(k).answer \in Run!Written
  <2>1. k \in Run!Op  BY <1>1, SizeAssumption DEF Run!Op
  <2>2. Run!Decided(k)  BY <1>1 DEF AllApply, Run!Applies
  <2>3. Run!Effective(k) \in Run!Diff
    BY <2>1, <2>2 DEF Run!TypeOK, Run!Decided, Run!Effective, Run!Review
  <2>. QED  BY <2>3 DEF Run!Diff
<1>4. ASSUME NEW m \in 0 .. N, AllApply(m) PROVE m <= c
  <2>1. c < N => ~ Run!Applies(c + 1)  BY CompletedIs DEF CompletedIsFirst, UpTo
  <2>. HIDE DEF c
  <2>. QED  BY <1>2, <1>4, <2>1, SizeAssumption DEF AllApply
<1>5. Run!Applied = Prefix(c)  BY DEF Run!Applied, Prefix
<1>. HIDE DEF c
<1>6. Prefix(c) \in Run!Workspace /\ Len(Prefix(c)) = c
  BY <1>2, <1>3 DEF Prefix, Run!Workspace
<1>. QED  BY <1>1, <1>4, <1>5, <1>6 DEF c

LEMMA LookKeeps == ASSUME RunInv, NEW p \in Proc, Run!Look(p) PROVE RunInv'
<1>1. pc[p] = "look" /\ pc[p] \notin Run!Locked  BY DEF Run!Look, Run!Locked
<1>2. CASE Run!Status # "running"
  <2>1. Run!Ends(p, "over") /\ UNCHANGED <<Run!disk, lock, crashes>>  BY <1>2 DEF Run!Look
  <2>2. MindOK' /\ MindHolds(p)' /\ Alone(p)
    BY <1>1, <2>1, EndsTyped, TypesAre DEF RunInv, Run!Outcome
  <2>. QED  BY <2>1, <2>2, MindStep
<1>3. CASE Run!Status = "running"
  <2>. DEFINE next == IF Run!Following \in Modelled THEN "call" ELSE "build"
  <2>1. Run!Knows(p, Run!Applied, Run!Following, None, None) /\ Run!Goes(p, next)
        /\ UNCHANGED <<Run!disk, lock, crashes>>
    BY <1>3 DEF Run!Look
  <2>2. Run!Completed # N /\ Run!Completed \in 0 .. N /\ AllApply(Run!Completed)
        /\ Run!Applied = Prefix(Run!Completed)
        /\ Run!Applied \in Run!Workspace
    <3>1. Run!Completed # N  BY <1>3 DEF Run!Status
    <3>. QED  BY <3>1, AppliedStands DEF RunInv
  <2>3. Run!Following \in Run!Op /\ Run!Following - 1 = Run!Completed
    BY <2>2, SizeAssumption DEF Run!Following, Run!Op
  <2>4. next \in Run!Working \ Run!Locked  BY DEF Run!Working, Run!Locked
  <2>. HIDE DEF next
  <2>5. MindOK' /\ Alone(p) /\ pc'[p] = next
    <3>1. None \in Run!Written  BY DEF Run!Written
    <3>. QED  BY <1>1, <2>1, <2>2, <2>3, <2>4, <3>1, GoesTyped, TypesAre DEF RunInv
  <2>6. seen'[p] = Run!Applied /\ at'[p] = Run!Following /\ held'[p] = None
    BY <2>1, TypesAre DEF Run!Knows, RunInv, MindOK
  <2>7. Standing(Run!Following, Run!Applied)  BY <2>2, <2>3 DEF Standing
  <2>8. OnItsWay(p)'
    <3>1. Grows  BY <2>1, RecordsStay DEF RunInv
    <3>2. \A i \in Run!Op : \A b : Standing(i, b) => Standing(i, b)'  BY <3>1, StandingStays
    <3>. QED  BY <2>3, <2>6, <2>7, <3>2 DEF OnItsWay
  <2>9. MindHolds(p)'
    BY <2>5, <2>6, <2>8 DEF next, MindHolds, HasAsked, HasBuilt, HasJudged, Asking,
       Building, Judging
  <2>. QED  BY <2>1, <2>5, <2>9, MindStep
<1>. QED  BY <1>2, <1>3

LEMMA TakeLockKeeps == ASSUME RunInv, NEW p \in Proc, Run!TakeLock(p) PROVE RunInv'
<1>1. pc[p] \in {"call", "build", "decide"} /\ pc[p] \notin Run!Locked
  BY DEF Run!TakeLock, Run!Inside, Run!Locked
<1>2. CASE lock # None
  <2>1. Run!Ends(p, "unable") /\ UNCHANGED <<Run!disk, lock, crashes>>
    BY <1>2 DEF Run!TakeLock
  <2>2. MindOK' /\ MindHolds(p)' /\ Alone(p)
    BY <1>1, <2>1, EndsTyped, TypesAre DEF RunInv, Run!Outcome
  <2>. QED  BY <2>1, <2>2, MindStep
<1>3. CASE lock = None
  <2>. DEFINE next == Run!Inside[pc[p]]
  <2>1. lock' = p /\ Run!Goes(p, next) /\ UNCHANGED <<Run!mind, Run!disk, crashes>>
    BY <1>3 DEF Run!TakeLock
  <2>2. /\ pc[p] = "call" => next = "execute"
        /\ pc[p] = "build" => next = "keep"
        /\ pc[p] = "decide" => next = "note"
    BY DEF Run!Inside
  <2>3. next \in Run!Working /\ next \in Run!Locked
    BY <1>1, <2>2 DEF Run!Working, Run!Locked
  <2>. HIDE DEF next
  <2>4. MindOK' /\ Alone(p) /\ pc'[p] = next
    BY <1>1, <1>3, <2>1, <2>3, GoesTyped, TypesAre DEF RunInv
  <2>5. Grows /\ RecordsRest /\ MindHolds(p)  BY <2>1, RecordsStay DEF RunInv
  <2>6. OnItsWay(p)'
    <3>1. pc[p] \in {"call", "build"} => at[p] \in Run!Op /\ Standing(at[p], seen[p])
      BY <2>5 DEF MindHolds, OnItsWay, Asking, Building
    <3>2. pc[p] \in {"call", "build"} => Standing(at[p], seen[p])'
      BY <2>1, <2>5, <3>1, StandingStays DEF Run!mind
    <3>. QED  BY <1>1, <2>1, <2>2, <2>4, <3>1, <3>2
                 DEF OnItsWay, Asking, Building, Run!mind
  <2>7. HasAsked(p)' /\ HasBuilt(p)'
    BY <1>1, <2>1, <2>2, <2>4, <2>5 DEF MindHolds, HasAsked, HasBuilt, Asking, Building,
       Run!mind, Run!disk
  <2>8. HasJudged(p)'
    <3>1. CASE pc[p] = "decide"
      <4>1. choice[p] \in Run!Choice /\ at[p] \in Run!Op /\ at[p] \in Reviewed
            /\ diff[at[p]] # None
            /\ (choice[p].decision = "replace" =>
                   Accepted(at[p], [base |-> seen[p], answer |-> choice[p].answer]))
        BY <2>5, <3>1 DEF MindHolds, HasJudged, Judging
      <4>2. AllApply(at[p] - 1)  BY <2>5, <4>1 DEF RecordsRest, DiffRests
      <4>3. choice[p].decision = "replace" =>
               Accepted(at[p], [base |-> seen[p], answer |-> choice[p].answer])'
        BY <2>1, <2>5, <4>1, <4>2, AcceptedStays DEF Run!mind
      <4>. QED  BY <2>1, <2>2, <2>4, <3>1, <4>1, <4>3
                   DEF HasJudged, Judging, Run!mind, Run!disk
    <3>2. CASE pc[p] # "decide"
      BY <1>1, <2>2, <2>4, <3>2 DEF HasJudged, Judging
    <3>. QED  BY <3>1, <3>2
  <2>. QED  BY <2>1, <2>4, <2>6, <2>7, <2>8, MindStep DEF MindHolds
<1>. QED  BY <1>2, <1>3

LEMMA DiffsStay ==
  ASSUME RecordsRest, UNCHANGED <<diff, review>>, ResponsesStay
  PROVE  Grows /\ \A i \in Run!Op : DiffRests(i)' /\ ReviewRests(i)'
<1>1. Grows  BY DEF Grows
<1>2. ASSUME NEW i \in Run!Op PROVE (DiffRests(i) /\ ReviewRests(i))'
  <2>1. i - 1 \in 0 .. N  BY SizeAssumption DEF Run!Op
  <2>2. diff[i] # None => AllApply(i - 1)  BY DEF RecordsRest, DiffRests
  <2>3. DiffRests(i)'
    BY <1>1, <2>1, AllApplyStays DEF RecordsRest, DiffRests, ResponsesStay
  <2>4. ReviewRests(i)'
    BY <1>1, <2>2, AcceptedStays DEF RecordsRest, DiffRests, ReviewRests
  <2>. QED  BY <2>3, <2>4
<1>. QED  BY <1>1, <1>2

(* A step that writes about the attempts of one operation, or its response. *)
LEMMA AttemptsStep ==
  ASSUME RunInv, UNCHANGED <<diff, review>>, ResponsesStay, NEW i \in Run!Op,
         \A j \in Run!Op \ {i} : attempts'[j] = attempts[j] /\ response'[j] = response[j],
         AskedRight(i)', ResponseRests(i)', DiskOK',
         NEW p \in Proc, Alone(p), pc[p] \in Run!Locked, MindOK', MindHolds(p)'
  PROVE  RunInv'
<1>1. Grows /\ \A j \in Run!Op : DiffRests(j)' /\ ReviewRests(j)'  BY DiffsStay DEF RunInv
<1>2. ASSUME NEW j \in Run!Op PROVE ResponseRests(j)' /\ AskedRight(j)'
  <2>1. CASE j = i  BY <2>1
  <2>2. CASE j # i
    <3>1. ResponseRests(j) /\ AskedRight(j)  BY DEF RunInv, RecordsRest
    <3>2. attempts'[j] = attempts[j] /\ response'[j] = response[j]  BY <2>2
    <3>3. ResponseRests(j)'  BY <3>1, <3>2 DEF ResponseRests, Run!Latest
    <3>4. AskedRight(j)'  BY <3>1, <3>2 DEF AskedRight, Allowed, WasBad
    <3>. QED  BY <3>3, <3>4
  <2>. QED  BY <2>1, <2>2
<1>3. RecordsRest'  BY <1>1, <1>2 DEF RecordsRest
<1>4. \A q \in Proc \ {p} : MindHolds(q)'  BY <1>1, OthersStay
<1>5. Run!TypeOK'  BY DEF Run!TypeOK, DiskOK, MindOK
<1>. QED  BY <1>3, <1>4, <1>5 DEF RunInv

LEMMA OnItsWayStays ==
  ASSUME NEW p \in Proc, OnItsWay(p), Grows, pc[p] \in Asking \cup Building,
         seen'[p] = seen[p], at'[p] = at[p]
  PROVE  OnItsWay(p)'
BY StandingStays DEF OnItsWay

LEMMA ReserveKeeps == ASSUME RunInv, NEW p \in Proc, Run!Reserve(p) PROVE RunInv'
<1>0. PICK i \in Run!Op : i = at[p]  BY DEF Run!Reserve, RunInv, MindHolds, OnItsWay, Asking
<1>. DEFINE new == Append(attempts[i], [answer |-> None, ended |-> "open"])
<1>1. /\ pc[p] = "ask" /\ attempts' = [attempts EXCEPT ![i] = new] /\ Run!Goes(p, "asked")
      /\ UNCHANGED <<request, response, diff, review, lock, crashes, Run!mind>>
  BY <1>0 DEF Run!Reserve
<1>2. pc[p] \in Run!Locked /\ pc[p] \in Asking /\ "asked" \in Run!Working
      /\ "asked" \in Run!Locked
  BY <1>1 DEF Run!Locked, Asking, Run!Working
<1>3. i \in Modelled /\ OnItsWay(p) /\ response[i] = None /\ Len(attempts[i]) < Allowed(i)
      /\ (\A k \in 1 .. Len(attempts[i]) : WasBad(attempts[i][k])) /\ AskedRight(i)
  BY <1>0, <1>1, <1>2 DEF RunInv, MindHolds, OnItsWay, HasAsked, RecordsRest
<1>4. MindOK' /\ Alone(p) /\ pc'[p] = "asked"
  BY <1>1, <1>2, GoesTyped, TypesAre DEF RunInv
<1>5. attempts \in [Run!Op -> Seq(Run!Attempt)] /\ attempts[i] \in Seq(Run!Attempt)
  BY <1>3 DEF RunInv, Run!TypeOK
<1>6. [answer |-> None, ended |-> "open"] \in Run!Attempt  BY DEF Run!Attempt, Run!Written
<1>7. /\ new \in Seq(Run!Attempt) /\ Len(new) = Len(attempts[i]) + 1
         /\ Len(attempts[i]) \in Nat
      /\ \A k \in 1 .. Len(attempts[i]) : new[k] = attempts[i][k]
      /\ new[Len(attempts[i]) + 1].ended = "open" /\ new # <<>>
  BY <1>5, <1>6
<1>. HIDE DEF new
<1>8. attempts'[i] = new /\ \A j \in Run!Op \ {i} : attempts'[j] = attempts[j]
  BY <1>1, <1>3, <1>5
<1>9. Allowed(i) \in Nat  BY SizeAssumption DEF Allowed
<1>10. AskedRight(i)'
  <2>1. (Len(new) <= Allowed(i))  BY <1>3, <1>7, <1>9
  <2>2. \A k \in 1 .. Len(new) - 1 : WasBad(new[k])
    <3>1. \A k \in 1 .. Len(new) - 1 : k \in 1 .. Len(attempts[i])  BY <1>7
    <3>. QED  BY <1>3, <1>7, <3>1
  <2>3. \A k \in 1 .. Len(new) : new[k].ended = "completed" => new[k].answer \in Answer
    <3>1. \A k \in 1 .. Len(new) : k \in 1 .. Len(attempts[i]) \/ k = Len(attempts[i]) + 1
      BY <1>7
    <3>. QED  BY <1>3, <1>7, <3>1 DEF AskedRight
  <2>. QED  BY <1>3, <1>8, <2>1, <2>2, <2>3 DEF AskedRight, Allowed, WasBad
<1>11. DiskOK'
  <2>1. attempts' \in [Run!Op -> Seq(Run!Attempt)]  BY <1>1, <1>5, <1>7
  <2>. QED  BY <1>1, <2>1 DEF DiskOK, RunInv, Run!TypeOK
<1>12. Grows /\ ResponsesStay  BY <1>1 DEF Grows, ResponsesStay
<1>13. ResponseRests(i)'  BY <1>1, <1>3 DEF ResponseRests
<1>14. MindHolds(p)'
  <2>1. seen'[p] = seen[p] /\ at'[p] = i  BY <1>0, <1>1 DEF Run!mind
  <2>2. OnItsWay(p)'  BY <1>0, <1>2, <1>3, <1>12, <2>1, OnItsWayStays
  <2>3. HasAsked(p)'
    BY <1>1, <1>3, <1>4, <1>7, <1>8, <2>1 DEF HasAsked, Asking
  <2>4. HasBuilt(p)' /\ HasJudged(p)'  BY <1>4 DEF HasBuilt, HasJudged, Building, Judging
  <2>. QED  BY <2>2, <2>3, <2>4 DEF MindHolds
<1>. QED
  <2>1. UNCHANGED <<diff, review, response>>  BY <1>1
  <2>. QED  BY <1>2, <1>3, <1>4, <1>8, <1>10, <1>11, <1>12, <1>13, <1>14, <2>1,
               AttemptsStep

(* The end of an invocation that has the lock. *)
LEMMA LeavesTyped ==
  ASSUME RunInv, NEW p \in Proc, NEW o \in Run!Outcome, pc[p] \in Run!Locked,
         Run!Leaves(p, o), UNCHANGED crashes
  PROVE  MindOK' /\ MindHolds(p)' /\ Alone(p)
BY EndsTyped, TypesAre DEF RunInv, Run!Leaves

LEMMA ExecuteKeeps == ASSUME RunInv, NEW p \in Proc, Run!Execute(p) PROVE RunInv'
<1>0. PICK i \in Run!Op : i = at[p]  BY DEF Run!Execute, RunInv, MindHolds, OnItsWay, Asking
<1>1. pc[p] = "execute" /\ pc[p] \in Run!Locked /\ pc[p] \in Asking /\ i \in Modelled
      /\ OnItsWay(p)
      /\ UNCHANGED <<attempts, response, diff, review, crashes>>
  BY <1>0 DEF Run!Execute, Run!Locked, Asking, RunInv, MindHolds, HasAsked
<1>2. AskedRight(i) /\ ResponseRests(i) /\ attempts[i] \in Seq(Run!Attempt)
      /\ response[i] \in Run!Written
  BY DEF RunInv, RecordsRest, Run!TypeOK
<1>3. Grows /\ ResponsesStay  BY <1>1 DEF Grows, ResponsesStay
<1>4. AskedRight(i)' /\ ResponseRests(i)'
  BY <1>1, <1>2 DEF AskedRight, ResponseRests, Run!Latest, Allowed, WasBad
<1>5. request' \in [Run!Op -> BOOLEAN] => DiskOK'
  BY <1>1 DEF DiskOK, RunInv, Run!TypeOK
<1>6. request \in [Run!Op -> BOOLEAN]  BY DEF RunInv, Run!TypeOK
<1>7. request' \in [Run!Op -> BOOLEAN] /\ MindOK' /\ Alone(p) /\ MindHolds(p)'
  <2>1. CASE response[i] # None
    <3>1. lock' = None /\ Run!Holds(p, response[i]) /\ Run!Goes(p, "build")
          /\ UNCHANGED request
      BY <1>0, <2>1 DEF Run!Execute
    <3>2. "build" \in Run!Working /\ "build" \notin Run!Locked
      BY DEF Run!Working, Run!Locked
    <3>3. MindOK' /\ Alone(p) /\ pc'[p] = "build"
      BY <1>1, <1>2, <3>1, <3>2, GoesTyped, TypesAre DEF RunInv
    <3>4. seen'[p] = seen[p] /\ at'[p] = i /\ held'[p] = response[i]
      BY <1>0, <3>1 DEF Run!Holds, RunInv, Run!TypeOK
    <3>5. OnItsWay(p)'  BY <1>0, <1>1, <1>3, <3>4, OnItsWayStays
    <3>6. HasAsked(p)' /\ HasJudged(p)' /\ HasBuilt(p)'
      BY <1>1, <2>1, <3>3, <3>4 DEF HasAsked, HasJudged, HasBuilt, Asking, Building,
         Judging
    <3>. QED  BY <1>6, <3>1, <3>3, <3>5, <3>6 DEF MindHolds
  <2>2. CASE response[i] = None /\ attempts[i] # <<>> /\ Run!Latest(i).ended # "completed"
    <3>1. Run!Leaves(p, "over") /\ UNCHANGED request  BY <1>0, <2>2 DEF Run!Execute
    <3>. QED  BY <1>1, <1>6, <3>1, LeavesTyped DEF Run!Outcome
  <2>3. CASE response[i] = None /\ attempts[i] # <<>> /\ Run!Latest(i).ended = "completed"
    <3>. DEFINE next == IF i \in Checked THEN "inspect" ELSE "save"
    <3>1. Run!Holds(p, Run!Latest(i).answer) /\ Run!Goes(p, next)
          /\ UNCHANGED <<lock, request>>
      BY <1>0, <2>3 DEF Run!Execute
    <3>2. next \in Run!Working /\ next \in Run!Locked  BY DEF Run!Working, Run!Locked
    <3>3. Len(attempts[i]) \in 1 .. Len(attempts[i]) /\ Run!Latest(i) \in Run!Attempt
      BY <1>2, <2>3 DEF Run!Latest
    <3>4. Run!Latest(i).answer \in Answer  BY <1>2, <2>3, <3>3 DEF AskedRight, Run!Latest
    <3>5. Run!Latest(i) = [answer |-> Run!Latest(i).answer, ended |-> "completed"]
      BY <2>3, <3>3 DEF Run!Attempt
    <3>. HIDE DEF next
    <3>6. MindOK' /\ Alone(p) /\ pc'[p] = next
      BY <1>1, <3>1, <3>2, <3>4, GoesTyped, TypesAre DEF RunInv, Run!Written
    <3>7. seen'[p] = seen[p] /\ at'[p] = i /\ held'[p] = Run!Latest(i).answer
      BY <1>0, <3>1 DEF Run!Holds, RunInv, Run!TypeOK
    <3>8. OnItsWay(p)'  BY <1>0, <1>1, <1>3, <3>7, OnItsWayStays
    <3>9. InHand(i, Run!Latest(i).answer)'
      BY <1>1, <2>3, <3>4, <3>5 DEF InHand, Run!Latest
    <3>10. HasAsked(p)'
      BY <1>1, <2>3, <3>4, <3>5, <3>6, <3>7 DEF next, HasAsked, Asking, InHand,
         Run!Latest
    <3>11. HasJudged(p)' /\ HasBuilt(p)'
      BY <3>6 DEF next, HasJudged, HasBuilt, Building, Judging
    <3>. QED  BY <1>6, <3>1, <3>6, <3>8, <3>10, <3>11 DEF MindHolds
  <2>4. CASE response[i] = None /\ attempts[i] = <<>>
    <3>1. \/ Run!Leaves(p, "unable") /\ UNCHANGED request
          \/ request' = [request EXCEPT ![i] = TRUE] /\ Run!Goes(p, "ask")
             /\ UNCHANGED <<Run!mind, lock>>
      BY <1>0, <2>4 DEF Run!Execute
    <3>2. CASE Run!Leaves(p, "unable") /\ UNCHANGED request
      BY <1>1, <1>6, <3>2, LeavesTyped DEF Run!Outcome
    <3>3. CASE request' = [request EXCEPT ![i] = TRUE] /\ Run!Goes(p, "ask")
               /\ UNCHANGED <<Run!mind, lock>>
      <4>1. "ask" \in Run!Working /\ "ask" \in Run!Locked  BY DEF Run!Working, Run!Locked
      <4>2. MindOK' /\ Alone(p) /\ pc'[p] = "ask"
        BY <1>1, <3>3, <4>1, GoesTyped, TypesAre DEF RunInv
      <4>3. seen'[p] = seen[p] /\ at'[p] = i  BY <1>0, <3>3 DEF Run!mind
      <4>4. OnItsWay(p)'  BY <1>0, <1>1, <1>3, <4>3, OnItsWayStays
      <4>5. Allowed(i) \in Nat \ {0}  BY SizeAssumption DEF Allowed
      <4>6. Len(attempts[i]) = 0  BY <2>4
      <4>7. HasAsked(p)'
        BY <1>1, <2>4, <4>2, <4>3, <4>5, <4>6 DEF HasAsked, Asking, Allowed
      <4>8. HasJudged(p)' /\ HasBuilt(p)'
        BY <4>2 DEF HasJudged, HasBuilt, Building, Judging
      <4>9. request' \in [Run!Op -> BOOLEAN]  BY <1>6, <3>3
      <4>. QED  BY <4>2, <4>4, <4>7, <4>8, <4>9 DEF MindHolds
    <3>. QED  BY <3>1, <3>2, <3>3
  <2>. QED  BY <2>1, <2>2, <2>3, <2>4
<1>. QED
  <2>1. UNCHANGED <<diff, review>>  BY <1>1
  <2>2. \A j \in Run!Op \ {i} : attempts'[j] = attempts[j] /\ response'[j] = response[j]
    BY <1>1
  <2>. QED  BY <1>1, <1>3, <1>4, <1>5, <1>7, <2>1, <2>2, AttemptsStep

LEMMA SettleHolds ==
  ASSUME RunInv, NEW p \in Proc, pc[p] = "asked", NEW i \in Run!Op, i = at[p],
         NEW a \in Run!Written, NEW how \in {"completed", "failed", "interrupted"},
         how = "completed" => a \in Answer,
         Run!Settle(i, a, how), UNCHANGED <<request, response, diff, review, crashes>>
  PROVE  /\ AskedRight(i)' /\ ResponseRests(i)' /\ DiskOK' /\ ResponsesStay /\ Grows
         /\ \A j \in Run!Op \ {i} : attempts'[j] = attempts[j] /\ response'[j] = response[j]
         /\ attempts'[i] # <<>> /\ response'[i] = None
         /\ Run!Latest(i)' = [answer |-> a, ended |-> how]
<1>. DEFINE new == [attempts[i] EXCEPT ![Len(attempts[i])] = [answer |-> a, ended |-> how]]
<1>1. attempts' = [attempts EXCEPT ![i] = new]  BY DEF Run!Settle
<1>2. AskedRight(i) /\ response[i] = None /\ attempts[i] # <<>>
  BY DEF RunInv, RecordsRest, MindHolds, HasAsked
<1>3. attempts \in [Run!Op -> Seq(Run!Attempt)] /\ attempts[i] \in Seq(Run!Attempt)
  BY DEF RunInv, Run!TypeOK
<1>4. [answer |-> a, ended |-> how] \in Run!Attempt  BY DEF Run!Attempt
<1>5. Len(attempts[i]) \in Nat /\ Len(attempts[i]) > 0  BY <1>2, <1>3
<1>6. /\ new \in Seq(Run!Attempt) /\ Len(new) = Len(attempts[i]) /\ new # <<>>
      /\ new[Len(new)] = [answer |-> a, ended |-> how]
      /\ \A k \in 1 .. Len(new) - 1 : new[k] = attempts[i][k]
  BY <1>3, <1>4, <1>5
<1>. HIDE DEF new
<1>7. attempts'[i] = new /\ \A j \in Run!Op \ {i} : attempts'[j] = attempts[j]
  BY <1>1, <1>3
<1>8. AskedRight(i)'
  <2>1. \A k \in 1 .. Len(new) - 1 : WasBad(new[k])  BY <1>2, <1>6 DEF AskedRight
  <2>2. \A k \in 1 .. Len(new) : new[k].ended = "completed" => new[k].answer \in Answer
    <3>1. \A k \in 1 .. Len(new) : k \in 1 .. Len(new) - 1 \/ k = Len(new)  BY <1>5, <1>6
    <3>2. \A k \in 1 .. Len(new) - 1 : k \in 1 .. Len(attempts[i])  BY <1>5, <1>6
    <3>. QED  BY <1>2, <1>6, <3>1, <3>2 DEF AskedRight
  <2>. QED  BY <1>2, <1>6, <1>7, <2>1, <2>2 DEF AskedRight, Allowed, WasBad
<1>9. DiskOK'
  <2>1. attempts' \in [Run!Op -> Seq(Run!Attempt)]  BY <1>1, <1>3, <1>6
  <2>. QED  BY <2>1 DEF DiskOK, RunInv, Run!TypeOK
<1>10. ResponsesStay /\ Grows  BY DEF ResponsesStay, Grows
<1>11. ResponseRests(i)'  BY <1>2 DEF ResponseRests
<1>12. Run!Latest(i)' = [answer |-> a, ended |-> how]  BY <1>6, <1>7 DEF Run!Latest
<1>. QED  BY <1>2, <1>6, <1>7, <1>8, <1>9, <1>10, <1>11, <1>12

LEMMA FinishKeeps == ASSUME RunInv, NEW p \in Proc, Run!Finish(p) PROVE RunInv'
<1>0. PICK i \in Run!Op : i = at[p]  BY DEF Run!Finish, RunInv, MindHolds, OnItsWay, Asking
<1>1. pc[p] = "asked" /\ pc[p] \in Run!Locked /\ pc[p] \in Asking /\ i \in Modelled
      /\ OnItsWay(p)
      /\ UNCHANGED <<request, response, diff, review, crashes>>
  BY <1>0 DEF Run!Finish, Run!Locked, Asking, RunInv, MindHolds, HasAsked
<1>2. ASSUME NEW how \in {"failed", "interrupted"}, Run!Settle(i, None, how), Run!Leaves(p, "over")
      PROVE  RunInv'
  <2>1. None \in Run!Written /\ how # "completed" /\ "over" \in Run!Outcome
    BY DEF Run!Written, Run!Outcome
  <2>2. MindOK' /\ MindHolds(p)' /\ Alone(p)  BY <1>1, <1>2, <2>1, LeavesTyped
  <2>3. /\ AskedRight(i)' /\ ResponseRests(i)' /\ DiskOK' /\ ResponsesStay
        /\ \A j \in Run!Op \ {i} : attempts'[j] = attempts[j] /\ response'[j] = response[j]
    BY <1>0, <1>1, <1>2, <2>1, SettleHolds
  <2>. QED  BY <1>1, <2>2, <2>3, AttemptsStep
<1>3. ASSUME NEW a \in Answer, Run!Settle(i, a, "completed"), Run!Holds(p, a),
             Run!Goes(p, IF i \in Checked THEN "inspect" ELSE "save"), UNCHANGED lock
      PROVE  RunInv'
  <2>. DEFINE next == IF i \in Checked THEN "inspect" ELSE "save"
  <2>1. a \in Run!Written /\ next \in Run!Working /\ next \in Run!Locked
    BY DEF Run!Written, Run!Working, Run!Locked
  <2>. HIDE DEF next
  <2>2. MindOK' /\ Alone(p) /\ pc'[p] = next
    <3>1. Run!Goes(p, next)  BY <1>3 DEF next
    <3>. QED  BY <1>1, <1>3, <2>1, <3>1, GoesTyped, TypesAre DEF RunInv
  <2>3. seen'[p] = seen[p] /\ at'[p] = i /\ held'[p] = a
    BY <1>0, <1>3 DEF Run!Holds, RunInv, Run!TypeOK
  <2>4. /\ AskedRight(i)' /\ ResponseRests(i)' /\ DiskOK' /\ ResponsesStay /\ Grows
        /\ \A j \in Run!Op \ {i} : attempts'[j] = attempts[j] /\ response'[j] = response[j]
        /\ attempts'[i] # <<>> /\ response'[i] = None
        /\ Run!Latest(i)' = [answer |-> a, ended |-> "completed"]
    BY <1>0, <1>1, <1>3, <2>1, SettleHolds
  <2>5. OnItsWay(p)'  BY <1>0, <1>1, <2>3, <2>4, OnItsWayStays
  <2>6. HasAsked(p)'
    BY <1>1, <2>2, <2>3, <2>4 DEF next, HasAsked, Asking, InHand, Run!Latest
  <2>7. HasJudged(p)' /\ HasBuilt(p)'
    BY <2>2 DEF next, HasJudged, HasBuilt, Building, Judging
  <2>8. MindHolds(p)'  BY <2>5, <2>6, <2>7 DEF MindHolds
  <2>. QED  BY <1>1, <2>2, <2>4, <2>8, AttemptsStep
<1>. QED  BY <1>0, <1>1, <1>2, <1>3 DEF Run!Finish

(* All that an operation reads is in a workspace on which it may build.    *)
LEMMA UsesStand ==
  ASSUME NEW i \in Run!Op, NEW b, Standing(i, b)
  PROVE  Uses[i] \subseteq DOMAIN b
<1>1. DOMAIN b = 1 .. i - 1  BY DEF Standing, Prefix
<1>2. ASSUME NEW k \in Uses[i] PROVE k \in 1 .. i - 1
  <2>1. k \in 1 .. N /\ k < i /\ i \in 1 .. N  BY UsesAssumption DEF Run!Op
  <2>. QED  BY <2>1, SizeAssumption
<1>. QED  BY <1>1, <1>2

LEMMA InspectKeeps == ASSUME RunInv, NEW p \in Proc, Run!Inspect(p) PROVE RunInv'
<1>0. PICK i \in Run!Op : i = at[p]  BY DEF Run!Inspect, RunInv, MindHolds, OnItsWay, Asking
<1>1. pc[p] = "inspect" /\ pc[p] \in Run!Locked /\ pc[p] \in Asking /\ i \in Checked
      /\ i \in Modelled
      /\ OnItsWay(p) /\ Standing(i, seen[p]) /\ InHand(i, held[p]) /\ response[i] = None
      /\ AskedRight(i) /\ attempts[i] \in Seq(Run!Attempt)
      /\ UNCHANGED <<Run!disk, crashes>>
  BY <1>0 DEF Run!Inspect, Run!Locked, Asking, RunInv, Run!TypeOK, RecordsRest,
     MindHolds, OnItsWay, HasAsked
<1>2. Grows  BY <1>1 DEF Grows, Run!disk
<1>3. CASE Run!Leaves(p, "unable")
  <2>1. MindOK' /\ MindHolds(p)' /\ Alone(p)  BY <1>1, <1>3, LeavesTyped DEF Run!Outcome
  <2>. QED  BY <1>1, <2>1, MindStep
<1>4. CASE /\ Run!Flawed(i, Run!Built(p)) /\ Len(attempts[i]) < RepairLimit + 1
           /\ Run!Goes(p, "ask") /\ UNCHANGED <<Run!mind, lock>>
  <2>1. "ask" \in Run!Working /\ "ask" \in Run!Locked  BY DEF Run!Working, Run!Locked
  <2>2. MindOK' /\ Alone(p) /\ pc'[p] = "ask"
    BY <1>1, <1>4, <2>1, GoesTyped, TypesAre DEF RunInv
  <2>3. seen'[p] = seen[p] /\ at'[p] = i  BY <1>0, <1>4 DEF Run!mind
  <2>4. OnItsWay(p)'  BY <1>0, <1>1, <1>2, <2>3, OnItsWayStays
  <2>5. held[p] \in Bad
    <3>2. Run!Built(p).base = seen[p] /\ Run!Built(p).answer = held[p]  BY DEF Run!Built
    <3>3. Uses[i] \subseteq DOMAIN seen[p]  BY <1>1, UsesStand
    <3>. QED  BY <1>1, <1>4, <3>2, <3>3 DEF Run!Flawed
  <2>6. \A k \in 1 .. Len(attempts[i]) : WasBad(attempts[i][k])
    <3>1. WasBad(Run!Latest(i))  BY <1>1, <2>5 DEF InHand, WasBad
    <3>2. \A k \in 1 .. Len(attempts[i]) : k \in 1 .. Len(attempts[i]) - 1 \/ k = Len(attempts[i])
      BY <1>1
    <3>. QED  BY <1>1, <3>1, <3>2 DEF AskedRight, Run!Latest
  <2>7. Len(attempts[i]) < Allowed(i)  BY <1>1, <1>4 DEF Allowed
  <2>8. HasAsked(p)'
    BY <1>1, <2>2, <2>3, <2>6, <2>7 DEF HasAsked, Asking, Allowed, Run!disk, WasBad
  <2>9. HasJudged(p)' /\ HasBuilt(p)'  BY <2>2 DEF HasJudged, HasBuilt, Building, Judging
  <2>. QED  BY <1>1, <2>2, <2>4, <2>8, <2>9, MindStep DEF MindHolds
<1>5. CASE Run!Goes(p, "save") /\ UNCHANGED <<Run!mind, lock>>
  <2>1. "save" \in Run!Working /\ "save" \in Run!Locked  BY DEF Run!Working, Run!Locked
  <2>2. MindOK' /\ Alone(p) /\ pc'[p] = "save"
    BY <1>1, <1>5, <2>1, GoesTyped, TypesAre DEF RunInv
  <2>3. seen'[p] = seen[p] /\ at'[p] = i /\ held'[p] = held[p]  BY <1>0, <1>5 DEF Run!mind
  <2>4. OnItsWay(p)'  BY <1>0, <1>1, <1>2, <2>3, OnItsWayStays
  <2>5. HasAsked(p)'
    BY <1>1, <2>2, <2>3 DEF HasAsked, Asking, Run!disk, InHand, Run!Latest
  <2>6. HasJudged(p)' /\ HasBuilt(p)'  BY <2>2 DEF HasJudged, HasBuilt, Building, Judging
  <2>. QED  BY <1>1, <2>2, <2>4, <2>5, <2>6, MindStep DEF MindHolds
<1>. QED  BY <1>0, <1>3, <1>4, <1>5 DEF Run!Inspect

LEMMA SaveKeeps ==
  ASSUME RunInv, NEW p \in Proc, Run!Save(p) PROVE RunInv' /\ pc'[p] # "conflict"
<1>0. PICK i \in Run!Op : i = at[p]  BY DEF Run!Save, RunInv, MindHolds, OnItsWay, Asking
<1>1. pc[p] = "save" /\ pc[p] \in Run!Locked /\ pc[p] \in Asking /\ i \in Modelled
      /\ OnItsWay(p) /\ InHand(i, held[p]) /\ response[i] = None
      /\ UNCHANGED <<request, attempts, diff, review, crashes>>
  BY <1>0 DEF Run!Save, Run!Locked, Asking, RunInv, MindHolds, OnItsWay, HasAsked
<1>2. /\ response' = [response EXCEPT ![i] = held[p]]
      /\ lock' = None /\ Run!Goes(p, "build") /\ UNCHANGED Run!mind
  BY <1>0, <1>1 DEF Run!Save
<1>3. held[p] \in Answer /\ held[p] # None /\ held[p] \in Run!Written
      /\ response \in [Run!Op -> Run!Written]
  BY <1>1, NoneAssumption DEF InHand, Run!Written, RunInv, Run!TypeOK
<1>4. response'[i] = held[p] /\ \A j \in Run!Op \ {i} : response'[j] = response[j]
  BY <1>2, <1>3
<1>5. "build" \in Run!Working /\ "build" \notin Run!Locked  BY DEF Run!Working, Run!Locked
<1>6. MindOK' /\ Alone(p) /\ pc'[p] = "build"
  BY <1>1, <1>2, <1>5, GoesTyped, TypesAre DEF RunInv
<1>7. Grows /\ ResponsesStay  BY <1>1, <1>4 DEF Grows, ResponsesStay
<1>8. AskedRight(i)'
  <2>1. AskedRight(i)  BY DEF RunInv, RecordsRest
  <2>. QED  BY <1>1, <2>1 DEF AskedRight, Allowed, WasBad
<1>9. ResponseRests(i)'  BY <1>1, <1>4 DEF ResponseRests, InHand, Run!Latest
<1>10. DiskOK'
  <2>1. response' \in [Run!Op -> Run!Written]  BY <1>2, <1>3
  <2>. QED  BY <1>1, <2>1 DEF DiskOK, RunInv, Run!TypeOK
<1>11. seen'[p] = seen[p] /\ at'[p] = i /\ held'[p] = held[p]  BY <1>0, <1>2 DEF Run!mind
<1>12. OnItsWay(p)'  BY <1>0, <1>1, <1>7, <1>11, OnItsWayStays
<1>13. HasAsked(p)' /\ HasJudged(p)' /\ HasBuilt(p)'
  BY <1>1, <1>3, <1>4, <1>6, <1>11 DEF HasAsked, HasJudged, HasBuilt, Asking, Building,
     Judging
<1>14. MindHolds(p)'  BY <1>12, <1>13 DEF MindHolds
<1>15. UNCHANGED <<diff, review>> /\ \A j \in Run!Op \ {i} : attempts'[j] = attempts[j]
       /\ response'[j] = response[j]
  BY <1>1, <1>4
<1>. QED  BY <1>1, <1>6, <1>7, <1>8, <1>9, <1>10, <1>14, <1>15, AttemptsStep

(* A step that records a diff or a review of one operation. *)
LEMMA RecordStep ==
  ASSUME RunInv, UNCHANGED <<request, attempts, response>>, Grows, NEW i \in Run!Op,
         \A j \in Run!Op \ {i} : diff'[j] = diff[j] /\ review'[j] = review[j],
         DiffRests(i)', ReviewRests(i)',
         diff' \in [Run!Op -> Run!Diff \cup {None}], review' \in [Run!Op -> Run!Review \cup {None}],
         NEW p \in Proc, Alone(p), pc[p] \in Run!Locked, MindOK', MindHolds(p)'
  PROVE  RunInv'
<1>1. ResponsesStay  BY DEF ResponsesStay
<1>2. ASSUME NEW j \in Run!Op PROVE DiffRests(j)' /\ ReviewRests(j)'
  <2>1. CASE j = i  BY <2>1
  <2>2. CASE j # i
    <3>1. j - 1 \in 0 .. N  BY SizeAssumption DEF Run!Op
    <3>2. DiffRests(j) /\ ReviewRests(j) /\ diff'[j] = diff[j] /\ review'[j] = review[j]
      BY <2>2 DEF RunInv, RecordsRest
    <3>3. diff[j] # None => AllApply(j - 1)  BY <3>2 DEF DiffRests
    <3>4. DiffRests(j)'  BY <3>1, <3>2, <3>3, AllApplyStays DEF DiffRests
    <3>5. ReviewRests(j)'  BY <3>2, <3>3, AcceptedStays DEF ReviewRests
    <3>. QED  BY <3>4, <3>5
  <2>. QED  BY <2>1, <2>2
<1>3. ASSUME NEW j \in Run!Op PROVE ResponseRests(j)' /\ AskedRight(j)'
  <2>1. ResponseRests(j) /\ AskedRight(j)  BY DEF RunInv, RecordsRest
  <2>2. ResponseRests(j)'  BY <2>1 DEF ResponseRests, Run!Latest
  <2>3. AskedRight(j)'  BY <2>1 DEF AskedRight, Allowed, WasBad
  <2>. QED  BY <2>2, <2>3
<1>4. RecordsRest'  BY <1>2, <1>3 DEF RecordsRest
<1>5. \A q \in Proc \ {p} : MindHolds(q)'  BY <1>1, OthersStay
<1>6. Run!TypeOK'  BY DEF RunInv, Run!TypeOK, MindOK
<1>. QED  BY <1>4, <1>5, <1>6 DEF RunInv

(* The diff that a process is about to record is new, or the same. *)
LEMMA BuiltIsKept ==
  ASSUME RunInv, NEW p \in Proc, pc[p] = "keep"
  PROVE  at[p] \in Run!Op /\ diff[at[p]] \in {None, Run!Built(p)}
         /\ Run!Built(p) \in Run!Diff
<1>0. PICK i \in Run!Op : i = at[p]  BY DEF RunInv, MindHolds, OnItsWay, Building
<1>1. /\ Standing(i, seen[p])
      /\ i \in Modelled => held[p] # None /\ response[i] = held[p]
      /\ i \notin Modelled => held[p] = None
  BY <1>0 DEF RunInv, MindHolds, OnItsWay, HasBuilt, Building
<1>2. Run!Built(p) \in Run!Diff  BY DEF Run!Built, Run!Diff, RunInv, Run!TypeOK
<1>3. ASSUME diff[i] # None PROVE diff[i] = Run!Built(p)
  <2>1. diff[i] \in Run!Diff  BY <1>3 DEF RunInv, Run!TypeOK
  <2>2. DiffRests(i)  BY DEF RunInv, RecordsRest
  <2>3. diff[i].base = seen[p]  BY <1>1, <1>3, <2>2 DEF DiffRests, Standing
  <2>4. diff[i].answer = held[p]  BY <1>1, <1>3, <2>2 DEF DiffRests
  <2>5. diff[i] = [base |-> diff[i].base, answer |-> diff[i].answer]  BY <2>1 DEF Run!Diff
  <2>. QED  BY <2>3, <2>4, <2>5 DEF Run!Built
<1>. QED  BY <1>0, <1>2, <1>3

LEMMA RecordDiffKeeps ==
  ASSUME RunInv, NEW p \in Proc, Run!RecordDiff(p) PROVE RunInv' /\ pc'[p] # "conflict"
<1>0. PICK i \in Run!Op : i = at[p]  BY BuiltIsKept DEF Run!RecordDiff
<1>1. pc[p] = "keep" /\ pc[p] \in Run!Locked  BY DEF Run!RecordDiff, Run!Locked
<1>2. diff[i] \in {None, Run!Built(p)} /\ Run!Built(p) \in Run!Diff
  BY <1>0, <1>1, BuiltIsKept
<1>3. /\ diff' = [diff EXCEPT ![i] = Run!Built(p)]
      /\ lock' = None /\ Run!Goes(p, "look") /\ Run!Knows(p, <<>>, None, None, None)
      /\ UNCHANGED <<request, attempts, response, review, crashes>>
  BY <1>0, <1>1, <1>2 DEF Run!RecordDiff
<1>4. diff \in [Run!Op -> Run!Diff \cup {None}]  BY DEF RunInv, Run!TypeOK
<1>5. diff'[i] = Run!Built(p) /\ \A j \in Run!Op \ {i} : diff'[j] = diff[j]
      /\ review'[j] = review[j]
  BY <1>3, <1>4
<1>6. Grows  BY <1>2, <1>3, <1>5 DEF Grows
<1>7. /\ Standing(i, seen[p])
      /\ i \in Modelled => held[p] # None /\ response[i] = held[p]
      /\ i \notin Modelled => held[p] = None
  BY <1>0, <1>1 DEF RunInv, MindHolds, OnItsWay, HasBuilt, Building
<1>8. DiffRests(i)'
  <2>1. i - 1 \in 0 .. N  BY SizeAssumption DEF Run!Op
  <2>2. AllApply(i - 1)' /\ Prefix(i - 1)' = Prefix(i - 1)
    BY <1>6, <1>7, <2>1, AllApplyStays DEF Standing
  <2>3. Run!Built(p).base = Prefix(i - 1) /\ Run!Built(p).answer = held[p]
    BY <1>7 DEF Standing, Run!Built
  <2>. QED  BY <1>3, <1>5, <1>7, <2>2, <2>3 DEF DiffRests
<1>9. ReviewRests(i)'
  <2>1. ReviewRests(i)  BY DEF RunInv, RecordsRest
  <2>2. AllApply(i - 1)  BY <1>7 DEF Standing
  <2>3. diff[i] # None => diff'[i] # None  BY <1>6 DEF Grows
  <2>. QED  BY <1>3, <1>6, <2>1, <2>2, <2>3, AcceptedStays DEF ReviewRests
<1>10. diff' \in [Run!Op -> Run!Diff \cup {None}]
       /\ review' \in [Run!Op -> Run!Review \cup {None}]
  <2>1. diff' \in [Run!Op -> Run!Diff \cup {None}]  BY <1>2, <1>3, <1>4
  <2>. QED  BY <1>3, <2>1 DEF RunInv, Run!TypeOK
<1>11. MindOK' /\ Alone(p) /\ pc'[p] = "look"
  <2>1. <<>> \in Run!Workspace /\ None \in Run!Written /\ "look" \in Run!Working
        /\ "look" \notin Run!Locked
    BY DEF Run!Workspace, Run!Written, Run!Working, Run!Locked
  <2>. QED  BY <1>1, <1>3, <2>1, GoesTyped, TypesAre DEF RunInv
<1>12. MindHolds(p)'
  BY <1>11 DEF MindHolds, OnItsWay, HasAsked, HasBuilt, HasJudged, Asking, Building,
     Judging
<1>13. RunInv'
  <2>1. UNCHANGED <<request, attempts, response>>  BY <1>3
  <2>. QED  BY <1>1, <1>5, <1>6, <1>8, <1>9, <1>10, <1>11, <1>12, <2>1, RecordStep
<1>. QED  BY <1>11, <1>13

LEMMA LookReplaceKeeps == ASSUME RunInv, NEW p \in Proc, Run!LookReplace(p) PROVE RunInv'
<1>1. /\ pc[p] = "replace" /\ Run!Knows(p, Run!Applied, None, None, choice[p])
         /\ Run!Goes(p, "review")
      /\ UNCHANGED <<Run!disk, lock, crashes>>
  BY DEF Run!LookReplace
<1>2. "review" \in Run!Working /\ "review" \notin Run!Locked /\ pc[p] \notin Run!Locked
  BY <1>1 DEF Run!Working, Run!Locked
<1>3. /\ Run!Completed \in 0 .. N /\ AllApply(Run!Completed)
         /\ Run!Applied = Prefix(Run!Completed)
      /\ Run!Applied \in Run!Workspace /\ Len(Run!Applied) = Run!Completed
  BY AppliedStands DEF RunInv
<1>4. choice[p] \in Run!Choice  BY <1>1 DEF RunInv, MindHolds, HasJudged
<1>5. MindOK' /\ Alone(p) /\ pc'[p] = "review"
  <2>1. None \in Run!Written /\ None \in Run!Op \cup {None}
        /\ choice[p] \in Run!Choice \cup {None}
    BY <1>4 DEF Run!Written
  <2>. QED  BY <1>1, <1>2, <1>3, <2>1, GoesTyped, TypesAre DEF RunInv
<1>6. seen'[p] = Run!Applied /\ choice'[p] = choice[p]
  BY <1>1, TypesAre DEF Run!Knows, RunInv, MindOK
<1>7. HasJudged(p)'
  <2>1. PICK m \in 0 .. N : m = Run!Completed  BY <1>3
  <2>2. Grows  BY <1>1 DEF Grows, Run!disk
  <2>3. AllApply(m)' /\ Prefix(m)' = Prefix(m)  BY <1>3, <2>1, <2>2, AllApplyStays
  <2>4. Len(seen'[p]) = m /\ seen'[p] = Prefix(m)'  BY <1>3, <1>6, <2>1, <2>3
  <2>. QED  BY <1>4, <1>5, <1>6, <2>3, <2>4 DEF HasJudged, Judging, AllApply, Prefix
<1>8. OnItsWay(p)' /\ HasAsked(p)' /\ HasBuilt(p)'
  BY <1>5 DEF OnItsWay, HasAsked, HasBuilt, Asking, Building
<1>. QED  BY <1>1, <1>5, <1>7, <1>8, MindStep DEF MindHolds

(* What awaits review: the diff is there, its review is not. *)
LEMMA AwaitingReview ==
  ASSUME Run!TypeOK, Run!Status = "awaiting_review"
  PROVE  /\ Run!Following \in Run!Op /\ Run!Following - 1 = Run!Completed
         /\ Run!Completed \in 0 .. N
         /\ diff[Run!Following] # None /\ Run!Following \in Reviewed
            /\ review[Run!Following] = None
<1>1. Run!Completed # N /\ diff[Run!Following] # None /\ ~ Run!Decided(Run!Following)
  BY DEF Run!Status
<1>2. Run!Completed \in 0 .. N  BY AppliedStands
<1>3. Run!Following \in Run!Op /\ Run!Following - 1 = Run!Completed
  BY <1>1, <1>2, SizeAssumption DEF Run!Following, Run!Op
<1>. QED  BY <1>1, <1>2, <1>3 DEF Run!Decided

LEMMA LookPendingKeeps == ASSUME RunInv, NEW p \in Proc, Run!LookPending(p) PROVE RunInv'
<1>1. pc[p] = "review" /\ pc[p] \notin Run!Locked /\ UNCHANGED <<Run!disk, lock, crashes>>
  BY DEF Run!LookPending, Run!Locked
<1>2. CASE Run!Ends(p, "over")
  <2>1. MindOK' /\ MindHolds(p)' /\ Alone(p)
    BY <1>1, <1>2, EndsTyped, TypesAre DEF RunInv, Run!Outcome
  <2>. QED  BY <1>1, <2>1, MindStep
<1>3. CASE ~ Run!Ends(p, "over")
  <2>1. /\ Run!Status = "awaiting_review"
           /\ Run!Knows(p, seen[p], Run!Following, None, choice[p])
        /\ Run!Goes(p, "decide")
        /\ choice[p].decision = "replace" =>
              /\ Run!Following \in Modelled
              /\ ~ Run!Flawed(Run!Following, [base |-> seen[p], answer |-> choice[p].answer])
    BY <1>3 DEF Run!LookPending
  <2>2. /\ Run!Following \in Run!Op /\ Run!Following - 1 = Run!Completed
           /\ Run!Completed \in 0 .. N
        /\ diff[Run!Following] # None /\ Run!Following \in Reviewed
    BY <2>1, AwaitingReview DEF RunInv
  <2>3. PICK i \in Run!Op : i = Run!Following  BY <2>2
  <2>4. choice[p] \in Run!Choice /\ HasJudged(p) /\ seen[p] \in Run!Workspace
    BY <1>1 DEF RunInv, MindHolds, HasJudged, Run!TypeOK
  <2>5. MindOK' /\ Alone(p) /\ pc'[p] = "decide"
    <3>1. "decide" \in Run!Working /\ "decide" \notin Run!Locked /\ None \in Run!Written
      BY DEF Run!Working, Run!Locked, Run!Written
    <3>. QED  BY <1>1, <2>1, <2>2, <2>4, <3>1, GoesTyped, TypesAre DEF RunInv
  <2>6. seen'[p] = seen[p] /\ at'[p] = i /\ choice'[p] = choice[p]
    BY <2>1, <2>3, TypesAre DEF Run!Knows, RunInv, MindOK
  <2>7. ASSUME choice[p].decision = "replace"
        PROVE  Accepted(i, [base |-> seen[p], answer |-> choice[p].answer])
    <3>. DEFINE m == Len(seen[p])
    <3>1. m \in 0 .. N /\ AllApply(m) /\ seen[p] = Prefix(m)
      BY <1>1, <2>4, <2>7 DEF HasJudged
    <3>2. m <= Run!Completed  BY <3>1, AppliedStands DEF RunInv
    <3>3. m \in 0 .. i - 1  BY <2>2, <2>3, <3>1, <3>2, SizeAssumption
    <3>4. /\ i \in Modelled /\ choice[p].answer \notin Bad
          /\ Uses[i] \subseteq DOMAIN seen[p]
      BY <2>1, <2>3, <2>7 DEF Run!Flawed
    <3>. QED  BY <3>1, <3>3, <3>4 DEF Accepted
  <2>8. HasJudged(p)'
    <3>1. Grows /\ AllApply(i - 1)
      BY <1>1, <2>2, <2>3 DEF Grows, Run!disk, RunInv, RecordsRest, DiffRests
    <3>2. choice[p].decision = "replace" =>
             Accepted(i, [base |-> seen[p], answer |-> choice[p].answer])'
      BY <2>6, <2>7, <3>1, AcceptedStays
    <3>. QED  BY <1>1, <2>2, <2>3, <2>4, <2>5, <2>6, <3>2
                 DEF HasJudged, Judging, Run!disk
  <2>9. OnItsWay(p)' /\ HasAsked(p)' /\ HasBuilt(p)'
    BY <2>5 DEF OnItsWay, HasAsked, HasBuilt, Asking, Building
  <2>. QED  BY <1>1, <2>5, <2>8, <2>9, MindStep DEF MindHolds
<1>. QED  BY <1>2, <1>3

LEMMA RecordReviewKeeps == ASSUME RunInv, NEW p \in Proc, Run!RecordReview(p) PROVE RunInv'
<1>0. PICK i \in Run!Op : i = at[p]
  BY DEF Run!RecordReview, RunInv, MindHolds, HasJudged, Judging
<1>1. /\ pc[p] = "note" /\ pc[p] \in Run!Locked
      /\ UNCHANGED <<request, attempts, response, diff, crashes>>
  BY DEF Run!RecordReview, Run!Locked
<1>2. /\ choice[p] \in Run!Choice /\ i \in Reviewed /\ diff[i] # None
      /\ choice[p].decision = "replace" =>
            Accepted(i, [base |-> seen[p], answer |-> choice[p].answer])
  BY <1>0, <1>1 DEF RunInv, MindHolds, HasJudged, Judging
<1>3. CASE review[i] \notin {None, Run!Verdict(p)}
  <2>1. Run!Leaves(p, "conflict") /\ UNCHANGED review  BY <1>0, <1>3 DEF Run!RecordReview
  <2>2. MindOK' /\ MindHolds(p)' /\ Alone(p)  BY <1>1, <2>1, LeavesTyped DEF Run!Outcome
  <2>. QED  BY <1>1, <2>1, <2>2, MindStep DEF Run!disk
<1>4. CASE review[i] \in {None, Run!Verdict(p)}
  <2>1. review' = [review EXCEPT ![i] = Run!Verdict(p)] /\ Run!Leaves(p, "over")
    BY <1>0, <1>4 DEF Run!RecordReview
  <2>2. MindOK' /\ MindHolds(p)' /\ Alone(p)  BY <1>1, <2>1, LeavesTyped DEF Run!Outcome
  <2>3. review \in [Run!Op -> Run!Review \cup {None}]
        /\ diff \in [Run!Op -> Run!Diff \cup {None}]
        /\ seen[p] \in Run!Workspace
    BY DEF RunInv, Run!TypeOK
  <2>4. CASE choice[p].decision = "approve"
    <3>1. Run!Verdict(p) = choice[p] /\ choice[p] \in [decision : {"approve"}]
      BY <1>2, <2>4 DEF Run!Verdict, Run!Choice
    <3>2. Run!Verdict(p) \in Run!Review /\ Run!Verdict(p).decision # "replace"
      BY <2>4, <3>1 DEF Run!Review
    <3>3. review'[i] = Run!Verdict(p) /\ \A j \in Run!Op \ {i} : diff'[j] = diff[j]
          /\ review'[j] = review[j]
      BY <1>1, <2>1, <2>3
    <3>4. Grows  BY <1>1, <1>4, <3>3 DEF Grows
    <3>5. ReviewRests(i)'  BY <1>1, <1>2, <3>2, <3>3 DEF ReviewRests
    <3>6. DiffRests(i)'
      <4>1. DiffRests(i) /\ i - 1 \in 0 .. N
        BY SizeAssumption DEF RunInv, RecordsRest, Run!Op
      <4>. QED  BY <1>1, <3>4, <4>1, AllApplyStays DEF DiffRests
    <3>7. diff' \in [Run!Op -> Run!Diff \cup {None}]
          /\ review' \in [Run!Op -> Run!Review \cup {None}]
      <4>1. review' \in [Run!Op -> Run!Review \cup {None}]  BY <2>1, <2>3, <3>2
      <4>. QED  BY <1>1, <2>3, <4>1
    <3>. QED
      <4>1. UNCHANGED <<request, attempts, response>>  BY <1>1
      <4>. QED  BY <1>1, <2>2, <3>3, <3>4, <3>5, <3>6, <3>7, <4>1, RecordStep
  <2>5. CASE choice[p].decision # "approve"
    <3>. DEFINE d == [base |-> seen[p], answer |-> choice[p].answer]
    <3>1. choice[p].decision = "replace" /\ choice[p].answer \in Answer
      BY <1>2, <2>5 DEF Run!Choice
    <3>2. d \in Run!Diff /\ Run!Verdict(p) = [decision |-> "replace", diff |-> d]
      BY <2>3, <2>5, <3>1 DEF Run!Verdict, Run!Diff, Run!Written
    <3>3. Accepted(i, d)  BY <1>2, <3>1
    <3>. HIDE DEF d
    <3>4. PICK e : e = d  OBVIOUS
    <3>5. Run!Verdict(p) \in Run!Review /\ Run!Verdict(p).diff = d  BY <3>2 DEF Run!Review
    <3>6. review'[i] = Run!Verdict(p) /\ \A j \in Run!Op \ {i} : diff'[j] = diff[j]
          /\ review'[j] = review[j]
      BY <1>1, <2>1, <2>3
    <3>7. Grows  BY <1>1, <1>4, <3>6 DEF Grows
    <3>8. AllApply(i - 1)  BY <1>2 DEF RunInv, RecordsRest, DiffRests
    <3>9. Accepted(i, e)'  BY <3>3, <3>4, <3>7, <3>8, AcceptedStays
    <3>10. review'[i].diff = e  BY <3>4, <3>5, <3>6
    <3>11. ReviewRests(i)'  BY <1>1, <1>2, <3>9, <3>10 DEF ReviewRests, Accepted
    <3>12. DiffRests(i)'
      <4>1. DiffRests(i) /\ i - 1 \in 0 .. N
        BY SizeAssumption DEF RunInv, RecordsRest, Run!Op
      <4>. QED  BY <1>1, <3>7, <4>1, AllApplyStays DEF DiffRests
    <3>13. diff' \in [Run!Op -> Run!Diff \cup {None}]
           /\ review' \in [Run!Op -> Run!Review \cup {None}]
      <4>1. review' \in [Run!Op -> Run!Review \cup {None}]  BY <2>1, <2>3, <3>5
      <4>. QED  BY <1>1, <2>3, <4>1
    <3>. QED
      <4>1. UNCHANGED <<request, attempts, response>>  BY <1>1
      <4>. QED  BY <1>1, <2>2, <3>6, <3>7, <3>11, <3>12, <3>13, <4>1, RecordStep
  <2>. QED  BY <2>4, <2>5
<1>. QED  BY <1>3, <1>4

LEMMA CrashKeeps == ASSUME RunInv, NEW p \in Proc, Run!Crash(p) PROVE RunInv'
<1>1. /\ pc[p] \in Run!Working /\ crashes < MaxCrash /\ crashes' = crashes + 1
      /\ lock' = (IF lock = p THEN None ELSE lock) /\ Run!Ends(p, "over")
         /\ UNCHANGED Run!disk
  BY DEF Run!Crash
<1>2. MindOK  BY TypesAre DEF RunInv
<1>3. Alone(p) /\ pc'[p] = "over"
  BY <1>1, <1>2 DEF MindOK, Alone, SameRun, Run!Ends, Run!Goes, Run!Knows
<1>4. MindHolds(p)'
  BY <1>3 DEF MindHolds, OnItsWay, HasAsked, HasBuilt, HasJudged, Asking, Building,
     Judging
<1>5. /\ seen' \in [Proc -> Run!Workspace] /\ at' \in [Proc -> Run!Op \cup {None}]
      /\ held' \in [Proc -> Run!Written] /\ choice' \in [Proc -> Run!Choice \cup {None}]
  BY <1>1, <1>2 DEF MindOK, Run!Ends, Run!Knows, Run!Workspace, Run!Written
<1>6. /\ lock' \in Proc \cup {None} /\ crashes' \in 0 .. MaxCrash
      /\ pc' \in [Proc -> Run!Working \cup Run!Outcome]
  BY <1>1, <1>2, SizeAssumption DEF MindOK, Run!Ends, Run!Goes, Run!Outcome
<1>7. \A q \in Proc : pc'[q] \in Run!Locked <=> lock' = q
  <2>1. "over" \notin Run!Locked  BY DEF Run!Locked
  <2>. QED  BY <1>1, <1>2, <1>3, <2>1, NoneAssumption DEF MindOK, Alone, SameRun
<1>8. MindOK'  BY <1>5, <1>6, <1>7 DEF MindOK
<1>. QED  BY <1>1, <1>3, <1>4, <1>8, MindStep

LEMMA RunKeeps == RunInv /\ [Run!Next]_(Run!vars) => RunInv'
<1>. SUFFICES ASSUME RunInv, [Run!Next]_(Run!vars) PROVE RunInv'  OBVIOUS
<1>1. ASSUME NEW p \in Proc,
             Run!StartAdvance(p) \/ Run!StartReview(p) \/ Run!Work(p) \/ Run!Crash(p)
      PROVE  RunInv'
  BY <1>1, StartAdvanceKeeps, StartReviewKeeps, LookKeeps, TakeLockKeeps, ExecuteKeeps,
     ReserveKeeps, FinishKeeps, InspectKeeps, SaveKeeps, RecordDiffKeeps,
     LookReplaceKeeps, LookPendingKeeps, RecordReviewKeeps, CrashKeeps DEF Run!Work
<1>2. CASE UNCHANGED Run!vars
  <2>1. UNCHANGED Run!disk /\ UNCHANGED <<lock, crashes, pc, Run!mind>>
    BY <1>2 DEF Run!vars
  <2>2. RecordsRest' /\ Grows /\ ResponsesStay  BY <2>1, RecordsStay DEF RunInv
  <2>3. \A q \in Proc : MindHolds(q)'
    BY <2>1, <2>2, MindStays DEF RunInv, SameRun, Run!mind, Run!disk
  <2>4. Run!TypeOK'  BY <2>1 DEF RunInv, Run!TypeOK, Run!disk, Run!mind
  <2>. QED  BY <2>2, <2>3, <2>4 DEF RunInv
<1>. QED  BY <1>1, <1>2 DEF Run!Next

-----------------------------------------------------------------------------
(* What an invocation is told of the run.                                  *)
CompletedSays ==
    \A n \in 0 .. N : AllApply(n) /\ (n < N => ~ Run!Applies(n + 1)) <=> Run!Completed = n

LEMMA NowCompleted == CompletedSays
BY CompletedIs DEF CompletedIsFirst, UpTo, CompletedSays

StatusSays ==
    /\ Run!Completed \in 0 .. N
    /\ Run!Status = "awaiting_review" <=>
          Run!Completed < N /\ diff[Run!Completed + 1] # None
            /\ ~ Run!Decided(Run!Completed + 1)
    /\ Run!Status = "failed" <=> Run!Completed < N /\ Run!Decided(Run!Completed + 1)
    /\ Run!Applied = Prefix(Run!Completed)

LEMMA StatusIsTold == StatusSays
<1>1. Run!Completed \in 0 .. N  BY CompletedIs DEF CompletedIsFirst, UpTo
<1>2. Run!Completed = N \/ Run!Completed < N  BY <1>1, SizeAssumption
<1>3. ~ (Run!Completed = N /\ Run!Completed < N)  BY <1>1, SizeAssumption
<1>4. Run!Decided(Run!Completed + 1) => diff[Run!Completed + 1] # None  BY DEF Run!Decided
<1>5. Run!Applied = Prefix(Run!Completed)  BY DEF Run!Applied, Prefix
<1>. QED  BY <1>1, <1>2, <1>3, <1>4, <1>5 DEF Run!Status, Run!Following, StatusSays

(* Where the first operation that does not apply is operation n + 1.       *)
LEMMA Told ==
  ASSUME NEW n \in 0 .. N, AllApply(n), n < N => ~ Run!Applies(n + 1)
  PROVE  /\ Run!Completed = n /\ Run!Applied = Prefix(n)
         /\ Run!Status = "awaiting_review" <=> n < N /\ diff[n + 1] # None
            /\ ~ Run!Decided(n + 1)
         /\ Run!Status = "failed" <=> n < N /\ Run!Decided(n + 1)
<1>1. Run!Completed = n  BY NowCompleted DEF CompletedSays
<1>. QED  BY <1>1, StatusIsTold DEF StatusSays

LEMMA ToldNext ==
  ASSUME NEW n \in 0 .. N, AllApply(n)', n < N => ~ Run!Applies(n + 1)'
  PROVE  /\ Run!Completed' = n /\ Run!Applied' = Prefix(n)'
         /\ Run!Status' = "awaiting_review" <=> n < N /\ diff'[n + 1] # None
            /\ ~ Run!Decided(n + 1)'
         /\ Run!Status' = "failed" <=> n < N /\ Run!Decided(n + 1)'
<1>1. CompletedSays'  BY NowCompleted, PTL
<1>2. StatusSays'  BY StatusIsTold, PTL
<1>3. Run!Completed' = n  BY <1>1 DEF CompletedSays
<1>. QED  BY <1>2, <1>3 DEF StatusSays, Prefix, Run!Decided

LEMMA InvHolds ==
  RunInv => Run!TypeOK /\ Run!NoDiffIsStale /\ Run!AskedAtMost /\ Run!DiffIsBacked
    /\ Run!ReplacementHolds
<1>. SUFFICES ASSUME RunInv
     PROVE  Run!TypeOK /\ Run!NoDiffIsStale /\ Run!AskedAtMost /\ Run!DiffIsBacked
            /\ Run!ReplacementHolds
  OBVIOUS
<1>1. Run!TypeOK /\ \A i \in Run!Op : DiffRests(i) /\ ReviewRests(i)
      /\ ResponseRests(i) /\ AskedRight(i)
  BY DEF RunInv, RecordsRest
<1>2. Run!NoDiffIsStale
  <2>. SUFFICES ASSUME NEW i \in Run!Op, diff[i] # None, Run!Completed >= i - 1
       PROVE  diff[i].base = SubSeq(Run!Applied, 1, i - 1)
    BY DEF Run!NoDiffIsStale
  <2>1. diff[i].base = Prefix(i - 1)  BY <1>1 DEF DiffRests
  <2>2. Run!Applied = Prefix(Run!Completed) /\ Run!Completed \in 0 .. N
        /\ Len(Run!Applied) = Run!Completed
        /\ Run!Applied \in Run!Workspace
    BY <1>1, AppliedStands
  <2>3. i - 1 \in 0 .. Run!Completed  BY <2>2, SizeAssumption DEF Run!Op
  <2>4. Prefix(i - 1) = [k \in 1 .. i - 1 |-> Run!Applied[k]]
    <3>1. \A k \in 1 .. i - 1 : k \in 1 .. Run!Completed  BY <2>2, <2>3, SizeAssumption
    <3>. QED  BY <2>2, <3>1 DEF Prefix
  <2>5. SubSeq(Run!Applied, 1, i - 1) = [k \in 1 .. i - 1 |-> Run!Applied[k]]
    <3>1. i - 1 \in Nat /\ i - 1 <= Len(Run!Applied)  BY <2>2, <2>3, SizeAssumption
    <3>2. Run!Applied \in Seq(Run!Written)  BY <2>2 DEF Run!Workspace
    <3>. QED  BY <3>1, <3>2
  <2>. QED  BY <2>1, <2>4, <2>5
<1>3. Run!AskedAtMost  BY <1>1 DEF Run!AskedAtMost, AskedRight, Allowed, WasBad
<1>4. Run!DiffIsBacked
  BY <1>1, OperationAssumption DEF Run!DiffIsBacked, DiffRests, ResponseRests
<1>5. Run!ReplacementHolds
  <2>. SUFFICES ASSUME NEW i \in Run!Op, i \in Reviewed, review[i] # None,
                       review[i].decision = "replace",
                       NEW base, base = review[i].diff.base
       PROVE  /\ i \in Modelled /\ review[i].diff.answer \notin Bad
              /\ Uses[i] \subseteq DOMAIN base
              /\ Len(base) <= i - 1 /\ base = SubSeq(Run!Applied, 1, Len(base))
              /\ IF Len(base) = i - 1 THEN Run!Applies(i)
                 ELSE Run!Completed = i - 1 /\ Run!Status = "failed"
    BY OperationAssumption DEF Run!ReplacementHolds
  <2>1. diff[i] # None /\ Accepted(i, review[i].diff) /\ AllApply(i - 1)
    BY <1>1 DEF ReviewRests, DiffRests
  <2>2. Run!Effective(i) = review[i].diff /\ Run!Decided(i)
    BY <2>1 DEF Run!Effective, Run!Decided
  <2>3. PICK m \in 0 .. i - 1 : m = Len(base) /\ base = Prefix(m)
    BY <2>1 DEF Accepted
  <2>4. i - 1 \in 0 .. N /\ i - 1 < N /\ (i - 1) + 1 = i  BY SizeAssumption DEF Run!Op
  <2>5. base = SubSeq(Run!Applied, 1, m)
    <3>1. /\ Run!Applied = Prefix(Run!Completed) /\ Run!Completed \in 0 .. N
          /\ Len(Run!Applied) = Run!Completed /\ Run!Applied \in Run!Workspace
          /\ i - 1 <= Run!Completed
      BY <1>1, <2>1, <2>4, AppliedStands
    <3>2. m \in Nat /\ m <= Len(Run!Applied)  BY <2>4, <3>1, SizeAssumption
    <3>3. Prefix(m) = [k \in 1 .. m |-> Run!Applied[k]]
      <4>1. \A k \in 1 .. m : k \in 1 .. Run!Completed  BY <3>1, <3>2, SizeAssumption
      <4>. QED  BY <3>1, <4>1 DEF Prefix
    <3>4. Run!Applied \in Seq(Run!Written)  BY <3>1 DEF Run!Workspace
    <3>5. SubSeq(Run!Applied, 1, m) = [k \in 1 .. m |-> Run!Applied[k]]  BY <3>2, <3>4
    <3>. QED  BY <2>3, <3>3, <3>5
  <2>6. CASE m = i - 1
    <3>1. ~ Run!Flawed(i, review[i].diff)  BY <2>1 DEF Accepted, Run!Flawed
    <3>2. Run!Applies(i)  BY <2>2, <2>3, <2>6, <3>1 DEF Run!Applies, Prefix
    <3>. QED  BY <2>1, <2>3, <2>5, <2>6, <3>2 DEF Accepted
  <2>7. CASE m # i - 1
    <3>1. Len(Prefix(i - 1)) = i - 1  BY <2>4 DEF Prefix
    <3>2. ~ Run!Applies(i)
      BY <2>2, <2>3, <2>7, <3>1 DEF Run!Applies, Prefix
    <3>3. Run!Completed = i - 1 /\ Run!Status = "failed"
      BY <2>1, <2>2, <2>4, <3>2, Told
    <3>. QED  BY <2>1, <2>3, <2>5, <2>7, <3>3, SizeAssumption DEF Accepted
  <2>. QED  BY <2>6, <2>7
<1>. QED  BY <1>1, <1>2, <1>3, <1>4, <1>5

-----------------------------------------------------------------------------
(* The run as a StageRun.                                                  *)

(* Where no diff and no review is written.                                 *)
LEMMA Stutters ==
  ASSUME UNCHANGED <<diff, review>> PROVE UNCHANGED <<Run!Applied, Run!Status>>
<1>1. PICK n \in 0 .. N : n = Run!Completed  BY StatusIsTold DEF StatusSays
<1>2. AllApply(n) /\ (n < N => ~ Run!Applies(n + 1))
  BY <1>1, NowCompleted DEF CompletedSays
<1>3. Grows  BY DEF Grows
<1>4. AllApply(n)' /\ Prefix(n)' = Prefix(n)  BY <1>2, <1>3, AllApplyStays
<1>5. n < N => ~ Run!Applies(n + 1)'
  BY <1>2 DEF Run!Applies, Run!Decided, Run!Effective, Run!Flawed
<1>6. /\ Run!Completed' = n /\ Run!Applied' = Prefix(n)'
      /\ Run!Status' = "awaiting_review" <=> n < N /\ diff'[n + 1] # None
         /\ ~ Run!Decided(n + 1)'
      /\ Run!Status' = "failed" <=> n < N /\ Run!Decided(n + 1)'
  BY <1>4, <1>5, ToldNext
<1>7. Run!Completed' = Run!Completed /\ Run!Applied' = Run!Applied
  BY <1>1, <1>2, <1>4, <1>6, Told
<1>8. Run!Status' = Run!Status
  <2>1. N' = N /\ (diff[Run!Following] = None)' = (diff[Run!Following] = None)
        /\ Run!Decided(Run!Following)' = Run!Decided(Run!Following)
    BY <1>7 DEF Run!Following, Run!Decided
  <2>. QED  BY <1>7, <2>1 DEF Run!Status, Run!Following
<1>. QED  BY <1>7, <1>8

(* Where the records of the next operation are written.                    *)
LEMMA Moves ==
  ASSUME RunInv, RunInv', Grows, NEW n \in 0 .. N, n < N, AllApply(n), ~ Run!Decided(n + 1),
         \A j \in Run!Op \ {n + 1} : diff'[j] = diff[j] /\ review'[j] = review[j]
  PROVE  /\ Run!Applied = Prefix(n) /\ Run!Status # "failed"
         /\ Run!Status = "awaiting_review" <=> diff[n + 1] # None
         /\ Len(Run!Applied) = n
         /\ \/ /\ Run!Decided(n + 1)' /\ Run!Status' # "awaiting_review"
               /\ \/ Run!Applied' = Run!Applied /\ Run!Status' = "failed"
                  \/ /\ \E w \in Run!Written : Run!Applied' = Append(Run!Applied, w)
                     /\ Run!Status' # "failed"
            \/ /\ ~ Run!Decided(n + 1)' /\ Run!Applied' = Run!Applied
               /\ Run!Status' # "failed"
               /\ Run!Status' = "awaiting_review" <=> diff'[n + 1] # None
<1>1. n \in Nat /\ n + 1 \in Run!Op  BY SizeAssumption DEF Run!Op
<1>2. ~ Run!Applies(n + 1)  BY DEF Run!Applies
<1>3. /\ Run!Completed = n /\ Run!Applied = Prefix(n) /\ Run!Status # "failed"
      /\ Run!Status = "awaiting_review" <=> diff[n + 1] # None
  BY <1>2, Told
<1>4. Len(Run!Applied) = n /\ Run!Applied \in Run!Workspace
  BY <1>3, AppliedStands DEF RunInv
<1>5. AllApply(n)' /\ Prefix(n)' = Prefix(n)  BY AllApplyStays
<1>6. CASE Run!Decided(n + 1)' /\ Run!Applies(n + 1)'
  <2>1. AllApply(n + 1)'
    <3>1. \A k \in 1 .. n + 1 : k \in 1 .. n \/ k = n + 1  BY <1>1
    <3>. QED  BY <1>5, <1>6, <3>1 DEF AllApply
  <2>2. n + 1 \in 0 .. N  BY <1>1, SizeAssumption
  <2>3. n + 1 < N => diff'[n + 2] = None
    <3>. SUFFICES ASSUME n + 1 < N, diff'[n + 2] # None PROVE FALSE  OBVIOUS
    <3>1. n + 2 \in Run!Op /\ n + 2 # n + 1 /\ (n + 2) - 1 = n + 1
      BY <1>1, SizeAssumption DEF Run!Op
    <3>2. diff[n + 2] # None  BY <3>1
    <3>3. DiffRests(n + 2)  BY <3>1 DEF RunInv, RecordsRest
    <3>4. AllApply(n + 1)  BY <3>1, <3>2, <3>3 DEF DiffRests
    <3>5. Run!Applies(n + 1)  BY <1>1, <3>4 DEF AllApply
    <3>. QED  BY <1>2, <3>5
  <2>4. (n + 1) + 1 = n + 2  BY <1>1
  <2>5. n + 1 < N => ~ Run!Decided(n + 2)' /\ ~ Run!Applies(n + 2)'
    BY <2>3 DEF Run!Decided, Run!Applies
  <2>6. /\ Run!Applied' = Prefix(n + 1)' /\ Run!Status' # "awaiting_review"
           /\ Run!Status' # "failed"
    <3>1. PICK m \in 0 .. N : m = n + 1  BY <2>2
    <3>2. AllApply(m)' /\ (m < N => ~ Run!Applies(m + 1)')  BY <2>1, <2>4, <2>5, <3>1
    <3>3. /\ Run!Applied' = Prefix(m)'
          /\ Run!Status' = "awaiting_review" <=> m < N /\ diff'[m + 1] # None
             /\ ~ Run!Decided(m + 1)'
          /\ Run!Status' = "failed" <=> m < N /\ Run!Decided(m + 1)'
      BY <3>2, ToldNext
    <3>. QED  BY <2>3, <2>4, <2>5, <3>1, <3>3
  <2>7. Run!Effective(n + 1).answer' \in Run!Written
    <3>1. Run!Effective(n + 1)' \in Run!Diff
      BY <1>1, <1>6 DEF RunInv, Run!TypeOK, Run!Decided, Run!Effective, Run!Review
    <3>. QED  BY <3>1 DEF Run!Diff
  <2>8. Prefix(n + 1)' = Append(Run!Applied, Run!Effective(n + 1).answer')
    <3>1. Prefix(n)' = Run!Applied /\ Run!Applied \in Seq(Run!Written)
      BY <1>3, <1>4, <1>5 DEF Run!Workspace
    <3>2. \A k \in 1 .. n : Run!Effective(k).answer' = Run!Applied[k]
      BY <3>1 DEF Prefix
    <3>3. Append(Run!Applied, Run!Effective(n + 1).answer')
            = [k \in 1 .. n + 1 |-> IF k = n + 1 THEN Run!Effective(n + 1).answer' ELSE Run!Applied[k]]
      BY <1>1, <1>4, <2>7, <3>1
    <3>4. Prefix(n + 1)' = [k \in 1 .. n + 1 |-> Run!Effective(k).answer']  BY DEF Prefix
    <3>5. \A k \in 1 .. n + 1 : k # n + 1 => k \in 1 .. n  BY <1>1
    <3>. QED  BY <3>2, <3>3, <3>4, <3>5
  <2>. QED  BY <1>3, <1>4, <1>6, <2>6, <2>7, <2>8
<1>7. CASE ~ Run!Applies(n + 1)'
  <2>1. /\ Run!Applied' = Prefix(n)'
        /\ Run!Status' = "awaiting_review" <=> n < N /\ diff'[n + 1] # None
           /\ ~ Run!Decided(n + 1)'
        /\ Run!Status' = "failed" <=> n < N /\ Run!Decided(n + 1)'
    BY <1>5, <1>7, ToldNext
  <2>. QED  BY <1>3, <1>4, <1>5, <2>1
<1>8. Run!Applies(n + 1)' => Run!Decided(n + 1)'  BY DEF Run!Applies
<1>. QED  BY <1>6, <1>7, <1>8

LEMMA RunInitIsStage == Run!Init => Run!Stage!Init
<1>. SUFFICES ASSUME Run!Init PROVE Run!Stage!Init  OBVIOUS
<1>1. 0 \in 0 .. N /\ AllApply(0)  BY SizeAssumption DEF AllApply
<1>2. 0 < N => 0 + 1 \in Run!Op /\ diff[0 + 1] = None
  BY SizeAssumption DEF Run!Op, Run!Init
<1>3. 0 < N => ~ Run!Decided(0 + 1) /\ ~ Run!Applies(0 + 1)
  BY <1>2 DEF Run!Decided, Run!Applies
<1>4. Run!Applied = Prefix(0) /\ Run!Status # "awaiting_review" /\ Run!Status # "failed"
  BY <1>1, <1>2, <1>3, Told
<1>5. Prefix(0) = <<>>  BY DEF Prefix
<1>. QED  BY <1>4, <1>5 DEF Run!Stage!Init

LEMMA RecordDiffIsStep ==
  ASSUME RunInv, RunInv', NEW p \in Proc, Run!RecordDiff(p)
  PROVE  Run!Stage!Next \/ UNCHANGED <<Run!Applied, Run!Status>>
<1>1. pc[p] = "keep"  BY DEF Run!RecordDiff
<1>2. PICK i \in Run!Op : i = at[p]  BY <1>1, BuiltIsKept
<1>3. diff[i] \in {None, Run!Built(p)} /\ Run!Built(p) \in Run!Diff
  BY <1>1, <1>2, BuiltIsKept
<1>4. diff' = [diff EXCEPT ![i] = Run!Built(p)] /\ UNCHANGED review
  BY <1>2, <1>3 DEF Run!RecordDiff
<1>5. diff \in [Run!Op -> Run!Diff \cup {None}] /\ diff'[i] = Run!Built(p)
      /\ Run!Built(p) # None
  BY <1>3, <1>4, NoneAssumption DEF RunInv, Run!TypeOK
<1>6. CASE diff[i] # None
  <2>1. diff' = diff  BY <1>3, <1>4, <1>5, <1>6
  <2>. QED  BY <1>4, <2>1, Stutters
<1>7. CASE diff[i] = None
  <2>1. PICK n \in 0 .. N : n = i - 1  BY SizeAssumption DEF Run!Op
  <2>2. n + 1 = i /\ n < N  BY <2>1, SizeAssumption DEF Run!Op
  <2>3. AllApply(n)
    BY <1>1, <1>2, <2>1 DEF RunInv, MindHolds, OnItsWay, Building, Standing
  <2>4. ~ Run!Decided(n + 1)  BY <1>7, <2>2 DEF Run!Decided
  <2>5. \A j \in Run!Op \ {n + 1} : diff'[j] = diff[j] /\ review'[j] = review[j]
    BY <1>4, <1>5, <2>2
  <2>6. Grows  BY <1>4, <1>5, <1>7 DEF Grows
  <2>7. /\ Run!Status # "failed" /\ Run!Status # "awaiting_review" /\ Len(Run!Applied) = n
        /\ \/ /\ Run!Decided(n + 1)' /\ Run!Status' # "awaiting_review"
              /\ \/ Run!Applied' = Run!Applied /\ Run!Status' = "failed"
                 \/ /\ \E w \in Run!Written : Run!Applied' = Append(Run!Applied, w)
                    /\ Run!Status' # "failed"
           \/ /\ ~ Run!Decided(n + 1)' /\ Run!Applied' = Run!Applied
              /\ Run!Status' # "failed"
              /\ Run!Status' = "awaiting_review" <=> diff'[n + 1] # None
    BY <1>7, <2>2, <2>3, <2>4, <2>5, <2>6, Moves
  <2>8. review[i] = None
    <3>1. ReviewRests(i)  BY DEF RunInv, RecordsRest
    <3>. QED  BY <1>7, <3>1 DEF ReviewRests
  <2>9. Run!Decided(n + 1)' <=> n + 1 \notin Reviewed
    BY <1>4, <1>5, <2>2, <2>8 DEF Run!Decided
  <2>10. CASE n + 1 \in Reviewed
    <3>1. Run!Stage!Propose
      BY <1>5, <2>2, <2>7, <2>9, <2>10 DEF Run!Stage!Propose, Run!Stage!Open
    <3>. QED  BY <3>1 DEF Run!Stage!Next
  <2>11. CASE n + 1 \notin Reviewed
    <3>1. Run!Stage!Run
      BY <2>2, <2>7, <2>9, <2>11 DEF Run!Stage!Run, Run!Stage!Open, Run!Stage!Apply,
         Run!Stage!Fail, Run!Stage!Written, Run!Written
    <3>. QED  BY <3>1 DEF Run!Stage!Next
  <2>. QED  BY <2>10, <2>11
<1>. QED  BY <1>6, <1>7

LEMMA RecordReviewIsStep ==
  ASSUME RunInv, RunInv', NEW p \in Proc, Run!RecordReview(p)
  PROVE  Run!Stage!Next \/ UNCHANGED <<Run!Applied, Run!Status>>
<1>1. pc[p] = "note" /\ UNCHANGED diff  BY DEF Run!RecordReview
<1>2. PICK i \in Run!Op : i = at[p]  BY <1>1 DEF RunInv, MindHolds, HasJudged, Judging
<1>3. i \in Reviewed /\ diff[i] # None
  BY <1>1, <1>2 DEF RunInv, MindHolds, HasJudged, Judging
<1>4. review \in [Run!Op -> Run!Review \cup {None}]  BY DEF RunInv, Run!TypeOK
<1>5. \/ UNCHANGED review
      \/ /\ review[i] \in {None, Run!Verdict(p)}
         /\ review' = [review EXCEPT ![i] = Run!Verdict(p)]
  BY <1>2 DEF Run!RecordReview
<1>6. CASE UNCHANGED review  BY <1>1, <1>6, Stutters
<1>7. CASE review[i] = None /\ review' = [review EXCEPT ![i] = Run!Verdict(p)]
           /\ review' # review
  <2>1. PICK n \in 0 .. N : n = i - 1  BY SizeAssumption DEF Run!Op
  <2>2. n + 1 = i /\ n < N  BY <2>1, SizeAssumption DEF Run!Op
  <2>3. AllApply(n)  BY <1>3, <2>1 DEF RunInv, RecordsRest, DiffRests
  <2>4. ~ Run!Decided(n + 1)  BY <1>3, <1>7, <2>2 DEF Run!Decided
  <2>5. \A j \in Run!Op \ {n + 1} : diff'[j] = diff[j] /\ review'[j] = review[j]
    BY <1>1, <1>4, <1>7, <2>2
  <2>6. Grows  BY <1>1, <1>4, <1>7 DEF Grows
  <2>7. /\ Run!Status # "failed" /\ Run!Status = "awaiting_review" /\ Len(Run!Applied) = n
        /\ \/ /\ Run!Decided(n + 1)' /\ Run!Status' # "awaiting_review"
              /\ \/ Run!Applied' = Run!Applied /\ Run!Status' = "failed"
                 \/ /\ \E w \in Run!Written : Run!Applied' = Append(Run!Applied, w)
                    /\ Run!Status' # "failed"
           \/ ~ Run!Decided(n + 1)'
    BY <1>3, <2>2, <2>3, <2>4, <2>5, <2>6, Moves
  <2>8. review'[i] # None
    <3>1. review'[i] = Run!Verdict(p)  BY <1>4, <1>7
    <3>2. Run!Verdict(p) # None  BY <1>4, <1>7, <3>1
    <3>. QED  BY <3>1, <3>2
  <2>9. Run!Decided(n + 1)'  BY <1>1, <1>3, <2>2, <2>8 DEF Run!Decided
  <2>10. Run!Stage!Decide
    BY <2>7, <2>9 DEF Run!Stage!Decide, Run!Stage!Apply, Run!Stage!Fail,
       Run!Stage!Written, Run!Written
  <2>. QED  BY <2>10 DEF Run!Stage!Next
<1>8. CASE review[i] # None /\ review' = [review EXCEPT ![i] = Run!Verdict(p)]
           /\ review[i] = Run!Verdict(p)
  <2>1. review' = review  BY <1>4, <1>8
  <2>. QED  BY <1>6, <2>1
<1>. QED  BY <1>5, <1>6, <1>7, <1>8

LEMMA RunIsStage ==
  RunInv /\ RunInv' /\ [Run!Next]_(Run!vars) => [Run!Stage!Next]_(Run!Stage!vars)
<1>. SUFFICES ASSUME RunInv, RunInv', [Run!Next]_(Run!vars)
              PROVE [Run!Stage!Next]_(Run!Stage!vars)
  OBVIOUS
<1>1. ASSUME NEW p \in Proc,
             Run!StartAdvance(p) \/ Run!StartReview(p) \/ Run!Work(p) \/ Run!Crash(p)
      PROVE  Run!Stage!Next \/ UNCHANGED <<Run!Applied, Run!Status>>
  <2>1. CASE Run!RecordDiff(p)  BY <2>1, RecordDiffIsStep
  <2>2. CASE Run!RecordReview(p)  BY <2>2, RecordReviewIsStep
  <2>3. CASE ~ Run!RecordDiff(p) /\ ~ Run!RecordReview(p)
    <3>1. UNCHANGED <<diff, review>>
      BY <1>1, <2>3 DEF Run!Work, Run!StartAdvance, Run!StartReview, Run!Crash, Run!Look,
         Run!TakeLock, Run!Execute, Run!Reserve, Run!Finish, Run!Inspect, Run!Save,
         Run!LookReplace, Run!LookPending, Run!disk
    <3>. QED  BY <3>1, Stutters
  <2>. QED  BY <2>1, <2>2, <2>3
<1>2. CASE UNCHANGED Run!vars
  BY <1>2, Stutters DEF Run!vars, Run!disk, Run!Stage!vars
<1>3. UNCHANGED <<Run!Applied, Run!Status>> => UNCHANGED Run!Stage!vars
  BY DEF Run!Stage!vars
<1>. QED  BY <1>1, <1>2, <1>3 DEF Run!Next

(* Only a review conflicts.                                                *)
LEMMA NoConflict ==
  RunInv /\ [Run!Next]_(Run!vars) => Run!OnlyReviewsConflict
<1>. SUFFICES ASSUME RunInv, [Run!Next]_(Run!vars), NEW q \in Proc, pc[q] # "note", pc'[q] = "conflict",
                     pc[q] # "conflict"
     PROVE  FALSE
  BY DEF Run!OnlyReviewsConflict
<1>1. pc \in [Proc -> Run!Working \cup Run!Outcome]  BY DEF RunInv, Run!TypeOK
<1>2. ASSUME NEW p \in Proc,
             Run!StartAdvance(p) \/ Run!StartReview(p) \/ Run!Work(p) \/ Run!Crash(p)
      PROVE  FALSE
  <2>1. CASE Run!StartAdvance(p) \/ Run!StartReview(p) \/ Run!Crash(p)
    BY <1>1, <2>1 DEF Run!StartAdvance, Run!StartReview, Run!Crash, Run!Ends, Run!Goes
  <2>2. CASE Run!Look(p) \/ Run!TakeLock(p) \/ Run!LookReplace(p) \/ Run!LookPending(p)
    BY <1>1, <2>2 DEF Run!Look, Run!TakeLock, Run!LookReplace, Run!LookPending,
       Run!Inside, Run!Ends, Run!Goes
  <2>3. CASE Run!Execute(p) \/ Run!Reserve(p) \/ Run!Finish(p) \/ Run!Inspect(p)
    BY <1>1, <2>3 DEF Run!Execute, Run!Reserve, Run!Finish, Run!Inspect, Run!Leaves,
       Run!Ends, Run!Goes
  <2>4. CASE Run!Save(p) \/ Run!RecordDiff(p)
    <3>1. pc'[p] # "conflict"  BY <2>4, SaveKeeps, RecordDiffKeeps
    <3>2. p # q => pc'[q] = pc[q]
      BY <1>1, <2>4 DEF Run!Save, Run!RecordDiff, Run!Leaves, Run!Ends, Run!Goes
    <3>. QED  BY <3>1, <3>2
  <2>5. CASE Run!RecordReview(p)
    BY <1>1, <2>5 DEF Run!RecordReview, Run!Leaves, Run!Ends, Run!Goes
  <2>. QED  BY <1>2, <2>1, <2>2, <2>3, <2>4, <2>5 DEF Run!Work
<1>3. CASE UNCHANGED Run!vars  BY <1>3 DEF Run!vars
<1>. QED  BY <1>2, <1>3 DEF Run!Next

-----------------------------------------------------------------------------
(* The chain of stages: a stage that has begun follows complete ones and   *)
(* continues them, and so does what a process is about to make.            *)
AllComplete(n) == \A r \in 1 .. n : Stages!IsComplete(r)

StageHolds(s) ==
    /\ made[s] # "absent" => AllComplete(s - 1)
    /\ made[s] \notin {"absent", "directory"} => source[s] = Stages!Chain(s)
    /\ pending[s] => ~ failed[s] /\ Len(applied[s]) < K
    /\ failed[s] => Len(applied[s]) < K

ProcessHolds(p) ==
    /\ chainPc[p] # "mismatch"
    /\ chainPc[p] \in {"create", "fill", "advance"} =>
          chainAt[p] \in Stages!Stage /\ AllComplete(chainAt[p] - 1)
    /\ chainPc[p] = "create" /\ made[chainAt[p]] = "absent" =>
          chainSeen[p] = Stages!After(chainAt[p] - 1)
    /\ chainPc[p] = "fill" =>
          made[chainAt[p]] # "absent" /\ chainSeen[p] = Stages!After(chainAt[p] - 1)

StagesInv ==
    /\ Stages!TypeOK /\ Stages!OnlyStopsSpoil
    /\ \A s \in Stages!Stage : StageHolds(s)
    /\ \A p \in Proc : ProcessHolds(p)

LEMMA SetInduction ==
  ASSUME NEW T, 0 \in T, \A n \in Nat : n \in T => n + 1 \in T
  PROVE  \A n \in Nat : n \in T
<1>. DEFINE Out == {n \in Nat : n \notin T}
<1>. SUFFICES ASSUME Out # {} PROVE FALSE  OBVIOUS
<1>1. PICK m \in Out : \A j \in Out : ~ <<j, m>> \in OpToRel(<, Nat)
  <2>1. Out \subseteq Nat  OBVIOUS
  <2>. QED  BY <2>1, NatLessThanWellFounded, WFMin, Zenon
<1>2. m \in Nat /\ m # 0 /\ m \notin T  OBVIOUS
<1>3. m - 1 \in Nat /\ (m - 1) + 1 = m /\ m - 1 < m  BY <1>2
<1>4. m - 1 \in Out  BY <1>2, <1>3
<1>5. <<m - 1, m>> \in OpToRel(<, Nat)  BY <1>2, <1>3 DEF OpToRel
<1>. QED  BY <1>1, <1>4, <1>5

(* What FlattenSeq chooses for the first n of a sequence of sequences.     *)
IsFlat(f, g, n) ==
    g = [i \in 1 .. n |-> IF i = 1 THEN f[i] ELSE g[i - 1] \o f[i]]

LEMMA FlatExists ==
  ASSUME NEW f PROVE \A n \in Nat : \E g : IsFlat(f, g, n)
<1>. DEFINE T == {n \in Nat : \E g : IsFlat(f, g, n)}
<1>1. 0 \in T
  <2>1. IsFlat(f, <<>>, 0)  BY DEF IsFlat
  <2>. QED  BY <2>1
<1>2. ASSUME NEW n \in Nat, n \in T PROVE n + 1 \in T
  <2>1. PICK g : IsFlat(f, g, n)  BY <1>2
  <2>. DEFINE h == [i \in 1 .. n + 1 |->
                      IF i = n + 1 THEN (IF i = 1 THEN f[i] ELSE g[i - 1] \o f[i]) ELSE g[i]]
              k == [i \in 1 .. n + 1 |-> IF i = 1 THEN f[i] ELSE h[i - 1] \o f[i]]
  <2>2. ASSUME NEW i \in 1 .. n + 1 PROVE h[i] = k[i]
    <3>1. CASE i = 1 /\ n + 1 = 1  BY <3>1
    <3>2. CASE i = 1 /\ n + 1 # 1
      <4>1. 1 \in 1 .. n  BY <3>2
      <4>2. g[1] = f[1]  BY <2>1, <4>1 DEF IsFlat
      <4>. QED  BY <3>2, <4>2
    <3>3. CASE i # 1
      <4>1. i - 1 \in 1 .. n /\ i - 1 \in 1 .. n + 1 /\ i - 1 # n + 1  BY <3>3
      <4>2. h[i - 1] = g[i - 1]  BY <4>1
      <4>3. i # n + 1 => i \in 1 .. n  OBVIOUS
      <4>4. i # n + 1 => g[i] = g[i - 1] \o f[i]  BY <2>1, <3>3, <4>3 DEF IsFlat
      <4>. QED  BY <3>3, <4>2, <4>4
    <3>. QED  BY <3>1, <3>2, <3>3
  <2>3. h = k  BY <2>2
  <2>4. IsFlat(f, h, n + 1)  BY <2>3 DEF IsFlat
  <2>. QED  BY <2>4
<1>. HIDE DEF T
<1>3. \A n \in Nat : n \in T  BY <1>1, <1>2, SetInduction
<1>. QED  BY <1>3 DEF T

LEMMA FlatAt ==
  ASSUME NEW f, NEW g, NEW n \in Nat, IsFlat(f, g, n), NEW j \in 1 .. n
  PROVE  g[j] = (IF j = 1 THEN f[j] ELSE g[j - 1] \o f[j])
BY DEF IsFlat

LEMMA FlatAgrees ==
  ASSUME NEW f, NEW e, NEW g, NEW h, NEW n \in Nat, NEW m \in Nat, NEW k \in Nat,
         k <= n, k <= m, IsFlat(f, g, n), IsFlat(e, h, m),
         \A i \in 1 .. k : e[i] = f[i]
  PROVE  \A i \in 1 .. k : g[i] = h[i]
<1>. DEFINE T == {i \in Nat : i \in 1 .. k => g[i] = h[i]}
<1>1. 0 \in T  OBVIOUS
<1>2. ASSUME NEW i \in Nat, i \in T PROVE i + 1 \in T
  <2>. SUFFICES ASSUME i + 1 \in 1 .. k PROVE g[i + 1] = h[i + 1]  OBVIOUS
  <2>1. i + 1 \in 1 .. n /\ i + 1 \in 1 .. m  OBVIOUS
  <2>2. g[i + 1] = (IF i + 1 = 1 THEN f[i + 1] ELSE g[i + 1 - 1] \o f[i + 1])
    BY <2>1, FlatAt
  <2>3. h[i + 1] = (IF i + 1 = 1 THEN e[i + 1] ELSE h[i + 1 - 1] \o e[i + 1])
    BY <2>1, FlatAt
  <2>4. i + 1 - 1 = i /\ (i + 1 # 1 => i \in 1 .. k)  OBVIOUS
  <2>. QED  BY <1>2, <2>2, <2>3, <2>4
<1>. HIDE DEF T
<1>3. \A i \in Nat : i \in T  BY <1>1, <1>2, SetInduction
<1>. QED  BY <1>3 DEF T

LEMMA FlattenIs ==
  ASSUME NEW f, Len(f) \in Nat \ {0}
  PROVE  \E g : IsFlat(f, g, Len(f)) /\ Stages!FlattenSeq(f) = g[Len(f)]
<1>. DEFINE g == CHOOSE g : IsFlat(f, g, Len(f))
<1>1. IsFlat(f, g, Len(f))  BY FlatExists
<1>2. Stages!FlattenSeq(f) = g[Len(f)]  BY DEF Stages!FlattenSeq, IsFlat
<1>. QED  BY <1>1, <1>2

LEMMA TakenIs ==
  ASSUME Stages!TypeOK, NEW n \in 0 .. S
  PROVE  /\ SubSeq(applied, 1, n) = [i \in 1 .. n |-> applied[i]]
         /\ Len(SubSeq(applied, 1, n)) = n
<1>1. applied \in Seq(Seq(Stages!Written)) /\ Len(applied) = S
  BY SizeAssumption DEF Stages!TypeOK, Stages!Stage
<1>2. n \in Nat /\ n <= Len(applied)  BY <1>1, SizeAssumption
<1>. QED  BY <1>1, <1>2

LEMMA AfterZero == ASSUME Stages!TypeOK PROVE Stages!After(0) = <<>>
<1>1. 0 \in 0 .. S  BY SizeAssumption
<1>2. Len(SubSeq(applied, 1, 0)) = 0
      /\ SubSeq(applied, 1, 0) = [i \in 1 .. 0 |-> applied[i]]
  BY <1>1, TakenIs
<1>3. SubSeq(applied, 1, 0) = <<>>  BY <1>2
<1>. QED  BY <1>2, <1>3 DEF Stages!After, Stages!FlattenSeq

LEMMA AfterNext ==
  ASSUME Stages!TypeOK, NEW s \in Stages!Stage
  PROVE  Stages!After(s) = Stages!After(s - 1) \o applied[s]
<1>1. s \in 0 .. S /\ s - 1 \in 0 .. S /\ s \in Nat \ {0} /\ s - 1 \in Nat
  BY SizeAssumption DEF Stages!Stage
<1>. DEFINE f == SubSeq(applied, 1, s)
            e == SubSeq(applied, 1, s - 1)
<1>2. f = [i \in 1 .. s |-> applied[i]] /\ Len(f) = s  BY <1>1, TakenIs
<1>3. e = [i \in 1 .. s - 1 |-> applied[i]] /\ Len(e) = s - 1  BY <1>1, TakenIs
<1>4. f[s] = applied[s]  BY <1>1, <1>2
<1>5. \A i \in 1 .. s - 1 : e[i] = f[i]
  <2>1. \A i \in 1 .. s - 1 : i \in 1 .. s  BY <1>1
  <2>. HIDE DEF f, e
  <2>. QED  BY <1>2, <1>3, <2>1
<1>. HIDE DEF f, e
<1>6. PICK g : IsFlat(f, g, s) /\ Stages!FlattenSeq(f) = g[s]  BY <1>1, <1>2, FlattenIs
<1>7. s \in 1 .. s /\ g[s] = (IF s = 1 THEN f[s] ELSE g[s - 1] \o f[s])
  BY <1>1, <1>6, FlatAt
<1>8. CASE s = 1
  <2>1. Stages!After(s - 1) = <<>>  BY <1>8, AfterZero
  <2>2. applied[s] \in Seq(Stages!Written)  BY DEF Stages!TypeOK
  <2>3. Stages!After(s) = applied[s]  BY <1>4, <1>6, <1>7, <1>8 DEF Stages!After, f
  <2>4. <<>> \o applied[s] = applied[s]  BY <2>2, ConcatEmptySeq
  <2>. QED  BY <2>1, <2>3, <2>4
<1>9. CASE s # 1
  <2>1. s - 1 \in Nat \ {0} /\ s - 1 \in 1 .. s - 1 /\ s - 1 <= s  BY <1>1, <1>9
  <2>2. PICK h : IsFlat(e, h, s - 1) /\ Stages!FlattenSeq(e) = h[s - 1]
    BY <1>3, <2>1, FlattenIs
  <2>3. \A i \in 1 .. s - 1 : g[i] = h[i]
    BY <1>1, <1>5, <1>6, <2>1, <2>2, FlatAgrees
  <2>4. g[s - 1] = h[s - 1]  BY <2>1, <2>3
  <2>5. Stages!After(s) = g[s] /\ Stages!After(s - 1) = h[s - 1]
    BY <1>6, <2>2 DEF Stages!After, e, f
  <2>. QED  BY <1>4, <1>7, <1>9, <2>4, <2>5
<1>. QED  BY <1>8, <1>9

LEMMA AfterTyped ==
  ASSUME Stages!TypeOK PROVE \A n \in 0 .. S : Stages!After(n) \in Seq(Stages!Written)
<1>. DEFINE T == {n \in Nat : n \in 0 .. S => Stages!After(n) \in Seq(Stages!Written)}
<1>1. 0 \in T
  <2>1. Stages!After(0) \in Seq(Stages!Written)
    <3>1. <<>> \in Seq(Stages!Written)  OBVIOUS
    <3>. QED  BY <3>1, AfterZero
  <2>. QED  BY <2>1
<1>2. ASSUME NEW n \in Nat, n \in T PROVE n + 1 \in T
  <2>. SUFFICES ASSUME n + 1 \in 0 .. S
                PROVE Stages!After(n + 1) \in Seq(Stages!Written)
    OBVIOUS
  <2>1. n \in 0 .. S /\ n + 1 \in Stages!Stage /\ (n + 1) - 1 = n
    BY SizeAssumption DEF Stages!Stage
  <2>2. Stages!After(n + 1) = Stages!After(n) \o applied[n + 1]  BY <2>1, AfterNext
  <2>3. applied[n + 1] \in Seq(Stages!Written) /\ Stages!After(n) \in Seq(Stages!Written)
    BY <1>2, <2>1 DEF Stages!TypeOK
  <2>4. Stages!After(n) \o applied[n + 1] \in Seq(Stages!Written)  BY <2>3, ConcatProperties
  <2>. QED  BY <2>2, <2>4
<1>. HIDE DEF T
<1>3. \A n \in Nat : n \in T  BY <1>1, <1>2, SetInduction
<1>. QED  BY <1>3, SizeAssumption DEF T

LEMMA AfterLen ==
  ASSUME Stages!TypeOK
  PROVE  \A n \in 0 .. S : AllComplete(n) => Len(Stages!After(n)) = n * K
<1>. DEFINE T == {n \in Nat : n \in 0 .. S /\ AllComplete(n)
     => Len(Stages!After(n)) = n * K}
<1>1. 0 \in T
  <2>1. Len(Stages!After(0)) = 0 /\ 0 * K = 0  BY AfterZero, SizeAssumption
  <2>. QED  BY <2>1
<1>2. ASSUME NEW n \in Nat, n \in T PROVE n + 1 \in T
  <2>. SUFFICES ASSUME n + 1 \in 0 .. S, AllComplete(n + 1)
       PROVE  Len(Stages!After(n + 1)) = (n + 1) * K
    OBVIOUS
  <2>1. n \in 0 .. S /\ n + 1 \in Stages!Stage /\ (n + 1) - 1 = n
    BY SizeAssumption DEF Stages!Stage
  <2>2. AllComplete(n) /\ Len(applied[n + 1]) = K
    <3>1. \A r \in 1 .. n : r \in 1 .. n + 1  OBVIOUS
    <3>2. n + 1 \in 1 .. n + 1  OBVIOUS
    <3>. QED  BY <3>1, <3>2 DEF AllComplete, Stages!IsComplete
  <2>3. Stages!After(n + 1) = Stages!After(n) \o applied[n + 1]  BY <2>1, AfterNext
  <2>4. applied[n + 1] \in Seq(Stages!Written) /\ Stages!After(n) \in Seq(Stages!Written)
    BY <2>1, AfterTyped DEF Stages!TypeOK
  <2>5. Len(Stages!After(n + 1)) = Len(Stages!After(n)) + K  BY <2>2, <2>3, <2>4
  <2>6. Len(Stages!After(n)) = n * K  BY <1>2, <2>1, <2>2
  <2>7. (n + 1) * K = n * K + K  BY SizeAssumption
  <2>. QED  BY <2>5, <2>6, <2>7
<1>. HIDE DEF T
<1>3. \A n \in Nat : n \in T  BY <1>1, <1>2, SetInduction
<1>. QED  BY <1>3, SizeAssumption DEF T

(* Stages that have written nothing add nothing.                           *)
LEMMA AfterRest ==
  ASSUME Stages!TypeOK, NEW s \in 0 .. S, \A r \in s + 1 .. S : applied[r] = <<>>
  PROVE  Stages!After(S) = Stages!After(s)
<1>. DEFINE T == {n \in Nat : n \in s .. S => Stages!After(n) = Stages!After(s)}
<1>0. s \in Nat  BY SizeAssumption
<1>1. 0 \in T
  <2>1. 0 \in s .. S => s = 0  BY <1>0, SizeAssumption
  <2>. QED  BY <2>1
<1>2. ASSUME NEW n \in Nat, n \in T PROVE n + 1 \in T
  <2>. SUFFICES ASSUME n + 1 \in s .. S PROVE Stages!After(n + 1) = Stages!After(s)  OBVIOUS
  <2>1. CASE n + 1 = s  BY <2>1
  <2>2. CASE n + 1 # s
    <3>1. n \in s .. S /\ n + 1 \in s + 1 .. S /\ n + 1 \in Stages!Stage
          /\ (n + 1) - 1 = n /\ n \in 0 .. S
      BY <1>0, <2>2, SizeAssumption DEF Stages!Stage
    <3>2. Stages!After(n + 1) = Stages!After(n) \o applied[n + 1]  BY <3>1, AfterNext
    <3>3. Stages!After(n) \in Seq(Stages!Written) /\ applied[n + 1] = <<>>
      BY <3>1, AfterTyped
    <3>4. Stages!After(n) \o <<>> = Stages!After(n)  BY <3>3
    <3>. QED  BY <1>2, <3>1, <3>2, <3>3, <3>4
  <2>. QED  BY <2>1, <2>2
<1>. HIDE DEF T
<1>3. \A n \in Nat : n \in T  BY <1>1, <1>2, SetInduction
<1>4. S \in Nat /\ S \in s .. S  BY <1>0, SizeAssumption
<1>. QED  BY <1>3, <1>4 DEF T

LEMMA AfterStays ==
  ASSUME Stages!TypeOK, Stages!TypeOK', NEW n \in 0 .. S,
         \A r \in 1 .. n : applied'[r] = applied[r]
  PROVE  Stages!After(n)' = Stages!After(n)
<1>1. SubSeq(applied, 1, n) = [i \in 1 .. n |-> applied[i]]  BY TakenIs
<1>2. SubSeq(applied', 1, n) = [i \in 1 .. n |-> applied'[i]]
  <2>1. applied' \in Seq(Seq(Stages!Written)) /\ Len(applied') = S
    BY SizeAssumption DEF Stages!TypeOK, Stages!Stage
  <2>2. n \in Nat /\ n <= Len(applied')  BY <2>1, SizeAssumption
  <2>. QED  BY <2>1, <2>2
<1>3. SubSeq(applied', 1, n) = SubSeq(applied, 1, n)  BY <1>1, <1>2
<1>. QED  BY <1>3 DEF Stages!After

LEMMA CurrentIs ==
  \/ Stages!CurrentStage = 0 /\ \A s \in Stages!Stage : Stages!IsComplete(s)
  \/ Stages!CurrentStage \in Stages!Stage /\ ~ Stages!IsComplete(Stages!CurrentStage)
     /\ AllComplete(Stages!CurrentStage - 1)
<1>. DEFINE seq == [s \in Stages!Stage |-> ~ Stages!IsComplete(s)]
            I == {i \in 1 .. Len(seq) : seq[i]}
<1>1. Len(seq) = S /\ 1 .. S = Stages!Stage  BY SizeAssumption DEF Stages!Stage
<1>2. Stages!CurrentStage = (IF I # {} THEN Stages!Min(I) ELSE 0)
  BY DEF Stages!CurrentStage, Stages!SelectInSeq
<1>3. I = {i \in Stages!Stage : ~ Stages!IsComplete(i)}
  <2>1. \A i \in Stages!Stage : seq[i] = ~ Stages!IsComplete(i)  OBVIOUS
  <2>. HIDE DEF seq
  <2>. QED  BY <1>1, <2>1
<1>. HIDE DEF I
<1>4. CASE I = {}  BY <1>2, <1>3, <1>4
<1>5. CASE I # {}
  <2>1. \E m \in I : \A j \in I : m <= j
    <3>1. PICK m \in I : \A j \in I : ~ <<j, m>> \in OpToRel(<, Nat)
      <4>1. I \subseteq Nat  BY <1>3, SizeAssumption DEF Stages!Stage
      <4>. QED  BY <1>5, <4>1, NatLessThanWellFounded, WFMin, Zenon
    <3>2. I \subseteq Nat  BY <1>3, SizeAssumption DEF Stages!Stage
    <3>3. \A j \in I : ~ (j < m)  BY <3>1, <3>2 DEF OpToRel
    <3>. QED  BY <3>2, <3>3
  <2>2. Stages!Min(I) \in I /\ \A j \in I : Stages!Min(I) <= j  BY <2>1 DEF Stages!Min
  <2>. DEFINE c == Stages!CurrentStage
  <2>3. c \in I /\ \A j \in I : c <= j  BY <1>2, <1>5, <2>2
  <2>4. c \in Stages!Stage /\ ~ Stages!IsComplete(c)  BY <1>3, <2>3
  <2>5. \A r \in 1 .. c - 1 : r \in Stages!Stage /\ ~ (c <= r)
    BY <2>4, SizeAssumption DEF Stages!Stage
  <2>6. AllComplete(c - 1)  BY <1>3, <2>3, <2>5 DEF AllComplete
  <2>. QED  BY <2>4, <2>6
<1>. QED  BY <1>4, <1>5

LEMMA StagesInitHolds == Stages!Init => StagesInv
<1>. SUFFICES ASSUME Stages!Init PROVE StagesInv  OBVIOUS
<1>1. "absent" \in Stages!Part
  <2>1. 1 \in DOMAIN Stages!Files /\ Stages!Files[1] = "absent"  BY DEF Stages!Files
  <2>. QED  BY <2>1 DEF Stages!Part, Stages!Range
<1>2. Stages!TypeOK
  BY <1>1, SizeAssumption DEF Stages!Init, Stages!TypeOK, Stages!Outcome, Stages!Written
<1>3. Stages!OnlyStopsSpoil  BY DEF Stages!Init, Stages!OnlyStopsSpoil, Stages!Spoiled
<1>4. \A s \in Stages!Stage : StageHolds(s)  BY DEF Stages!Init, StageHolds
<1>5. \A p \in Proc : ProcessHolds(p)  BY DEF Stages!Init, ProcessHolds
<1>. QED  BY <1>2, <1>3, <1>4, <1>5 DEF StagesInv

(* Parts are only added, and a complete stage stays as it is.              *)
Goon ==
    \A s \in Stages!Stage : /\ made[s] # "absent" => made'[s] # "absent"
                            /\ Stages!IsComplete(s) => Stages!IsComplete(s)'
                               /\ applied'[s] = applied[s]

LEMMA CompleteStays ==
  ASSUME Stages!TypeOK, Stages!TypeOK', Goon, NEW n \in 0 .. S, AllComplete(n)
  PROVE  AllComplete(n)' /\ Stages!After(n)' = Stages!After(n)
<1>1. \A r \in 1 .. n : r \in Stages!Stage  BY SizeAssumption DEF Stages!Stage
<1>2. \A r \in 1 .. n : Stages!IsComplete(r)' /\ applied'[r] = applied[r]
  BY <1>1 DEF Goon, AllComplete
<1>3. AllComplete(n)'  BY <1>2 DEF AllComplete
<1>. QED  BY <1>2, <1>3, AfterStays

LEMMA ChainStays ==
  ASSUME Stages!TypeOK, Stages!TypeOK', Goon, NEW s \in Stages!Stage, AllComplete(s - 1)
  PROVE  AllComplete(s - 1)' /\ Stages!Chain(s)' = Stages!Chain(s)
         /\ Stages!After(s - 1)' = Stages!After(s - 1)
<1>1. s - 1 \in 0 .. S  BY SizeAssumption DEF Stages!Stage
<1>2. AllComplete(s - 1)' /\ Stages!After(s - 1)' = Stages!After(s - 1)
  BY <1>1, CompleteStays
<1>. QED  BY <1>2 DEF Stages!Chain

LEMMA StageStays ==
  ASSUME StagesInv, Stages!TypeOK', Goon, NEW s \in Stages!Stage,
         made'[s] = made[s], source'[s] = source[s],
         pending'[s] = pending[s], failed'[s] = failed[s], applied'[s] = applied[s]
  PROVE  StageHolds(s)'
<1>1. StageHolds(s)  BY DEF StagesInv
<1>2. made[s] # "absent" => AllComplete(s - 1)' /\ Stages!Chain(s)' = Stages!Chain(s)
  BY <1>1, ChainStays DEF StagesInv, StageHolds
<1>. QED  BY <1>1, <1>2 DEF StageHolds

SameProcess(q) == chainPc'[q] = chainPc[q] /\ chainAt'[q] = chainAt[q]
  /\ chainSeen'[q] = chainSeen[q]

LEMMA ProcessStays ==
  ASSUME StagesInv, Stages!TypeOK', Goon, NEW q \in Proc, SameProcess(q)
  PROVE  ProcessHolds(q)'
<1>1. ProcessHolds(q)  BY DEF StagesInv
<1>2. CASE chainPc[q] \in {"create", "fill", "advance"}
  <2>1. PICK s \in Stages!Stage : s = chainAt[q]  BY <1>1, <1>2 DEF ProcessHolds
  <2>2. AllComplete(s - 1)  BY <1>1, <1>2, <2>1 DEF ProcessHolds
  <2>3. AllComplete(s - 1)' /\ Stages!After(s - 1)' = Stages!After(s - 1)
    BY <2>2, ChainStays DEF StagesInv
  <2>4. made'[s] = "absent" => made[s] = "absent"  BY DEF Goon
  <2>5. made[s] # "absent" => made'[s] # "absent"  BY DEF Goon
  <2>6. chainPc[q] = "create" /\ made[s] = "absent" => chainSeen[q] = Stages!After(s - 1)
    BY <1>1, <2>1 DEF ProcessHolds
  <2>7. chainPc[q] = "fill" => made[s] # "absent" /\ chainSeen[q] = Stages!After(s - 1)
    BY <1>1, <2>1 DEF ProcessHolds
  <2>8. chainAt'[q] = s /\ chainPc'[q] = chainPc[q] /\ chainSeen'[q] = chainSeen[q]
    BY <2>1 DEF SameProcess
  <2>. QED  BY <1>1, <1>2, <2>3, <2>4, <2>5, <2>6, <2>7, <2>8 DEF ProcessHolds
<1>3. CASE chainPc[q] \notin {"create", "fill", "advance"}
  BY <1>1, <1>3 DEF ProcessHolds, SameProcess
<1>. QED  BY <1>2, <1>3

LEMMA PartIs == Stages!Part = {"absent", "directory", "spec", "script", "whole"}
<1>1. DOMAIN Stages!Files = 1 .. 5 /\ 1 .. 5 = {1, 2, 3, 4, 5}  BY DEF Stages!Files
<1>2. Stages!Part = {Stages!Files[i] : i \in 1 .. 5}  BY <1>1 DEF Stages!Part, Stages!Range
<1>3. Stages!Files[1] = "absent" /\ Stages!Files[2] = "directory"
      /\ Stages!Files[3] = "spec" /\ Stages!Files[4] = "script"
      /\ Stages!Files[5] = "whole"
  BY DEF Stages!Files
<1>. QED  BY <1>1, <1>2, <1>3

(* What TypeOK says of the children, and of the processes.                 *)
ChildrenOK ==
    /\ made \in [Stages!Stage -> Stages!Part]
    /\ source \in [Stages!Stage -> Seq(Stages!Written) \cup {None}]
    /\ applied \in [Stages!Stage -> Seq(Stages!Written)]
    /\ pending \in [Stages!Stage -> BOOLEAN] /\ failed \in [Stages!Stage -> BOOLEAN]
    /\ \A s \in Stages!Stage : /\ Len(applied[s]) <= K
                               /\ made[s] # "whole" => applied[s] = <<>>
                                  /\ ~ pending[s] /\ ~ failed[s]

ProcessesOK ==
    /\ chainPc \in [Proc -> Stages!Working \cup Stages!Outcome]
    /\ chainAt \in [Proc -> Stages!Stage \cup {None}]
    /\ chainSeen \in [Proc -> Seq(Stages!Written)]

LEMMA StagesTypesAre ==
  Stages!TypeOK <=> ChildrenOK /\ ProcessesOK /\ chainCrashes \in 0 .. MaxCrash
BY DEF Stages!TypeOK, ChildrenOK, ProcessesOK

StagesAlone(p) == \A q \in Proc \ {p} : SameProcess(q)

(* A step that writes nothing.                                             *)
LEMMA QuietStep ==
  ASSUME StagesInv, UNCHANGED Stages!children, NEW p \in Proc, StagesAlone(p), ProcessesOK',
         (chainCrashes' = chainCrashes /\ chainPc[p] # "fill") \/ chainCrashes' \in 1 .. MaxCrash,
         ProcessHolds(p)'
  PROVE  StagesInv'
<1>1. chainCrashes' \in 0 .. MaxCrash  BY SizeAssumption DEF StagesInv, Stages!TypeOK
<1>2. Stages!TypeOK'  BY <1>1 DEF StagesInv, Stages!TypeOK, Stages!children, ProcessesOK
<1>3. Goon  BY DEF Goon, Stages!children, Stages!IsComplete
<1>4. \A s \in Stages!Stage : StageHolds(s)'  BY <1>2, <1>3, StageStays DEF Stages!children
<1>5. \A q \in Proc : ProcessHolds(q)'  BY <1>2, <1>3, ProcessStays DEF StagesAlone
<1>6. Stages!OnlyStopsSpoil'
  <2>1. CASE chainCrashes' \in 1 .. MaxCrash  BY <2>1, SizeAssumption
                                                 DEF Stages!OnlyStopsSpoil
  <2>2. CASE chainCrashes' = chainCrashes /\ chainPc[p] # "fill"
    <3>. SUFFICES ASSUME NEW s \in Stages!Stage, Stages!Spoiled(s)' PROVE chainCrashes > 0
      BY <2>2 DEF Stages!OnlyStopsSpoil
    <3>1. Stages!Spoiled(s)
      <4>1. made[s] \notin {"absent", "whole"}  BY DEF Stages!Spoiled, Stages!children
      <4>2. Stages!IsFilling(s) => Stages!IsFilling(s)'
        BY <2>2 DEF Stages!IsFilling, StagesAlone, SameProcess
      <4>3. ~ Stages!IsFilling(s)'  BY DEF Stages!Spoiled
      <4>. QED  BY <4>1, <4>2, <4>3 DEF Stages!Spoiled
    <3>. QED  BY <3>1 DEF StagesInv, Stages!OnlyStopsSpoil
  <2>. QED  BY <2>1, <2>2
<1>. QED  BY <1>2, <1>4, <1>5, <1>6 DEF StagesInv

LEMMA StagesEndsTyped ==
  ASSUME ProcessesOK, NEW p \in Proc, NEW o \in Stages!Outcome \cup {"rebuild"},
         Stages!Ends(p, o)
  PROVE  ProcessesOK' /\ StagesAlone(p) /\ chainPc'[p] = o
<1>1. o \in Stages!Working \cup Stages!Outcome /\ <<>> \in Seq(Stages!Written)
  BY DEF Stages!Working
<1>. QED  BY <1>1 DEF ProcessesOK, StagesAlone, SameProcess, Stages!Ends, Stages!Goes

LEMMA StagesStartKeeps == ASSUME StagesInv, NEW p \in Proc, Stages!Start(p) PROVE StagesInv'
<1>1. chainPc[p] \in Stages!Outcome /\ Stages!Goes(p, "rebuild")
      /\ UNCHANGED <<Stages!children, chainCrashes, chainAt, chainSeen>>
  BY DEF Stages!Start
<1>2. ProcessesOK' /\ StagesAlone(p) /\ chainPc'[p] = "rebuild"
  BY <1>1 DEF StagesInv, Stages!TypeOK, ProcessesOK, StagesAlone, SameProcess,
     Stages!Goes, Stages!Working
<1>3. ProcessHolds(p)'  BY <1>2 DEF ProcessHolds
<1>4. chainPc[p] # "fill"  BY <1>1 DEF Stages!Outcome
<1>. QED  BY <1>1, <1>2, <1>3, <1>4, QuietStep

LEMMA RebuildKeeps == ASSUME StagesInv, NEW p \in Proc, Stages!Rebuild(p) PROVE StagesInv'
<1>1. chainPc[p] = "rebuild" /\ UNCHANGED <<Stages!children, chainCrashes>>
  BY DEF Stages!Rebuild
<1>2. ProcessesOK  BY StagesTypesAre DEF StagesInv
<1>3. ASSUME NEW o \in {"over", "unreadable"}, Stages!Ends(p, o) PROVE StagesInv'
  <2>1. ProcessesOK' /\ StagesAlone(p) /\ chainPc'[p] = o
    BY <1>2, <1>3, StagesEndsTyped DEF Stages!Outcome
  <2>2. ProcessHolds(p)'  BY <2>1 DEF ProcessHolds
  <2>. QED  BY <1>1, <2>1, <2>2, QuietStep
<1>4. CASE Stages!CurrentStage = 0  BY <1>3, <1>4 DEF Stages!Rebuild
<1>5. CASE Stages!CurrentStage # 0
  <2>1. PICK s \in Stages!Stage : s = Stages!CurrentStage /\ ~ Stages!IsComplete(s)
        /\ AllComplete(s - 1)
    BY <1>5, CurrentIs
  <2>2. CASE made[s] \in {"directory", "spec", "script"}
    BY <1>3, <1>5, <2>1, <2>2 DEF Stages!Rebuild
  <2>3. CASE made[s] \notin {"directory", "spec", "script"}
    <3>1. ~ (made[s] = "whole" /\ source[s] # Stages!Chain(s))
      BY DEF StagesInv, StageHolds
    <3>2. CASE pending[s] \/ failed[s]
      BY <1>3, <1>5, <2>1, <2>3, <3>1, <3>2 DEF Stages!Rebuild
    <3>3. CASE ~ (pending[s] \/ failed[s])
      <4>1. /\ Stages!Goes(p, "create") /\ chainAt' = [chainAt EXCEPT ![p] = s]
            /\ chainSeen' = [chainSeen EXCEPT ![p] = Stages!After(s - 1) \o applied[s]]
        BY <1>5, <2>1, <2>3, <3>1, <3>3 DEF Stages!Rebuild
      <4>2. s - 1 \in 0 .. S  BY SizeAssumption DEF Stages!Stage
      <4>3. Stages!After(s - 1) \in Seq(Stages!Written)
            /\ applied[s] \in Seq(Stages!Written)
        BY <4>2, AfterTyped DEF StagesInv, Stages!TypeOK
      <4>4. Stages!After(s - 1) \o applied[s] \in Seq(Stages!Written)
        BY <4>3, ConcatProperties
      <4>5. ProcessesOK' /\ StagesAlone(p) /\ chainPc'[p] = "create" /\ chainAt'[p] = s
            /\ chainSeen'[p] = Stages!After(s - 1) \o applied[s]
        BY <1>2, <4>1, <4>4 DEF ProcessesOK, StagesAlone, SameProcess, Stages!Goes,
           Stages!Working
      <4>6. AllComplete(s - 1)' /\ Stages!After(s - 1)' = Stages!After(s - 1)
        BY <1>1, <2>1 DEF AllComplete, Stages!IsComplete, Stages!After, Stages!children
      <4>7. made[s] = "absent" => chainSeen'[p] = Stages!After(s - 1)
        <5>1. made[s] = "absent" => applied[s] = <<>>  BY DEF StagesInv, Stages!TypeOK
        <5>2. Stages!After(s - 1) \o <<>> = Stages!After(s - 1)  BY <4>3, ConcatEmptySeq
        <5>. QED  BY <4>5, <5>1, <5>2
      <4>8. ProcessHolds(p)'
        BY <1>1, <4>5, <4>6, <4>7 DEF ProcessHolds, Stages!children
      <4>. QED  BY <1>1, <4>5, <4>8, QuietStep
    <3>. QED  BY <3>2, <3>3
  <2>. QED  BY <2>2, <2>3
<1>. QED  BY <1>4, <1>5

LEMMA StagesCrashKeeps == ASSUME StagesInv, NEW p \in Proc, Stages!Crash(p) PROVE StagesInv'
<1>1. Stages!Ends(p, "over") /\ chainCrashes < MaxCrash
      /\ chainCrashes' = chainCrashes + 1 /\ UNCHANGED Stages!children
  BY DEF Stages!Crash
<1>2. ProcessesOK' /\ StagesAlone(p) /\ chainPc'[p] = "over"
  BY <1>1, StagesTypesAre, StagesEndsTyped DEF StagesInv, Stages!Outcome
<1>3. ProcessHolds(p)'  BY <1>2 DEF ProcessHolds
<1>4. chainCrashes' \in 1 .. MaxCrash  BY <1>1, SizeAssumption DEF StagesInv, Stages!TypeOK
<1>. QED  BY <1>1, <1>2, <1>3, <1>4, QuietStep

(* A step about one stage.                                                 *)
SameStage(r) ==
    /\ made'[r] = made[r] /\ source'[r] = source[r] /\ applied'[r] = applied[r]
    /\ pending'[r] = pending[r] /\ failed'[r] = failed[r]

LEMMA ChildStep ==
  ASSUME StagesInv, NEW s \in Stages!Stage, \A r \in Stages!Stage \ {s} : SameStage(r),
         ChildrenOK', ProcessesOK',
         UNCHANGED chainCrashes, ~ Stages!IsComplete(s), made[s] # "absent"
           => made'[s] # "absent",
         Goon /\ Stages!TypeOK' => StageHolds(s)',
         \/ made'[s] \in {"absent", "whole"} \/ Stages!IsFilling(s)'
         \/ made[s] \notin {"absent", "whole"} /\ (Stages!IsFilling(s)
            => Stages!IsFilling(s)'),
         \A r \in Stages!Stage \ {s} : Stages!IsFilling(r) => Stages!IsFilling(r)',
         \A q \in Proc : SameProcess(q) \/ (Goon /\ Stages!TypeOK' => ProcessHolds(q)')
  PROVE  StagesInv'
<1>1. Stages!TypeOK'  BY DEF StagesInv, Stages!TypeOK, ChildrenOK, ProcessesOK
<1>2. Goon  BY DEF Goon, SameStage, Stages!IsComplete
<1>3. \A r \in Stages!Stage : StageHolds(r)'
  <2>. SUFFICES ASSUME NEW r \in Stages!Stage PROVE StageHolds(r)'  OBVIOUS
  <2>1. CASE r = s  BY <1>1, <1>2, <2>1
  <2>2. CASE r # s  BY <1>1, <1>2, <2>2, StageStays DEF SameStage
  <2>. QED  BY <2>1, <2>2
<1>4. \A q \in Proc : ProcessHolds(q)'  BY <1>1, <1>2, ProcessStays
<1>5. Stages!OnlyStopsSpoil'
  <2>. SUFFICES ASSUME NEW r \in Stages!Stage, Stages!Spoiled(r)' PROVE chainCrashes > 0
    BY DEF Stages!OnlyStopsSpoil
  <2>1. made'[r] \notin {"absent", "whole"} /\ ~ Stages!IsFilling(r)'  BY DEF Stages!Spoiled
  <2>2. Stages!Spoiled(r)
    <3>1. CASE r = s  BY <2>1, <3>1 DEF Stages!Spoiled
    <3>2. CASE r # s  BY <2>1, <3>2 DEF Stages!Spoiled, SameStage
    <3>. QED  BY <3>1, <3>2
  <2>. QED  BY <2>2 DEF StagesInv, Stages!OnlyStopsSpoil
<1>. QED  BY <1>1, <1>3, <1>4, <1>5 DEF StagesInv

LEMMA CreateKeeps == ASSUME StagesInv, NEW p \in Proc, Stages!Create(p) PROVE StagesInv'
<1>1. chainPc[p] = "create"
      /\ UNCHANGED <<source, applied, pending, failed, chainCrashes, chainAt, chainSeen>>
  BY DEF Stages!Create
<1>2. PICK s \in Stages!Stage : s = chainAt[p]  BY <1>1 DEF StagesInv, ProcessHolds
<1>3. ProcessHolds(p) /\ ProcessesOK /\ ChildrenOK  BY StagesTypesAre DEF StagesInv
<1>4. AllComplete(s - 1) /\ (made[s] = "absent" => chainSeen[p] = Stages!After(s - 1))
  BY <1>1, <1>2, <1>3 DEF ProcessHolds
<1>5. CASE made[s] # "absent"
  <2>1. Stages!Goes(p, "advance") /\ UNCHANGED Stages!children
    BY <1>1, <1>2, <1>5 DEF Stages!Create, Stages!children
  <2>2. ProcessesOK' /\ StagesAlone(p) /\ chainPc'[p] = "advance"
    BY <1>1, <1>3, <2>1 DEF ProcessesOK, StagesAlone, SameProcess, Stages!Goes,
       Stages!Working
  <2>3. ProcessHolds(p)'
    BY <1>1, <1>2, <1>4, <2>1, <2>2 DEF ProcessHolds, AllComplete, Stages!IsComplete,
       Stages!children
  <2>. QED  BY <1>1, <2>1, <2>2, <2>3, QuietStep
<1>6. CASE made[s] = "absent"
  <2>1. made' = [made EXCEPT ![s] = "directory"] /\ Stages!Goes(p, "fill")
    BY <1>1, <1>2, <1>6 DEF Stages!Create
  <2>2. ProcessesOK' /\ StagesAlone(p) /\ chainPc'[p] = "fill" /\ chainAt'[p] = s
        /\ chainSeen'[p] = chainSeen[p]
    BY <1>1, <1>2, <1>3, <2>1 DEF ProcessesOK, StagesAlone, SameProcess, Stages!Goes,
       Stages!Working
  <2>3. made \in [Stages!Stage -> Stages!Part] /\ "directory" \in Stages!Part
    BY <1>3, PartIs DEF ChildrenOK
  <2>4. made'[s] = "directory" /\ \A r \in Stages!Stage \ {s} : made'[r] = made[r]
    BY <2>1, <2>3
  <2>5. \A r \in Stages!Stage \ {s} : SameStage(r)  BY <1>1, <2>4 DEF SameStage
  <2>6. ChildrenOK'
    <3>1. made' \in [Stages!Stage -> Stages!Part]  BY <2>1, <2>3
    <3>2. \A r \in Stages!Stage : made'[r] # "whole" => made[r] # "whole"  BY <1>6, <2>4
    <3>. QED  BY <1>1, <1>3, <3>1, <3>2 DEF ChildrenOK
  <2>7. ~ Stages!IsComplete(s)  BY <1>6 DEF Stages!IsComplete
  <2>8. ASSUME Goon, Stages!TypeOK' PROVE StageHolds(s)'
    <3>1. AllComplete(s - 1)'  BY <1>4, <2>8, ChainStays DEF StagesInv
    <3>2. ~ pending[s] /\ ~ failed[s]  BY <1>3, <1>6 DEF ChildrenOK
    <3>. QED  BY <1>1, <2>4, <3>1, <3>2 DEF StageHolds
  <2>9. ASSUME Goon, Stages!TypeOK' PROVE ProcessHolds(p)'
    <3>1. AllComplete(s - 1)' /\ Stages!After(s - 1)' = Stages!After(s - 1)
      BY <1>4, <2>9, ChainStays DEF StagesInv
    <3>. QED  BY <1>4, <1>6, <2>2, <2>4, <3>1 DEF ProcessHolds
  <2>10. Stages!IsFilling(s)'  BY <2>2 DEF Stages!IsFilling
  <2>11. \A r \in Stages!Stage \ {s} : Stages!IsFilling(r) => Stages!IsFilling(r)'
    BY <1>1, <2>2 DEF Stages!IsFilling, StagesAlone, SameProcess
  <2>12. \A q \in Proc : SameProcess(q) \/ (Goon /\ Stages!TypeOK' => ProcessHolds(q)')
    BY <2>2, <2>9 DEF StagesAlone
  <2>. QED  BY <1>1, <1>6, <2>2, <2>4, <2>5, <2>6, <2>7, <2>8, <2>10, <2>11, <2>12,
               ChildStep
<1>. QED  BY <1>5, <1>6

LEMMA FillKeeps == ASSUME StagesInv, NEW p \in Proc, Stages!Fill(p) PROVE StagesInv'
<1>1. chainPc[p] = "fill" /\ UNCHANGED <<applied, pending, failed, chainCrashes>>
  BY DEF Stages!Fill
<1>2. PICK s \in Stages!Stage : s = chainAt[p]  BY <1>1 DEF StagesInv, ProcessHolds
<1>3. ProcessHolds(p) /\ ProcessesOK /\ ChildrenOK /\ StageHolds(s)
  BY StagesTypesAre DEF StagesInv
<1>4. AllComplete(s - 1) /\ made[s] # "absent" /\ chainSeen[p] = Stages!After(s - 1)
  BY <1>1, <1>2, <1>3 DEF ProcessHolds
<1>5. made \in [Stages!Stage -> Stages!Part]
      /\ {"spec", "script", "whole"} \subseteq Stages!Part
      /\ source \in [Stages!Stage -> Seq(Stages!Written) \cup {None}]
  BY <1>3, PartIs DEF ChildrenOK
<1>6. chainSeen[p] \in Seq(Stages!Written)  BY <1>3 DEF ProcessesOK
<1>7. CASE made[s] \in {"directory", "spec", "script"}
  <2>. DEFINE next == IF made[s] = "directory" THEN "spec"
                      ELSE IF made[s] = "spec" THEN "script" ELSE "whole"
  <2>1. /\ made' = [made EXCEPT ![s] = next]
        /\ UNCHANGED <<chainAt, chainSeen>>
        /\ made[s] = "directory" =>
              source' = [source EXCEPT ![s] = IF s = 1 THEN None ELSE chainSeen[p]]
        /\ made[s] # "directory" => source' = source
        /\ made[s] = "script" => Stages!Goes(p, "advance")
        /\ made[s] # "script" => chainPc' = chainPc
    BY <1>2, <1>7 DEF Stages!Fill
  <2>2. next \in Stages!Part /\ next # "absent" /\ next # "directory"
        /\ (next = "whole" <=> made[s] = "script")
    BY <1>5, <1>7
  <2>. HIDE DEF next
  <2>3. made'[s] = next /\ \A r \in Stages!Stage \ {s} : made'[r] = made[r]  BY <1>5, <2>1
  <2>4. source'[s] = Stages!Chain(s)
    <3>1. Stages!Chain(s) = (IF s = 1 THEN None ELSE chainSeen[p])  BY <1>4 DEF Stages!Chain
    <3>2. CASE made[s] = "directory"  BY <1>5, <2>1, <3>1, <3>2
    <3>3. CASE made[s] # "directory"  BY <1>3, <1>4, <2>1, <3>3 DEF StageHolds
    <3>. QED  BY <3>2, <3>3
  <2>5. \A r \in Stages!Stage \ {s} : source'[r] = source[r]  BY <1>5, <2>1
  <2>6. \A r \in Stages!Stage \ {s} : SameStage(r)  BY <1>1, <2>3, <2>5 DEF SameStage
  <2>7. ProcessesOK' /\ StagesAlone(p) /\ chainAt'[p] = s /\ chainSeen'[p] = chainSeen[p]
        /\ chainPc'[p] = (IF made[s] = "script" THEN "advance" ELSE "fill")
    BY <1>1, <1>2, <1>3, <2>1 DEF ProcessesOK, StagesAlone, SameProcess, Stages!Goes,
       Stages!Working
  <2>8. ChildrenOK'
    <3>1. made' \in [Stages!Stage -> Stages!Part]  BY <1>5, <2>1, <2>2
    <3>2. source' \in [Stages!Stage -> Seq(Stages!Written) \cup {None}]  BY <1>5, <1>6, <2>1
    <3>3. \A r \in Stages!Stage : made'[r] # "whole" => applied[r] = <<>>
          /\ ~ pending[r] /\ ~ failed[r]
      BY <1>3, <1>7, <2>3 DEF ChildrenOK
    <3>. QED  BY <1>1, <1>3, <3>1, <3>2, <3>3 DEF ChildrenOK
  <2>9. ~ Stages!IsComplete(s)  BY <1>7 DEF Stages!IsComplete
  <2>10. ASSUME Goon, Stages!TypeOK' PROVE StageHolds(s)'
    <3>1. AllComplete(s - 1)' /\ Stages!Chain(s)' = Stages!Chain(s)
      BY <1>4, <2>10, ChainStays DEF StagesInv
    <3>. QED  BY <1>1, <1>3, <2>4, <3>1 DEF StageHolds
  <2>11. ASSUME Goon, Stages!TypeOK' PROVE ProcessHolds(p)'
    <3>1. AllComplete(s - 1)' /\ Stages!After(s - 1)' = Stages!After(s - 1)
      BY <1>4, <2>11, ChainStays DEF StagesInv
    <3>. QED  BY <1>4, <2>2, <2>3, <2>7, <3>1 DEF ProcessHolds
  <2>12. made'[s] = "whole" \/ Stages!IsFilling(s)'
    BY <2>2, <2>3, <2>7 DEF Stages!IsFilling
  <2>13. \A r \in Stages!Stage \ {s} : Stages!IsFilling(r) => Stages!IsFilling(r)'
    BY <1>2, <2>7 DEF Stages!IsFilling, StagesAlone, SameProcess
  <2>14. \A q \in Proc : SameProcess(q) \/ (Goon /\ Stages!TypeOK' => ProcessHolds(q)')
    BY <2>7, <2>11 DEF StagesAlone
  <2>. QED  BY <1>1, <1>4, <2>2, <2>3, <2>6, <2>7, <2>8, <2>9, <2>10, <2>12, <2>13,
               <2>14, ChildStep
<1>8. CASE made[s] \notin {"directory", "spec", "script"}
  <2>1. made[s] = "whole"  BY <1>4, <1>5, <1>8, PartIs
  <2>2. Stages!Goes(p, "advance") /\ UNCHANGED <<Stages!children, chainAt, chainSeen>>
    BY <1>1, <1>2, <1>8 DEF Stages!Fill, Stages!children
  <2>3. ProcessesOK' /\ StagesAlone(p) /\ chainPc'[p] = "advance"
    BY <1>3, <2>2 DEF ProcessesOK, StagesAlone, SameProcess, Stages!Goes, Stages!Working
  <2>4. Stages!TypeOK'
    BY <1>1, <2>2, <2>3 DEF StagesInv, Stages!TypeOK, Stages!children, ProcessesOK
  <2>5. Goon  BY <2>2 DEF Goon, Stages!children, Stages!IsComplete
  <2>6. ProcessHolds(p)'
    BY <1>2, <1>4, <2>2, <2>3 DEF ProcessHolds, AllComplete, Stages!IsComplete,
       Stages!children
  <2>7. \A r \in Stages!Stage : StageHolds(r)'
    BY <2>2, <2>4, <2>5, StageStays DEF Stages!children
  <2>8. \A q \in Proc : ProcessHolds(q)'
    BY <2>3, <2>4, <2>5, <2>6, ProcessStays DEF StagesAlone
  <2>9. Stages!OnlyStopsSpoil'
    <3>. SUFFICES ASSUME NEW r \in Stages!Stage, Stages!Spoiled(r)' PROVE chainCrashes > 0
      BY <1>1 DEF Stages!OnlyStopsSpoil
    <3>1. made[r] \notin {"absent", "whole"} /\ ~ Stages!IsFilling(r)'
      BY <2>2 DEF Stages!Spoiled, Stages!children
    <3>2. ~ Stages!IsFilling(r)
      BY <1>2, <2>1, <2>3, <3>1 DEF Stages!IsFilling, StagesAlone, SameProcess
    <3>. QED  BY <3>1, <3>2 DEF StagesInv, Stages!OnlyStopsSpoil, Stages!Spoiled
  <2>. QED  BY <2>4, <2>7, <2>8, <2>9 DEF StagesInv
<1>. QED  BY <1>7, <1>8

(* A step of the workspace run of one stage, which is not complete.        *)
Runs(s) ==
    /\ \A r \in Stages!Stage \ {s} : /\ applied'[r] = applied[r] /\ pending'[r] = pending[r]
                                     /\ failed'[r] = failed[r]
    /\ \/ /\ applied'[s] = applied[s] /\ failed'[s] = failed[s]
          /\ ~ pending[s] /\ pending'[s] = TRUE
             /\ Stages!Number(s, Len(applied[s]) + 1) \in StageReviewed
       \/ /\ pending'[s] = FALSE
          /\ ~ pending[s] => Stages!Number(s, Len(applied[s]) + 1) \notin StageReviewed
          /\ \/ applied'[s] = applied[s] /\ failed'[s] = TRUE
             \/ failed'[s] = failed[s]
                /\ \E w \in Stages!Written : applied'[s] = Append(applied[s], w)

LEMMA RunsKeeps ==
  ASSUME StagesInv, NEW s \in Stages!Stage, made[s] = "whole", AllComplete(s - 1),
         ~ failed[s], Len(applied[s]) < K, Runs(s),
         applied' \in [Stages!Stage -> Seq(Stages!Written)], pending' \in [Stages!Stage -> BOOLEAN],
         failed' \in [Stages!Stage -> BOOLEAN],
         UNCHANGED <<made, source, chainCrashes, chainPc, chainAt, chainSeen>>
  PROVE  StagesInv'
<1>1. ChildrenOK /\ ProcessesOK  BY StagesTypesAre DEF StagesInv
<1>2. applied[s] \in Seq(Stages!Written) /\ applied'[s] \in Seq(Stages!Written)
      /\ Len(applied[s]) \in Nat
  BY <1>1 DEF ChildrenOK
<1>3. Len(applied'[s]) <= K /\ (applied'[s] = applied[s] \/ Len(applied'[s]) = Len(applied[s]) + 1)
  <2>1. \A w \in Stages!Written : Len(Append(applied[s], w)) = Len(applied[s]) + 1  BY <1>2
  <2>. QED  BY <1>2, <2>1, SizeAssumption DEF Runs
<1>4. ChildrenOK'
  <2>1. \A r \in Stages!Stage : Len(applied'[r]) <= K  BY <1>1, <1>3 DEF ChildrenOK, Runs
  <2>2. \A r \in Stages!Stage : made'[r] # "whole" => applied'[r] = <<>>
        /\ ~ pending'[r] /\ ~ failed'[r]
    BY <1>1 DEF ChildrenOK, Runs
  <2>. QED  BY <1>1, <2>1, <2>2 DEF ChildrenOK
<1>5. ProcessesOK'  BY <1>1 DEF ProcessesOK
<1>6. \A r \in Stages!Stage \ {s} : SameStage(r)  BY DEF Runs, SameStage
<1>7. ~ Stages!IsComplete(s)  BY <1>2, SizeAssumption DEF Stages!IsComplete
<1>8. ASSUME Goon, Stages!TypeOK' PROVE StageHolds(s)'
  <2>1. AllComplete(s - 1)' /\ Stages!Chain(s)' = Stages!Chain(s)
    BY <1>8, ChainStays DEF StagesInv
  <2>2. StageHolds(s)  BY DEF StagesInv
  <2>3. pending'[s] => ~ failed'[s] /\ Len(applied'[s]) < K  BY DEF Runs
  <2>4. failed'[s] => Len(applied'[s]) < K  BY DEF Runs
  <2>. QED  BY <2>1, <2>2, <2>3, <2>4 DEF StageHolds
<1>9. \A r \in Stages!Stage : Stages!IsFilling(r) => Stages!IsFilling(r)'
  BY DEF Stages!IsFilling
<1>10. \A q \in Proc : SameProcess(q)  BY DEF SameProcess
<1>. QED  BY <1>4, <1>5, <1>6, <1>7, <1>8, <1>9, <1>10, ChildStep

LEMMA ProposesRuns ==
  ASSUME StagesInv, NEW s \in Stages!Stage, NEW write \in Stages!Written,
         NEW fails \in BOOLEAN,
         Stages!Proposes(s, write, fails)
  PROVE  /\ Runs(s) /\ ~ failed[s] /\ Len(applied[s]) < K
         /\ applied' \in [Stages!Stage -> Seq(Stages!Written)]
            /\ pending' \in [Stages!Stage -> BOOLEAN]
         /\ failed' \in [Stages!Stage -> BOOLEAN]
<1>1. /\ applied \in [Stages!Stage -> Seq(Stages!Written)]
         /\ pending \in [Stages!Stage -> BOOLEAN]
      /\ failed \in [Stages!Stage -> BOOLEAN]
  BY DEF StagesInv, Stages!TypeOK
<1>2. ~ pending[s] /\ ~ failed[s] /\ Len(applied[s]) + 1 <= K  BY DEF Stages!Proposes
<1>3. Len(applied[s]) \in Nat /\ Append(applied[s], write) \in Seq(Stages!Written)  BY <1>1
<1>4. Len(applied[s]) < K  BY <1>2, <1>3, SizeAssumption
<1>5. CASE Stages!Number(s, Len(applied[s]) + 1) \in StageReviewed
  <2>1. pending' = [pending EXCEPT ![s] = TRUE] /\ UNCHANGED <<applied, failed>>
    BY <1>5 DEF Stages!Proposes
  <2>. QED  BY <1>1, <1>2, <1>4, <1>5, <2>1 DEF Runs
<1>6. CASE Stages!Number(s, Len(applied[s]) + 1) \notin StageReviewed /\ fails
  <2>1. failed' = [failed EXCEPT ![s] = TRUE] /\ UNCHANGED <<applied, pending>>
    BY <1>6 DEF Stages!Proposes
  <2>. QED  BY <1>1, <1>2, <1>4, <1>6, <2>1 DEF Runs
<1>7. CASE Stages!Number(s, Len(applied[s]) + 1) \notin StageReviewed /\ ~ fails
  <2>1. applied' = [applied EXCEPT ![s] = Append(@, write)] /\ UNCHANGED <<failed, pending>>
    BY <1>7 DEF Stages!Proposes
  <2>2. applied' \in [Stages!Stage -> Seq(Stages!Written)]
        /\ applied'[s] = Append(applied[s], write)
        /\ \A r \in Stages!Stage \ {s} : applied'[r] = applied[r]
    BY <1>1, <1>3, <2>1
  <2>3. pending'[s] = FALSE  BY <1>1, <1>2, <2>1
  <2>. QED  BY <1>1, <1>2, <1>4, <1>7, <2>1, <2>2, <2>3 DEF Runs
<1>. QED  BY <1>5, <1>6, <1>7

(* What an advancing process does to its stage, if anything.               *)
LEMMA AdvanceIs ==
  ASSUME StagesInv, NEW p \in Proc, Stages!Advance(p)
  PROVE  \/ /\ UNCHANGED <<Stages!children, chainCrashes>>
            /\ \E o \in Stages!Outcome \cup {"rebuild"} :
                  o # "mismatch" /\ Stages!Ends(p, o)
         \/ \E s \in Stages!Stage :
               /\ made[s] = "whole" /\ AllComplete(s - 1)
               /\ ~ failed[s] /\ Len(applied[s]) < K /\ Runs(s)
               /\ applied' \in [Stages!Stage -> Seq(Stages!Written)]
                  /\ pending' \in [Stages!Stage -> BOOLEAN]
               /\ failed' \in [Stages!Stage -> BOOLEAN]
               /\ UNCHANGED <<made, source, chainCrashes, chainPc, chainAt, chainSeen>>
<1>1. chainPc[p] = "advance" /\ UNCHANGED <<made, source, chainCrashes>>
  BY DEF Stages!Advance
<1>2. PICK s \in Stages!Stage : s = chainAt[p] /\ AllComplete(s - 1)
  BY <1>1 DEF StagesInv, ProcessHolds
<1>3. \/ /\ UNCHANGED <<applied, pending, failed>>
         /\ Stages!Ends(p, "unreadable") \/ Stages!Ends(p, "rebuild") \/ Stages!Ends(p, "over") \/ Stages!Ends(p, "error")
      \/ /\ made[s] = "whole" /\ UNCHANGED <<chainPc, chainAt, chainSeen>>
         /\ \E write \in Stages!Written, fails \in BOOLEAN : Stages!Proposes(s, write, fails)
  BY <1>2 DEF Stages!Advance
<1>4. CASE /\ UNCHANGED <<applied, pending, failed>>
           /\ Stages!Ends(p, "unreadable") \/ Stages!Ends(p, "rebuild") \/ Stages!Ends(p, "over") \/ Stages!Ends(p, "error")
  <2>1. UNCHANGED <<Stages!children, chainCrashes>>  BY <1>1, <1>4 DEF Stages!children
  <2>2. {"unreadable", "rebuild", "over", "error"} \subseteq Stages!Outcome \cup {"rebuild"}
    BY DEF Stages!Outcome
  <2>. QED  BY <1>4, <2>1, <2>2
<1>5. CASE /\ made[s] = "whole" /\ UNCHANGED <<chainPc, chainAt, chainSeen>>
           /\ \E write \in Stages!Written, fails \in BOOLEAN : Stages!Proposes(s, write, fails)
  <2>1. PICK write \in Stages!Written, fails \in BOOLEAN : Stages!Proposes(s, write, fails)
    BY <1>5
  <2>. QED  BY <1>1, <1>2, <1>5, <2>1, ProposesRuns
<1>. QED  BY <1>3, <1>4, <1>5

LEMMA AdvanceKeeps == ASSUME StagesInv, NEW p \in Proc, Stages!Advance(p) PROVE StagesInv'
<1>1. CASE UNCHANGED <<Stages!children, chainCrashes>>
           /\ \E o \in Stages!Outcome \cup {"rebuild"} : o # "mismatch" /\ Stages!Ends(p, o)
  <2>1. PICK o \in Stages!Outcome \cup {"rebuild"} : o # "mismatch" /\ Stages!Ends(p, o)
    BY <1>1
  <2>2. ProcessesOK' /\ StagesAlone(p) /\ chainPc'[p] = o
    BY <2>1, StagesEndsTyped, StagesTypesAre DEF StagesInv
  <2>3. o \notin {"create", "fill", "advance"}  BY DEF Stages!Outcome
  <2>4. ProcessHolds(p)'  BY <2>1, <2>2, <2>3 DEF ProcessHolds
  <2>5. chainPc[p] # "fill"  BY DEF Stages!Advance
  <2>. QED  BY <1>1, <2>2, <2>4, <2>5, QuietStep
<1>. QED  BY <1>1, AdvanceIs, RunsKeeps

LEMMA ReviewIs ==
  ASSUME StagesInv, NEW s \in Stages!Stage, Stages!Review(s)
  PROVE  /\ made[s] = "whole" /\ AllComplete(s - 1)
         /\ ~ failed[s] /\ Len(applied[s]) < K /\ Runs(s)
         /\ applied' \in [Stages!Stage -> Seq(Stages!Written)]
            /\ pending' \in [Stages!Stage -> BOOLEAN]
         /\ failed' \in [Stages!Stage -> BOOLEAN]
         /\ UNCHANGED <<made, source, chainCrashes, chainPc, chainAt, chainSeen>>
<1>1. /\ applied \in [Stages!Stage -> Seq(Stages!Written)]
         /\ pending \in [Stages!Stage -> BOOLEAN]
      /\ failed \in [Stages!Stage -> BOOLEAN]
  BY DEF StagesInv, Stages!TypeOK
<1>2. pending[s] /\ made[s] = "whole" /\ AllComplete(s - 1) /\ ~ failed[s]
      /\ Len(applied[s]) < K
  BY DEF Stages!Review, StagesInv, StageHolds, Stages!TypeOK
<1>3. pending' = [pending EXCEPT ![s] = FALSE]
      /\ UNCHANGED <<made, source, chainCrashes, chainPc, chainAt, chainSeen>>
  BY DEF Stages!Review
<1>4. CASE failed' = [failed EXCEPT ![s] = TRUE] /\ UNCHANGED applied
  BY <1>1, <1>2, <1>3, <1>4 DEF Runs
<1>5. CASE UNCHANGED failed
           /\ \E write \in Stages!Written : applied' = [applied EXCEPT ![s] = Append(@, write)]
  <2>1. PICK write \in Stages!Written : applied' = [applied EXCEPT ![s] = Append(@, write)]
    BY <1>5
  <2>2. Append(applied[s], write) \in Seq(Stages!Written)  BY <1>1
  <2>3. applied' \in [Stages!Stage -> Seq(Stages!Written)]
        /\ applied'[s] = Append(applied[s], write)
        /\ \A r \in Stages!Stage \ {s} : applied'[r] = applied[r]
    BY <1>1, <2>1, <2>2
  <2>4. pending'[s] = FALSE /\ \A r \in Stages!Stage \ {s} : pending'[r] = pending[r]
    BY <1>1, <1>3
  <2>. QED  BY <1>1, <1>2, <1>3, <1>5, <2>3, <2>4 DEF Runs
<1>. QED  BY <1>4, <1>5 DEF Stages!Review

LEMMA StagesKeep == StagesInv /\ [Stages!Next]_(Stages!vars) => StagesInv'
<1>. SUFFICES ASSUME StagesInv, [Stages!Next]_(Stages!vars) PROVE StagesInv'  OBVIOUS
<1>1. CASE Stages!Next
  BY <1>1, StagesStartKeeps, RebuildKeeps, CreateKeeps, FillKeeps, AdvanceKeeps,
     StagesCrashKeeps, ReviewIs, RunsKeeps DEF Stages!Next, Stages!Work
<1>2. CASE UNCHANGED Stages!vars
  <2>1. Stages!TypeOK'  BY <1>2 DEF StagesInv, Stages!TypeOK, Stages!vars, Stages!children
  <2>2. Goon  BY <1>2 DEF Goon, Stages!vars, Stages!children, Stages!IsComplete
  <2>3. \A s \in Stages!Stage : StageHolds(s)'
    BY <1>2, <2>1, <2>2, StageStays DEF Stages!vars, Stages!children
  <2>4. \A q \in Proc : ProcessHolds(q)'
    BY <1>2, <2>1, <2>2, ProcessStays DEF Stages!vars, SameProcess
  <2>5. Stages!OnlyStopsSpoil'
    BY <1>2 DEF StagesInv, Stages!OnlyStopsSpoil, Stages!Spoiled, Stages!IsFilling,
       Stages!vars, Stages!children
  <2>. QED  BY <2>1, <2>3, <2>4, <2>5 DEF StagesInv
<1>. QED  BY <1>1, <1>2

LEMMA StagesSay == StagesInv => Stages!TypeOK /\ Stages!ChainHolds /\ Stages!OnlyStopsSpoil
BY DEF StagesInv, StageHolds, ProcessHolds, Stages!ChainHolds, AllComplete

-----------------------------------------------------------------------------
LaterEmpty(s) == \A r \in s + 1 .. S : applied[r] = <<>> /\ ~ pending[r] /\ ~ failed[r]

SomePending == \E r \in Stages!Stage : pending[r]
SomeFailed == \E r \in Stages!Stage : failed[r]

(* While a stage runs it is the whole that runs.                           *)
WholeIs(s) ==
    /\ AllComplete(s - 1) /\ LaterEmpty(s)
    /\ SomePending = pending[s] /\ SomeFailed = failed[s]
    /\ Stages!After(S) = Stages!After(s - 1) \o applied[s]
    /\ Stages!After(s - 1) \in Seq(Stages!Written) /\ Len(Stages!After(s - 1)) = (s - 1) * K

LEMMA OpenIsLast ==
  ASSUME StagesInv, NEW s \in Stages!Stage, ~ Stages!IsComplete(s)
  PROVE  LaterEmpty(s)
<1>. SUFFICES ASSUME NEW r \in s + 1 .. S
              PROVE applied[r] = <<>> /\ ~ pending[r] /\ ~ failed[r]
  BY DEF LaterEmpty
<1>1. r \in Stages!Stage /\ s \in 1 .. r - 1  BY SizeAssumption DEF Stages!Stage
<1>2. made[r] = "absent"  BY <1>1 DEF StagesInv, StageHolds, AllComplete
<1>. QED  BY <1>1, <1>2 DEF StagesInv, Stages!TypeOK

Runnable == \A s \in Stages!Stage : AllComplete(s - 1) /\ LaterEmpty(s) => WholeIs(s)

LEMMA WholeSays == StagesInv => Runnable
<1>. SUFFICES ASSUME StagesInv, NEW s \in Stages!Stage, AllComplete(s - 1), LaterEmpty(s)
              PROVE WholeIs(s)
  BY DEF Runnable
<1>1. Stages!TypeOK  BY DEF StagesInv
<1>2. s \in Nat /\ s \in 0 .. S /\ s - 1 \in 0 .. S /\ S \in Nat /\ K \in Nat
  BY SizeAssumption DEF Stages!Stage
<1>3. ASSUME NEW r \in Stages!Stage, r # s PROVE ~ pending[r] /\ ~ failed[r]
  <2>1. r \in 1 .. s - 1 \/ r \in s + 1 .. S  BY <1>2, <1>3 DEF Stages!Stage
  <2>2. CASE r \in 1 .. s - 1
    <3>1. Len(applied[r]) = K  BY <2>2 DEF AllComplete, Stages!IsComplete
    <3>2. ~ (K < K)  BY <1>2
    <3>3. ~ pending[r] /\ ~ failed[r]  BY <3>1, <3>2 DEF StagesInv, StageHolds
    <3>. QED  BY <3>3
  <2>3. CASE r \in s + 1 .. S  BY <2>3 DEF LaterEmpty
  <2>. QED  BY <2>1, <2>2, <2>3
<1>4. pending[s] \in BOOLEAN /\ failed[s] \in BOOLEAN  BY <1>1 DEF Stages!TypeOK
<1>5. SomePending = pending[s] /\ SomeFailed = failed[s]
  BY <1>3, <1>4 DEF SomePending, SomeFailed
<1>6. Stages!After(S) = Stages!After(s)  BY <1>1, <1>2, AfterRest DEF LaterEmpty
<1>7. Stages!After(s) = Stages!After(s - 1) \o applied[s]  BY <1>1, AfterNext
<1>8. Stages!After(s - 1) \in Seq(Stages!Written) /\ Len(Stages!After(s - 1)) = (s - 1) * K
  BY <1>1, <1>2, AfterTyped, AfterLen
<1>. QED  BY <1>5, <1>6, <1>7, <1>8 DEF WholeIs

LEMMA AppendLast ==
  ASSUME NEW T, NEW b \in Seq(T), NEW a \in Seq(T)
  PROVE  /\ Len(b \o a) = Len(b) + Len(a)
         /\ \A w \in T : b \o Append(a, w) = Append(b \o a, w)
<1>1. Len(b \o a) = Len(b) + Len(a)  BY ConcatProperties
<1>2. ASSUME NEW w \in T PROVE b \o Append(a, w) = Append(b \o a, w)
  BY <1>2
<1>. QED  BY <1>1, <1>2

LEMMA NumberFits ==
  ASSUME NEW s \in Stages!Stage, NEW l \in Nat, l < K
  PROVE  (s - 1) * K + l < S * K
<1>1. s \in Nat /\ S \in Nat /\ K \in Nat /\ s <= S  BY SizeAssumption DEF Stages!Stage
<1>2. (s - 1) * K + K = s * K  BY <1>1
<1>3. s * K <= S * K
  <2>1. PICK d \in Nat : S = s + d
    <3>1. S - s \in Nat /\ S = s + (S - s)  BY <1>1
    <3>. QED  BY <3>1
  <2>2. S * K = s * K + d * K  BY <1>1, <2>1
  <2>3. d * K \in Nat /\ s * K \in Nat  BY <1>1, <2>1
  <2>. QED  BY <2>2, <2>3
<1>4. (s - 1) * K \in Int /\ s * K \in Int /\ S * K \in Int  BY <1>1
<1>. HIDE DEF Stages!Stage
<1>. QED  BY <1>1, <1>2, <1>3, <1>4

(* A step of the run of a stage is one of the whole run.                   *)
LEMMA RunsMaps ==
  ASSUME StagesInv, StagesInv', NEW s \in Stages!Stage, made[s] = "whole",
         AllComplete(s - 1),
         ~ failed[s], Len(applied[s]) < K, Runs(s), UNCHANGED made
  PROVE  Stages!Whole!Next
<1>1. Stages!TypeOK /\ Stages!TypeOK'  BY DEF StagesInv
<1>2. /\ applied[s] \in Seq(Stages!Written) /\ applied'[s] \in Seq(Stages!Written)
         /\ Len(applied[s]) \in Nat
      /\ s - 1 \in 0 .. S /\ s \in Nat /\ S \in Nat /\ K \in Nat
  BY <1>1, SizeAssumption DEF Stages!TypeOK, Stages!Stage
<1>3. LaterEmpty(s)
  <2>1. ~ Stages!IsComplete(s)  BY <1>2 DEF Stages!IsComplete
  <2>. QED  BY <2>1, OpenIsLast
<1>4. LaterEmpty(s)'
  <2>1. \A r \in s + 1 .. S : r \in Stages!Stage \ {s}  BY <1>2 DEF Stages!Stage
  <2>. QED  BY <1>3, <2>1 DEF LaterEmpty, Runs
<1>5. AllComplete(s - 1)'
  <2>1. \A r \in 1 .. s - 1 : r \in Stages!Stage \ {s}  BY <1>2 DEF Stages!Stage
  <2>. QED  BY <2>1 DEF AllComplete, Stages!IsComplete, Runs
<1>6. WholeIs(s)  BY <1>3, WholeSays DEF Runnable
<1>7. WholeIs(s)'
  <2>1. Runnable'  BY WholeSays, PTL
  <2>. QED  BY <1>4, <1>5, <2>1 DEF Runnable
<1>8. Stages!After(s - 1)' = Stages!After(s - 1)
  <2>1. \A r \in 1 .. s - 1 : r \in Stages!Stage \ {s}  BY <1>2 DEF Stages!Stage
  <2>2. \A r \in 1 .. s - 1 : applied'[r] = applied[r]  BY <2>1 DEF Runs
  <2>. QED  BY <1>1, <1>2, <2>2, AfterStays
<1>. DEFINE base == Stages!After(s - 1)
<1>9. /\ base \in Seq(Stages!Written) /\ Len(base) = (s - 1) * K
      /\ Stages!After(S) = base \o applied[s] /\ Stages!After(S)' = base \o applied'[s]
      /\ SomePending = pending[s] /\ SomeFailed = failed[s]
      /\ SomePending' = pending'[s] /\ SomeFailed' = failed'[s]
  BY <1>6, <1>7, <1>8 DEF WholeIs
<1>. HIDE DEF base
<1>10. Len(Stages!After(S)) = (s - 1) * K + Len(applied[s])
  <2>1. Len(base \o applied[s]) = Len(base) + Len(applied[s])  BY <1>2, <1>9, AppendLast
  <2>. QED  BY <1>9, <2>1
<1>11. Len(Stages!After(S)) < S * K  BY <1>2, <1>10, NumberFits
<1>12. Len(Stages!After(S)) + 1 = Stages!Number(s, Len(applied[s]) + 1)
  <2>. DEFINE m == (s - 1) * K
  <2>1. m \in Int  BY <1>2
  <2>2. Stages!Number(s, Len(applied[s]) + 1) = m + (Len(applied[s]) + 1)
    BY DEF Stages!Number
  <2>3. Len(Stages!After(S)) = m + Len(applied[s])  BY <1>10
  <2>. HIDE DEF m
  <2>. QED  BY <1>2, <2>1, <2>2, <2>3
<1>13. Stages!Whole!Open  BY <1>9, <1>11 DEF Stages!Whole!Open, SomeFailed
<1>14. CASE /\ applied'[s] = applied[s] /\ failed'[s] = failed[s]
            /\ ~ pending[s] /\ pending'[s] = TRUE
               /\ Stages!Number(s, Len(applied[s]) + 1) \in StageReviewed
  <2>1. UNCHANGED <<Stages!After(S), SomeFailed>> /\ ~ SomePending /\ SomePending'
    BY <1>9, <1>14
  <2>2. Stages!Whole!Propose
    BY <1>12, <1>13, <1>14, <2>1 DEF Stages!Whole!Propose, SomePending, SomeFailed
  <2>. QED  BY <2>2 DEF Stages!Whole!Next
<1>15. CASE /\ pending'[s] = FALSE
            /\ ~ pending[s] => Stages!Number(s, Len(applied[s]) + 1) \notin StageReviewed
            /\ \/ applied'[s] = applied[s] /\ failed'[s] = TRUE
               \/ failed'[s] = failed[s]
                  /\ \E w \in Stages!Written : applied'[s] = Append(applied[s], w)
  <2>1. ~ SomePending'  BY <1>9, <1>15
  <2>2. Stages!Whole!Apply \/ Stages!Whole!Fail
    <3>1. CASE applied'[s] = applied[s] /\ failed'[s] = TRUE
      <4>1. Stages!After(S)' = Stages!After(S) /\ SomeFailed'  BY <1>9, <3>1
      <4>. QED  BY <4>1 DEF Stages!Whole!Fail, SomeFailed
    <3>2. CASE failed'[s] = failed[s]
               /\ \E w \in Stages!Written : applied'[s] = Append(applied[s], w)
      <4>1. PICK w \in Stages!Written : applied'[s] = Append(applied[s], w)  BY <3>2
      <4>2. base \o Append(applied[s], w) = Append(base \o applied[s], w)
        <5>1. base \in Seq(Stages!Written) /\ applied[s] \in Seq(Stages!Written)
          BY <1>2, <1>9
        <5>2. \A v \in Stages!Written : base \o Append(applied[s], v) = Append(base \o applied[s], v)
          BY <5>1, AppendLast
        <5>. QED  BY <5>2
      <4>3. Stages!After(S)' = Append(Stages!After(S), w) /\ SomeFailed' = SomeFailed
        BY <1>9, <3>2, <4>1, <4>2
      <4>4. w \in Stages!Whole!Written  BY <4>1 DEF Stages!Whole!Written, Stages!Written
      <4>. QED  BY <4>3, <4>4 DEF Stages!Whole!Apply, SomeFailed
    <3>. QED  BY <1>15, <3>1, <3>2
  <2>3. CASE SomePending
    <3>1. Stages!Whole!Decide  BY <2>1, <2>2, <2>3 DEF Stages!Whole!Decide, SomePending
    <3>. QED  BY <3>1 DEF Stages!Whole!Next
  <2>4. CASE ~ SomePending
    <3>1. Stages!Number(s, Len(applied[s]) + 1) \notin StageReviewed  BY <1>9, <1>15, <2>4
    <3>2. Stages!Whole!Run
      BY <1>12, <1>13, <2>1, <2>2, <2>4, <3>1 DEF Stages!Whole!Run, SomePending
    <3>. QED  BY <3>2 DEF Stages!Whole!Next
  <2>. QED  BY <2>3, <2>4
<1>. QED  BY <1>14, <1>15 DEF Runs

LEMMA WholeInit == Stages!Init => Stages!Whole!Init
<1>. SUFFICES ASSUME Stages!Init PROVE Stages!Whole!Init  OBVIOUS
<1>1. Stages!TypeOK  BY StagesInitHolds DEF StagesInv
<1>2. 0 \in 0 .. S /\ \A r \in 0 + 1 .. S : applied[r] = <<>>
  BY SizeAssumption DEF Stages!Init, Stages!Stage
<1>3. Stages!After(S) = <<>>  BY <1>1, <1>2, AfterRest, AfterZero
<1>. QED  BY <1>3 DEF Stages!Init, Stages!Whole!Init

(* Every other step leaves the whole as it is.                             *)
LEMMA WholeStutters ==
  ASSUME UNCHANGED <<applied, pending, failed>>
  PROVE  UNCHANGED Stages!Whole!vars
<1>1. Stages!After(S)' = Stages!After(S)  BY DEF Stages!After
<1>. QED  BY <1>1 DEF Stages!Whole!vars

LEMMA WholeStep ==
  StagesInv /\ StagesInv' /\ [Stages!Next]_(Stages!vars)
    => [Stages!Whole!Next]_(Stages!Whole!vars)
<1>. SUFFICES ASSUME StagesInv, StagesInv', [Stages!Next]_(Stages!vars)
              PROVE [Stages!Whole!Next]_(Stages!Whole!vars)
  OBVIOUS
<1>1. ASSUME NEW p \in Proc,
             \/ Stages!Start(p) \/ Stages!Rebuild(p) \/ Stages!Create(p)
             \/ Stages!Fill(p) \/ Stages!Crash(p)
      PROVE  UNCHANGED <<applied, pending, failed>>
  BY <1>1 DEF Stages!Start, Stages!Rebuild, Stages!Create, Stages!Fill, Stages!Crash,
     Stages!children
<1>2. ASSUME NEW p \in Proc, Stages!Advance(p) PROVE [Stages!Whole!Next]_(Stages!Whole!vars)
  <2>1. CASE UNCHANGED <<Stages!children, chainCrashes>>  BY <2>1, WholeStutters
                                                             DEF Stages!children
  <2>. QED  BY <1>2, <2>1, AdvanceIs, RunsMaps
<1>3. ASSUME NEW s \in Stages!Stage, Stages!Review(s) PROVE Stages!Whole!Next
  BY <1>3, ReviewIs, RunsMaps
<1>4. UNCHANGED Stages!vars => UNCHANGED <<applied, pending, failed>>
  BY DEF Stages!vars, Stages!children
<1>. QED  BY <1>1, <1>2, <1>3, <1>4, WholeStutters DEF Stages!Next, Stages!Work

-----------------------------------------------------------------------------
(* The workspace.  It stays explained while diffs of any authors are built,*)
(* rejected and applied; the loop of apply_checked_diff is followed round  *)
(* by round.                                                               *)

(* The read hashes of a diff are those of the workspace it was built on,   *)
(* where everything it reads was settled.                                  *)
ReadsOfBase(d) ==
    /\ d.writes \in Operation
    /\ d.patch \in [d.writes -> Val]
    /\ d.reads = [k \in d.writes |-> {<<r, d.base[2].value[r]>> : r \in Reads[k]}]
    /\ \A r \in Needs[d.writes] : d.base[2].value[r] # Missing

BuiltDiffs == \A a \in Author : built[a] # None => ReadsOfBase(built[a])

(* The key is written, or written later than one that is.                  *)
Downstream(k, op) == \E w \in op : Position[w] <= Position[k]

(* What the loop has done to the values and sources that are not written.  *)
LoopHolds(d) ==
    /\ \A k \in d.writes : music[k] \in Val
    /\ \A k \in Key \ d.writes :
          /\ \/ music[k] = workspace.value[k] /\ provenance[k] = workspace.source[k]
             \/ music[k] = Missing /\ provenance[k] = {} /\ Downstream(k, d.writes)
          /\ \A r \in provenance[k] :
                \/ r[1] = k
                \/ music[r[1]] = r[2] /\ r[2] # Missing
                \/ r \in stale
          /\ \A r \in provenance[k] : r \notin handled
    /\ \A c \in stale \cup handled : c[1] \in Key /\ Downstream(c[1], d.writes)

LoopInv ==
    applying # None =>
        /\ applying \in Author
        /\ built[applying] # None
        /\ built[applying].base[2] = workspace
        /\ LoopHolds(built[applying])

WrittenShapes ==
    /\ workspace \in Diffs!Workspace
    /\ DOMAIN built = Author
    /\ music \in [Key -> Diffs!Value]
    /\ provenance \in [Key -> SUBSET Diffs!ReadHash]

WrittenInv ==
    /\ WrittenShapes
    /\ BuiltDiffs
    /\ Diffs!Current(workspace) /\ Diffs!Explained(workspace)
    /\ LoopInv

LEMMA WrittenAtFirst == Diffs!Init => WrittenInv
  <1>1. SUFFICES ASSUME Diffs!Init PROVE WrittenInv
    OBVIOUS
  <1>2. workspace \in Diffs!Workspace /\ Diffs!Current(workspace) /\ Diffs!Explained(workspace)
    BY <1>1, InitialAssumption DEF Diffs!Init
  <1>3. WrittenShapes
    BY <1>1, <1>2 DEF Diffs!Init, WrittenShapes, Diffs!Workspace
  <1>4. BuiltDiffs /\ LoopInv
    BY <1>1 DEF Diffs!Init, BuiltDiffs, LoopInv
  <1>5. QED BY <1>2, <1>3, <1>4 DEF WrittenInv

(* The reads of a diff hold earlier stages than everything it writes.      *)
LEMMA ReadsAreUpstream ==
    ASSUME NEW op \in Operation, NEW k \in op, NEW r \in Reads[k], r # k
    PROVE  r \in Key /\ r \notin op /\ ~ Downstream(r, op) /\ r \in Needs[op]
  <1>1. k \in Key /\ op \subseteq Key
    BY WritesAssumption
  <1>2. r \in Key
    BY <1>1, ReadsAssumption
  <1>3. \A j \in op : Position[r] < Position[j] /\ Position[r] \in Nat /\ Position[j] \in Nat
    BY <1>1, <1>2, PositionAssumption
  <1>4. r \notin op /\ ~ Downstream(r, op)
    BY <1>3 DEF Downstream
  <1>5. r \in Needs[op]
    BY <1>1, WritesAssumption
  <1>6. QED BY <1>2, <1>4, <1>5

LEMMA BuildWrites ==
    ASSUME WrittenInv, NEW a \in Author, Diffs!Build(a)
    PROVE  WrittenInv'
  <1>1. PICK op \in Operation : \E new \in [op -> Val] :
            /\ Diffs!Settled(op)
            /\ built' = [built EXCEPT ![a] =
                    [base |-> <<revision, workspace>>, writes |-> op, patch |-> new,
                     reads |-> [k \in op |-> {Diffs!HashOf(r) : r \in Reads[k]}]]]
    BY DEF Diffs!Build
  <1>2. UNCHANGED <<workspace, revision, applying, music, provenance, stale, handled>>
    BY DEF Diffs!Build
  <1>3. WrittenShapes'
    BY <1>1, <1>2 DEF WrittenInv, WrittenShapes
  <1>4. Diffs!Current(workspace)' /\ Diffs!Explained(workspace)'
    BY <1>2 DEF WrittenInv, Diffs!Current, Diffs!Explained
  <1>5. ReadsOfBase(built'[a])
    BY <1>1 DEF WrittenInv, WrittenShapes, ReadsOfBase, Diffs!HashOf, Diffs!Settled
  <1>6. BuiltDiffs'
    BY <1>1, <1>5 DEF WrittenInv, WrittenShapes, BuiltDiffs
  <1>7. LoopInv'
    <2>1. SUFFICES ASSUME applying # None PROVE LoopInv'
      BY <1>2 DEF LoopInv
    <2>2. applying \in Author /\ applying # a
      BY <2>1 DEF WrittenInv, LoopInv, Diffs!Build
    <2>3. built'[applying] = built[applying]
      BY <1>1, <2>2 DEF WrittenInv, WrittenShapes
    <2>4. QED
      BY <1>2, <2>1, <2>3 DEF WrittenInv, LoopInv, LoopHolds
  <1>8. QED BY <1>3, <1>4, <1>6, <1>7 DEF WrittenInv

LEMMA RejectWrites ==
    ASSUME WrittenInv, NEW a \in Author, Diffs!Reject(a)
    PROVE  WrittenInv'
  BY DEF WrittenInv, Diffs!Reject, WrittenShapes, BuiltDiffs, LoopInv, Diffs!Current, Diffs!Explained

(* What a diff overwrites is followed.                                     *)
LEMMA StartWrites ==
    ASSUME WrittenInv, NEW a \in Author, Diffs!Start(a)
    PROVE  WrittenInv'
  <1> DEFINE d == built[a]
  <1>1. /\ applying' = a /\ d # None /\ d.base = <<revision, workspace>>
        /\ music' = Diffs!Patched(d) /\ provenance' = workspace.source
        /\ stale' = Diffs!Changed(workspace.value, Diffs!Patched(d)) /\ handled' = {}
        /\ UNCHANGED <<workspace, revision, built>>
    BY DEF Diffs!Start, Diffs!Fits
  <1>2. ReadsOfBase(d) /\ d.writes \subseteq Key
    BY <1>1, WritesAssumption DEF WrittenInv, BuiltDiffs, ReadsOfBase
  <1>3. workspace.value \in [Key -> Diffs!Value] /\ workspace.source \in [Key -> SUBSET Diffs!ReadHash]
    BY DEF WrittenInv, WrittenShapes, Diffs!Workspace
  <1>4. WrittenShapes'
    BY <1>1, <1>2, <1>3 DEF WrittenInv, WrittenShapes, Diffs!Patched, Diffs!Value, ReadsOfBase
  <1>5. BuiltDiffs' /\ Diffs!Current(workspace)' /\ Diffs!Explained(workspace)'
    BY <1>1 DEF WrittenInv, BuiltDiffs, Diffs!Current, Diffs!Explained
  <1>6. \A k \in d.writes : music'[k] \in Val
    BY <1>1, <1>2 DEF Diffs!Patched, ReadsOfBase
  <1>7. \A k \in Key \ d.writes : music'[k] = workspace.value[k]
                                  /\ provenance'[k] = workspace.source[k]
    BY <1>1 DEF Diffs!Patched
  <1>8. ASSUME NEW k \in Key \ d.writes, NEW r \in provenance'[k]
        PROVE  r[1] = k \/ (music'[r[1]] = r[2] /\ r[2] # Missing) \/ r \in stale'
    <2>1. r \in Diffs!ReadHash /\ r = <<r[1], r[2]>> /\ r[1] \in Key
      BY <1>1, <1>3, <1>8 DEF Diffs!ReadHash
    <2>2. r[1] = k \/ (workspace.value[r[1]] = r[2] /\ r[2] # Missing)
      BY <1>7, <1>8 DEF WrittenInv, Diffs!Current
    <2>3. CASE music'[r[1]] = workspace.value[r[1]]
      BY <2>2, <2>3
    <2>4. CASE music'[r[1]] # workspace.value[r[1]] /\ r[1] # k
      <3>1. workspace.value[r[1]] # Missing /\ workspace.value[r[1]] # Diffs!Patched(d)[r[1]]
        BY <1>1, <2>2, <2>4
      <3>2. <<r[1], workspace.value[r[1]]>> \in stale'
        BY <1>1, <2>1, <3>1 DEF Diffs!Changed
      <3>3. QED BY <2>1, <2>2, <2>4, <3>2
    <2>5. QED BY <2>3, <2>4
  <1>9. ASSUME NEW c \in stale' \cup handled'
        PROVE  c[1] \in Key /\ Downstream(c[1], d.writes)
    <2>1. PICK k \in Key : c = <<k, workspace.value[k]>> /\ workspace.value[k] # Diffs!Patched(d)[k]
      BY <1>1 DEF Diffs!Changed
    <2>2. k \in d.writes
      BY <2>1, <1>3 DEF Diffs!Patched
    <2>3. QED BY <2>1, <2>2, PositionAssumption DEF Downstream
  <1>10. LoopHolds(d)'
    BY <1>1, <1>6, <1>7, <1>8, <1>9 DEF LoopHolds
  <1>11. LoopInv'
    BY <1>1, <1>10 DEF LoopInv
  <1>12. QED BY <1>4, <1>5, <1>11 DEF WrittenInv

(* A round of the loop removes what was made from what is gone, and leaves *)
(* it to a later round to remove what was made from that.                  *)
LEMMA InvalidateWrites ==
    ASSUME WrittenInv, NEW c \in stale, Diffs!Invalidate(c)
    PROVE  WrittenInv'
  <1> DEFINE d == built[applying]
             gone == IF c \in handled THEN {} ELSE Diffs!MadeFrom(c)
  <1>1. /\ applying # None /\ handled' = handled \cup {c}
        /\ music' = [k \in Key |-> IF k \in gone THEN Missing ELSE music[k]]
        /\ provenance' = [k \in Key |-> IF k \in gone THEN {} ELSE provenance[k]]
        /\ stale' = (stale \ {c})
                        \cup {<<k, music[k]>> : k \in {j \in gone : music[j] # Missing}}
        /\ UNCHANGED <<workspace, revision, built, applying>>
    BY DEF Diffs!Invalidate
  <1>2. LoopHolds(d) /\ applying \in Author /\ d # None /\ ReadsOfBase(d)
    BY <1>1 DEF WrittenInv, LoopInv, BuiltDiffs
  <1>3. gone \subseteq Key \ d.writes
    BY DEF Diffs!MadeFrom
  <1>4. WrittenShapes'
    BY <1>1 DEF WrittenInv, WrittenShapes, Diffs!Value
  <1>5. BuiltDiffs' /\ Diffs!Current(workspace)' /\ Diffs!Explained(workspace)'
    BY <1>1 DEF WrittenInv, BuiltDiffs, Diffs!Current, Diffs!Explained
  <1>6. \A k \in d.writes : music'[k] \in Val
    <2>1. \A k \in d.writes : k \in Key
      BY <1>2, WritesAssumption DEF ReadsOfBase
    <2>2. QED BY <1>1, <1>2, <1>3, <2>1 DEF LoopHolds
  <1>7. ASSUME NEW k \in gone
        PROVE  Downstream(k, d.writes)
    <2>1. k \in Key \ d.writes /\ c \in provenance[k]
      BY <1>7 DEF Diffs!MadeFrom
    <2>2. provenance[k] # {} /\ provenance[k] = workspace.source[k]
      BY <1>2, <2>1 DEF LoopHolds
    <2>3. workspace.source[k] \subseteq Diffs!ReadHash
      BY <2>1 DEF WrittenInv, WrittenShapes, Diffs!Workspace
    <2>4. workspace.value[k] # Missing
      BY <2>1, <2>2 DEF WrittenInv, Diffs!Explained
    <2>5. c[1] \in Reads[k]
      BY <2>1, <2>2, <2>4 DEF WrittenInv, Diffs!Explained
    <2>6. c[1] \in Key /\ Downstream(c[1], d.writes)
      BY <1>2 DEF LoopHolds
    <2>7. PICK w \in d.writes : Position[w] <= Position[c[1]]
      BY <2>6 DEF Downstream
    <2>8. w \in Key
      BY <1>2, WritesAssumption DEF ReadsOfBase
    <2>9. Position[c[1]] <= Position[k] /\ Position[w] \in Nat /\ Position[c[1]] \in Nat /\ Position[k] \in Nat
      BY <2>1, <2>5, <2>6, <2>8, PositionAssumption
    <2>10. Position[w] <= Position[k]
      BY <2>7, <2>9
    <2>11. QED BY <2>10 DEF Downstream
  <1>8. ASSUME NEW k \in Key \ d.writes
        PROVE  \/ music'[k] = workspace.value[k] /\ provenance'[k] = workspace.source[k]
               \/ music'[k] = Missing /\ provenance'[k] = {} /\ Downstream(k, d.writes)
    <2>1. CASE k \in gone
      BY <1>1, <1>7, <2>1
    <2>2. CASE k \notin gone
      BY <1>1, <1>2, <2>2 DEF LoopHolds
    <2>3. QED BY <2>1, <2>2
  <1>9. ASSUME NEW k \in Key \ d.writes, NEW r \in provenance'[k]
        PROVE  /\ r[1] = k \/ (music'[r[1]] = r[2] /\ r[2] # Missing) \/ r \in stale'
               /\ r \notin handled'
    <2>1. k \notin gone /\ r \in provenance[k]
      BY <1>1, <1>9
    <2>2. r # c
      BY <1>2, <2>1 DEF LoopHolds, Diffs!MadeFrom
    <2>3. r \notin handled'
      BY <1>1, <1>2, <2>1, <2>2 DEF LoopHolds
    <2>4. r[1] = k \/ (music[r[1]] = r[2] /\ r[2] # Missing) \/ r \in stale
      BY <1>2, <2>1 DEF LoopHolds
    <2>5. r = <<r[1], r[2]>> /\ r[1] \in Key
      BY <2>1 DEF WrittenInv, WrittenShapes, Diffs!ReadHash
    <2>6. CASE r \in stale
      BY <1>1, <2>2, <2>3, <2>6
    <2>7. CASE music[r[1]] = r[2] /\ r[2] # Missing /\ r[1] \in gone
      <3>1. <<r[1], music[r[1]]>> \in stale'
        BY <1>1, <2>7
      <3>2. QED BY <2>3, <2>5, <2>7, <3>1
    <2>8. CASE music[r[1]] = r[2] /\ r[2] # Missing /\ r[1] \notin gone
      BY <1>1, <2>3, <2>5, <2>8
    <2>9. QED BY <2>3, <2>4, <2>6, <2>7, <2>8
  <1>10. ASSUME NEW e \in stale' \cup handled'
         PROVE  e[1] \in Key /\ Downstream(e[1], d.writes)
    <2>1. CASE e \in stale \cup handled
      BY <1>2, <2>1 DEF LoopHolds
    <2>2. CASE e \notin stale \cup handled
      <3>1. PICK k \in gone : e = <<k, music[k]>>
        BY <1>1, <2>2
      <3>2. QED BY <1>3, <1>7, <3>1
    <2>3. QED BY <2>1, <2>2
  <1>11. LoopHolds(d)'
    BY <1>1, <1>6, <1>8, <1>9, <1>10 DEF LoopHolds
  <1>12. LoopInv'
    BY <1>1, <1>2, <1>11 DEF WrittenInv, LoopInv
  <1>13. QED BY <1>4, <1>5, <1>12 DEF WrittenInv

(* With nothing left to follow, all sources say what is there.             *)
LEMMA FinishWrites ==
    ASSUME WrittenInv, Diffs!Finish
    PROVE  WrittenInv'
  <1> DEFINE d == built[applying]
             sources == [k \in Key |-> IF k \in d.writes THEN d.reads[k] ELSE provenance[k]]
  <1>1. /\ applying # None /\ stale = {}
        /\ workspace' = [value |-> music, source |-> sources]
        /\ provenance' = sources /\ music' = music
        /\ built' = [built EXCEPT ![applying] = None] /\ applying' = None
    BY DEF Diffs!Finish
  <1>2. /\ LoopHolds(d) /\ applying \in Author /\ d # None /\ ReadsOfBase(d)
        /\ d.base[2] = workspace
    BY <1>1 DEF WrittenInv, LoopInv, BuiltDiffs
  <1>3. d.writes \in Operation /\ d.writes \subseteq Key
    BY <1>2, WritesAssumption DEF ReadsOfBase
  <1>4. /\ workspace.value \in [Key -> Diffs!Value] /\ workspace.source \in [Key -> SUBSET Diffs!ReadHash]
        /\ music \in [Key -> Diffs!Value] /\ provenance \in [Key -> SUBSET Diffs!ReadHash]
    BY DEF WrittenInv, WrittenShapes, Diffs!Workspace
  <1>5. \A k \in d.writes :
            d.reads[k] = {<<r, workspace.value[r]>> : r \in Reads[k]} /\ Reads[k] \subseteq Key
    BY <1>2, <1>3, ReadsAssumption DEF ReadsOfBase
  <1>6. sources \in [Key -> SUBSET Diffs!ReadHash]
    BY <1>3, <1>4, <1>5 DEF Diffs!ReadHash
  <1>7. WrittenShapes'
    BY <1>1, <1>4, <1>6 DEF WrittenInv, WrittenShapes, Diffs!Workspace
  <1>8. BuiltDiffs'
    BY <1>1 DEF WrittenInv, WrittenShapes, BuiltDiffs
  <1>9. ASSUME NEW k \in Key, NEW r \in sources[k]
        PROVE  r[1] = k \/ (music[r[1]] = r[2] /\ r[2] # Missing)
    <2>1. CASE k \notin d.writes
      BY <1>1, <1>2, <1>9, <2>1 DEF LoopHolds
    <2>2. CASE k \in d.writes
      <3>1. PICK q \in Reads[k] : r = <<q, workspace.value[q]>>
        BY <1>5, <1>9, <2>2
      <3>2. CASE q = k
        BY <3>1, <3>2
      <3>3. CASE q # k
        <4>1. q \in Key \ d.writes /\ ~ Downstream(q, d.writes) /\ q \in Needs[d.writes]
          BY <1>3, <2>2, <3>3, ReadsAreUpstream
        <4>2. music[q] = workspace.value[q]
          BY <1>2, <4>1 DEF LoopHolds
        <4>3. workspace.value[q] # Missing
          BY <1>2, <4>1 DEF ReadsOfBase
        <4>4. QED BY <3>1, <4>2, <4>3
      <3>4. QED BY <3>2, <3>3
    <2>3. QED BY <2>1, <2>2
  <1>10. Diffs!Current(workspace)'
    BY <1>1, <1>9 DEF Diffs!Current
  <1>11. ASSUME NEW k \in Key
         PROVE  /\ (music[k] = Missing) => sources[k] = {}
                /\ (music[k] # Missing) => {r[1] : r \in sources[k]} = Reads[k]
    <2>1. CASE k \in d.writes
      <3>1. music[k] \in Val /\ sources[k] = {<<r, workspace.value[r]>> : r \in Reads[k]}
        BY <1>2, <1>5, <2>1 DEF LoopHolds
      <3>2. {r[1] : r \in sources[k]} = {<<r, workspace.value[r]>>[1] : r \in Reads[k]}
        <4> DEFINE from == {<<r, workspace.value[r]>> : r \in Reads[k]}
        <4>1. {r[1] : r \in from} = {<<r, workspace.value[r]>>[1] : r \in Reads[k]}
          OBVIOUS
        <4>2. sources[k] = from
          BY <3>1
        <4> HIDE DEF sources, from
        <4>3. QED BY <4>1, <4>2
      <3>3. {r[1] : r \in sources[k]} = Reads[k]
        BY <3>2
      <3>4. QED BY <3>1, <3>3, AuthorAssumption
    <2>2. CASE k \notin d.writes
      BY <1>2, <2>2 DEF LoopHolds, WrittenInv, Diffs!Explained
    <2>3. QED BY <2>1, <2>2
  <1>12. Diffs!Explained(workspace)'
    BY <1>1, <1>11 DEF Diffs!Explained
  <1>13. LoopInv'
    BY <1>1 DEF LoopInv
  <1>14. QED BY <1>7, <1>8, <1>10, <1>12, <1>13 DEF WrittenInv

LEMMA WrittenStays == WrittenInv /\ [Diffs!Next]_(Diffs!vars) => WrittenInv'
  <1>1. SUFFICES ASSUME WrittenInv, [Diffs!Next]_(Diffs!vars) PROVE WrittenInv'
    OBVIOUS
  <1>2. CASE \E a \in Author : Diffs!Build(a) \/ Diffs!Reject(a) \/ Diffs!Start(a)
    BY <1>1, <1>2, BuildWrites, RejectWrites, StartWrites
  <1>3. CASE \E c \in stale : Diffs!Invalidate(c)
    BY <1>1, <1>3, InvalidateWrites
  <1>4. CASE Diffs!Finish
    BY <1>1, <1>4, FinishWrites
  <1>5. CASE UNCHANGED Diffs!vars
    BY <1>1, <1>5
       DEF Diffs!vars, WrittenInv, WrittenShapes, BuiltDiffs, Diffs!Current, Diffs!Explained, LoopInv, LoopHolds
  <1>6. QED BY <1>1, <1>2, <1>3, <1>4, <1>5 DEF Diffs!Next

(* What is followed is not there any more, and a value that was removed    *)
(* had been made from one that is not.                                     *)
RemovedInv ==
    applying # None =>
        /\ \A c \in stale : c[2] # Missing /\ music[c[1]] # c[2]
        /\ \A k \in Key \ built[applying].writes :
              \/ music[k] = workspace.value[k]
              \/ /\ music[k] = Missing
                 /\ \E r \in workspace.source[k] : r[2] # Missing /\ music[r[1]] # r[2]

LEMMA RemovedNext == WrittenInv /\ RemovedInv /\ [Diffs!Next]_(Diffs!vars) => RemovedInv'
  <1> SUFFICES ASSUME WrittenInv, RemovedInv, [Diffs!Next]_(Diffs!vars) PROVE RemovedInv'
    OBVIOUS
  <1>1. CASE UNCHANGED Diffs!vars
    BY <1>1 DEF Diffs!vars, RemovedInv
  <1>2. CASE \E a \in Author : Diffs!Build(a)
    <2>1. PICK a \in Author : Diffs!Build(a)
      BY <1>2
    <2>2. UNCHANGED <<workspace, applying, music, stale>>
      BY <2>1 DEF Diffs!Build
    <2>3. applying # None => built'[applying] = built[applying]
      BY <2>1 DEF Diffs!Build, WrittenInv, LoopInv, WrittenShapes
    <2>4. QED BY <2>2, <2>3 DEF RemovedInv
  <1>3. CASE \E a \in Author : Diffs!Reject(a)
    BY <1>3 DEF Diffs!Reject, RemovedInv
  <1>4. CASE \E a \in Author : Diffs!Start(a)
    <2>1. PICK a \in Author : Diffs!Start(a)
      BY <1>4
    <2>2. /\ applying' = a /\ music' = Diffs!Patched(built[a]) /\ UNCHANGED <<workspace, built>>
          /\ stale' = Diffs!Changed(workspace.value, Diffs!Patched(built[a]))
      BY <2>1 DEF Diffs!Start
    <2>3. \A k \in Key \ built[a].writes : music'[k] = workspace.value[k]
      BY <2>2 DEF Diffs!Patched
    <2>4. \A c \in stale' : c[2] # Missing /\ music'[c[1]] # c[2]
      BY <2>2 DEF Diffs!Changed
    <2>5. QED BY <2>2, <2>3, <2>4 DEF RemovedInv
  <1>5. CASE \E c \in stale : Diffs!Invalidate(c)
    <2>1. PICK c \in stale : Diffs!Invalidate(c)
      BY <1>5
    <2> DEFINE gone == IF c \in handled THEN {} ELSE Diffs!MadeFrom(c)
    <2>2. /\ applying # None /\ UNCHANGED <<workspace, built, applying>>
          /\ music' = [k \in Key |-> IF k \in gone THEN Missing ELSE music[k]]
          /\ stale' = (stale \ {c})
                          \cup {<<k, music[k]>> : k \in {j \in gone : music[j] # Missing}}
      BY <2>1 DEF Diffs!Invalidate
    <2>3. /\ gone \subseteq Key \ built[applying].writes
          /\ \A k \in gone : c \in provenance[k]
      BY DEF Diffs!MadeFrom
    <2> HIDE DEF gone
    <2>4. LoopHolds(built[applying])
      BY <2>2 DEF WrittenInv, LoopInv
    <2>5. \A e \in stale \cup {c} : e[1] \in Key
      BY <2>4 DEF LoopHolds
    <2>6. \A k \in Key : music'[k] = music[k] \/ music'[k] = Missing
      BY <2>2
    <2>7. ASSUME NEW e \in stale' PROVE e[2] # Missing /\ music'[e[1]] # e[2]
      <3>1. CASE e \in stale
        BY <2>2, <2>5, <2>6, <3>1 DEF RemovedInv
      <3>2. CASE e \notin stale
        <4>1. PICK k \in gone : e = <<k, music[k]>> /\ music[k] # Missing
          BY <2>2, <3>2
        <4>2. music'[k] = Missing
          BY <2>2, <2>3
        <4>3. QED BY <4>1, <4>2
      <3>3. QED BY <3>1, <3>2
    <2>8. ASSUME NEW k \in Key \ built[applying].writes
          PROVE  \/ music'[k] = workspace.value[k]
                 \/ /\ music'[k] = Missing
                    /\ \E r \in workspace.source[k] : r[2] # Missing /\ music'[r[1]] # r[2]
      <3>1. CASE k \in gone
        <4>1. c \in workspace.source[k] /\ c[2] # Missing /\ music[c[1]] # c[2]
          BY <2>2, <2>3, <2>4, <3>1 DEF LoopHolds, RemovedInv
        <4>2. music'[k] = Missing /\ music'[c[1]] # c[2]
          BY <2>2, <2>5, <2>6, <3>1, <4>1
        <4>3. QED BY <4>1, <4>2
      <3>2. CASE k \notin gone
        <4>1. music'[k] = music[k]
          BY <2>2, <3>2
        <4>2. CASE music[k] = workspace.value[k]
          BY <4>1, <4>2
        <4>3. CASE music[k] # workspace.value[k]
          <5>1. music[k] = Missing
                /\ \E r \in workspace.source[k] : r[2] # Missing /\ music[r[1]] # r[2]
            BY <2>2, <4>3 DEF RemovedInv
          <5>2. \A r \in workspace.source[k] : r[1] \in Key
            BY DEF WrittenInv, WrittenShapes, Diffs!Workspace, Diffs!ReadHash
          <5>3. QED BY <2>6, <4>1, <5>1, <5>2
        <4>4. QED BY <4>2, <4>3
      <3>3. QED BY <3>1, <3>2
    <2>9. QED BY <2>2, <2>7, <2>8 DEF RemovedInv
  <1>6. CASE Diffs!Finish
    BY <1>6 DEF Diffs!Finish, RemovedInv
  <1>7. QED BY <1>1, <1>2, <1>3, <1>4, <1>5, <1>6 DEF Diffs!Next

(* What finishing a diff takes is what the loop has found.                 *)
LEMMA TakesOnly ==
    WrittenInv /\ RemovedInv /\ [Diffs!Next]_(Diffs!vars)
      => [Diffs!TakesOnlyWhatChanged]_(Diffs!vars)
  <1> SUFFICES ASSUME WrittenInv, RemovedInv, Diffs!Next,
                      NEW a \in Author, applying = a, applying' = None,
                      NEW k \in Key \ built[a].writes
               PROVE  \/ workspace'.value[k] = workspace.value[k]
                      \/ /\ workspace'.value[k] = Missing
                         /\ \E r \in workspace.source[k] : workspace'.value[r[1]] # r[2]
    BY DEF Diffs!TakesOnlyWhatChanged
  <1>1. applying # None
    BY AuthorAssumption
  <1>2. Diffs!Finish
    BY <1>1, AuthorAssumption
       DEF Diffs!Next, Diffs!Build, Diffs!Reject, Diffs!Start, Diffs!Invalidate
  <1>3. workspace'.value = music
    BY <1>2 DEF Diffs!Finish
  <1>4. QED BY <1>1, <1>3 DEF RemovedInv

-----------------------------------------------------------------------------
(* The schedule.  The rounds of its loop, one after the other.             *)
RoundStart ==
    [remaining |-> Schedules!Directed \ Schedules!Absolute,
     available |-> Schedules!Defaults \cup Schedules!Absolute, waves |-> <<>>]

RoundAfter(before) ==
    LET ready == Schedules!Turn(before.remaining, before.available)
    IN  IF ready = {} THEN before
        ELSE [remaining |-> before.remaining \ ready,
              available |-> before.available \cup ready,
              waves |-> Append(before.waves, ready)]

IsRounds(g, n) ==
    g = [i \in 0 .. n |-> IF i = 0 THEN RoundStart ELSE RoundAfter(g[i - 1])]

LEMMA RoundsExist == \A n \in Nat : \E g : IsRounds(g, n)
<1>. DEFINE T == {n \in Nat : \E g : IsRounds(g, n)}
<1>1. 0 \in T
  <2>. DEFINE g == [i \in 0 .. 0 |-> RoundStart]
  <2>1. g = [i \in 0 .. 0 |-> IF i = 0 THEN RoundStart ELSE RoundAfter(g[i - 1])]  OBVIOUS
  <2>2. IsRounds(g, 0)  BY <2>1 DEF IsRounds
  <2>. QED  BY <2>2
<1>2. ASSUME NEW n \in Nat, n \in T PROVE n + 1 \in T
  <2>1. PICK g : IsRounds(g, n)  BY <1>2
  <2>. DEFINE h == [i \in 0 .. n + 1 |-> IF i = n + 1 THEN RoundAfter(g[n]) ELSE g[i]]
              k == [i \in 0 .. n + 1 |-> IF i = 0 THEN RoundStart ELSE RoundAfter(h[i - 1])]
  <2>2. ASSUME NEW i \in 0 .. n + 1 PROVE h[i] = k[i]
    <3>1. CASE i = 0
      <4>1. g[0] = RoundStart  BY <2>1 DEF IsRounds
      <4>2. h[0] = g[0] /\ k[0] = RoundStart  OBVIOUS
      <4>. QED  BY <3>1, <4>1, <4>2
    <3>2. CASE i # 0 /\ i # n + 1
      <4>1. i \in 0 .. n /\ i - 1 \in 0 .. n + 1 /\ i - 1 # n + 1  BY <3>2
      <4>2. g[i] = RoundAfter(g[i - 1])  BY <2>1, <3>2, <4>1 DEF IsRounds
      <4>3. h[i - 1] = g[i - 1] /\ h[i] = g[i]  BY <3>2, <4>1
      <4>4. k[i] = RoundAfter(h[i - 1])  BY <3>2
      <4>. QED  BY <4>2, <4>3, <4>4
    <3>3. CASE i = n + 1
      <4>1. n \in 0 .. n + 1 /\ n # n + 1 /\ n + 1 # 0 /\ (n + 1) - 1 = n  OBVIOUS
      <4>2. h[n] = g[n]  BY <4>1
      <4>3. h[n + 1] = RoundAfter(g[n])  OBVIOUS
      <4>4. k[n + 1] = RoundAfter(h[n])  BY <4>1
      <4>. QED  BY <3>3, <4>2, <4>3, <4>4
    <3>. QED  BY <3>1, <3>2, <3>3
  <2>3. h = k  BY <2>2
  <2>4. IsRounds(h, n + 1)  BY <2>3 DEF IsRounds
  <2>. QED  BY <2>4
<1>. HIDE DEF T
<1>3. \A n \in Nat : n \in T  BY <1>1, <1>2, SetInduction
<1>. QED  BY <1>3 DEF T

LEMMA Nodes ==
  /\ Len(Parent) \in Nat /\ Schedules!Node = 1 .. Len(Parent)
  /\ IsFiniteSet(Schedules!Node) /\ Cardinality(Schedules!Node) = Len(Parent)
<1>1. Len(Parent) \in Nat /\ Schedules!Node = 1 .. Len(Parent)
  BY ParentAssumption DEF Schedules!Node
<1>2. 1 \in Int /\ Len(Parent) \in Int  BY <1>1
<1>. HIDE DEF Schedules!Node
<1>3. IsFiniteSet(1 .. Len(Parent))
      /\ Cardinality(1 .. Len(Parent)) = IF 1 > Len(Parent) THEN 0 ELSE Len(Parent) - 1 + 1
  BY <1>2, FS_Interval
<1>. QED  BY <1>1, <1>3

LEMMA RoundsAre ==
  /\ Schedules!Round[0] = RoundStart
  /\ \A n \in 1 .. Len(Parent) : Schedules!Round[n] = RoundAfter(Schedules!Round[n - 1])
<1>1. PICK g : IsRounds(g, Len(Parent))  BY Nodes, RoundsExist
<1>2. IsRounds(Schedules!Round, Len(Parent))
  BY <1>1 DEF Schedules!Round, IsRounds, RoundStart, RoundAfter
<1>. QED  BY <1>2, Nodes DEF IsRounds

(* What the waves before the i-th have settled, with what needs none.      *)
SettledBefore(waves, i) ==
    Schedules!Defaults \cup Schedules!Absolute \cup UNION {waves[j] : j \in 1 .. i - 1}

(* What each round leaves.  The last clause is what makes the waves few:   *)
(* a node that is still to come waits for something of the last wave.      *)
RoundHolds(b) ==
    /\ b.remaining \subseteq Schedules!Directed \ Schedules!Absolute
    /\ b.available = Schedules!Node \ b.remaining
    /\ b.waves \in Seq(SUBSET Schedules!Node)
    /\ SettledBefore(b.waves, Len(b.waves) + 1) = b.available
    /\ \A i \in 1 .. Len(b.waves) : b.waves[i] \subseteq Schedules!Directed \ Schedules!Absolute
    /\ \A i \in 1 .. Len(b.waves) : \A n \in b.waves[i] :
          Schedules!Ready(n, SettledBefore(b.waves, i))
    /\ \A i \in 1 .. Len(b.waves) : i > 1 =>
          \A n \in b.waves[i] : Schedules!WaitsFor(n) \cap b.waves[i - 1] # {}
    /\ b.waves # <<>> =>
          \A n \in b.remaining : ~ Schedules!Ready(n, b.available \ b.waves[Len(b.waves)])

(* Every round but those after the last wave settles a node.               *)
Progresses(b, n) ==
    Cardinality(b.available) >= n \/ Schedules!Turn(b.remaining, b.available) = {}

DirectionsTyped == directions \in Seq(Schedules!Direction)

LEMMA DirectedAreNodes ==
  ASSUME DirectionsTyped
  PROVE  /\ Schedules!Directed \subseteq Schedules!Node
         /\ Schedules!Absolute \subseteq Schedules!Directed
         /\ Schedules!Defaults = Schedules!Node \ Schedules!Directed
         /\ \A n : Schedules!References(n) \subseteq Schedules!Node
         /\ \A i \in 1 .. Len(directions) : directions[i] \in Schedules!Direction
<1>1. \A i \in DOMAIN directions : directions[i] \in Schedules!Direction
  BY DEF DirectionsTyped
<1>2. DOMAIN directions = 1 .. Len(directions)  BY DEF DirectionsTyped
<1>3. Schedules!Directed \subseteq Schedules!Node
  BY <1>1 DEF Schedules!Directed, Schedules!Direction
<1>4. \A n : Schedules!References(n) \subseteq Schedules!Node
  BY <1>1 DEF Schedules!References, Schedules!Direction
<1>. QED  BY <1>1, <1>2, <1>3, <1>4 DEF Schedules!Absolute, Schedules!Defaults

LEMMA FirstRound ==
  ASSUME DirectionsTyped PROVE RoundHolds(RoundStart) /\ Progresses(RoundStart, 0)
<1>. DEFINE b == RoundStart
<1>1. b.remaining = Schedules!Directed \ Schedules!Absolute
      /\ b.available = Schedules!Defaults \cup Schedules!Absolute /\ b.waves = <<>>
  BY DEF RoundStart
<1>. HIDE DEF b
<1>2. b.available = Schedules!Node \ b.remaining  BY <1>1, DirectedAreNodes
<1>3. b.waves \in Seq(SUBSET Schedules!Node) /\ Len(b.waves) = 0  BY <1>1
<1>4. SettledBefore(b.waves, 1) = b.available  BY <1>1 DEF SettledBefore
<1>5. RoundHolds(b)  BY <1>1, <1>2, <1>3, <1>4 DEF RoundHolds
<1>6. Cardinality(b.available) \in Nat
  <2>1. b.available \in SUBSET Schedules!Node  BY <1>2
  <2>. QED  BY <2>1, Nodes, FS_Subset, FS_CardinalityType
<1>7. Progresses(b, 0)  BY <1>6 DEF Progresses
<1>. QED  BY <1>5, <1>7 DEF b

LEMMA NextRound ==
  ASSUME DirectionsTyped, NEW b, RoundHolds(b), NEW n \in Nat, Progresses(b, n)
  PROVE  RoundHolds(RoundAfter(b)) /\ Progresses(RoundAfter(b), n + 1)
<1>. DEFINE ready == Schedules!Turn(b.remaining, b.available)
            after == RoundAfter(b)
            Late == Schedules!Directed \ Schedules!Absolute
            w == b.waves
            v == after.waves
<1>1. CASE ready = {}
  BY <1>1 DEF RoundAfter, Progresses
<1>2. CASE ready # {}
  <2>1. after.remaining = b.remaining \ ready /\ after.available = b.available \cup ready
        /\ v = Append(w, ready)
    BY <1>2 DEF RoundAfter
  <2>2. ready \subseteq b.remaining /\ b.remaining \subseteq Late
        /\ b.available = Schedules!Node \ b.remaining /\ w \in Seq(SUBSET Schedules!Node)
        /\ (\A m \in ready : Schedules!Ready(m, b.available))
        /\ (\A m \in b.remaining \ ready : ~ Schedules!Ready(m, b.available))
    BY DEF RoundHolds, Schedules!Turn
  <2>3. Late \subseteq Schedules!Node  BY DirectedAreNodes
  <2>. HIDE DEF ready, after, Late
  <2>4. ready \in SUBSET Schedules!Node  BY <2>2, <2>3
  <2>5. /\ v \in Seq(SUBSET Schedules!Node) /\ Len(v) = Len(w) + 1 /\ v # <<>>
        /\ v[Len(v)] = ready /\ \A i \in 1 .. Len(w) : v[i] = w[i]
        /\ Len(w) \in Nat
    BY <2>1, <2>2, <2>4
  <2>. HIDE DEF w, v
  <2>6. ASSUME NEW i \in 1 .. Len(w) + 1 PROVE SettledBefore(v, i) = SettledBefore(w, i)
    <3>1. \A j \in 1 .. i - 1 : v[j] = w[j]  BY <2>5
    <3>2. {v[j] : j \in 1 .. i - 1} = {w[j] : j \in 1 .. i - 1}  BY <3>1
    <3>. QED  BY <3>2 DEF SettledBefore
  <2>7. SettledBefore(w, Len(w) + 1) = b.available
        /\ (\A i \in 1 .. Len(w) : w[i] \subseteq Late)
        /\ (\A i \in 1 .. Len(w) : \A m \in w[i] : Schedules!Ready(m, SettledBefore(w, i)))
        /\ (\A i \in 1 .. Len(w) : i > 1 =>
              \A m \in w[i] : Schedules!WaitsFor(m) \cap w[i - 1] # {})
        /\ (w # <<>> => \A m \in b.remaining : ~ Schedules!Ready(m, b.available \ w[Len(w)]))
    BY DEF RoundHolds, w, Late
  <2>8. after.remaining \subseteq Late /\ after.available = Schedules!Node \ after.remaining
    BY <2>1, <2>2, <2>3
  <2>9. SettledBefore(v, Len(v) + 1) = after.available
    <3>1. SettledBefore(v, Len(v)) = b.available  BY <2>5, <2>6, <2>7
    <3>2. UNION {v[j] : j \in 1 .. Len(v)} = (UNION {v[j] : j \in 1 .. Len(v) - 1}) \cup v[Len(v)]
      <4>1. 1 .. Len(v) = (1 .. Len(v) - 1) \cup {Len(v)}  BY <2>5
      <4>. QED  BY <4>1
    <3>3. (Len(v) + 1) - 1 = Len(v)  BY <2>5
    <3>. QED  BY <2>1, <2>5, <3>1, <3>2, <3>3 DEF SettledBefore
  <2>10. ASSUME NEW i \in 1 .. Len(v)
         PROVE  v[i] \subseteq Late /\ \A m \in v[i] : Schedules!Ready(m, SettledBefore(v, i))
    <3>1. CASE i \in 1 .. Len(w)  BY <2>5, <2>6, <2>7, <3>1
    <3>2. CASE i = Len(w) + 1
      <4>1. i \in 1 .. Len(w) + 1 /\ v[i] = ready  BY <2>5, <3>2
      <4>2. SettledBefore(v, i) = b.available  BY <2>6, <2>7, <3>2, <4>1
      <4>. QED  BY <2>2, <4>1, <4>2
    <3>. QED  BY <2>5, <3>1, <3>2
  <2>11. ASSUME NEW i \in 1 .. Len(v), i > 1, NEW m \in v[i]
         PROVE  Schedules!WaitsFor(m) \cap v[i - 1] # {}
    <3>1. CASE i \in 1 .. Len(w)
      <4>1. i - 1 \in 1 .. Len(w)  BY <2>5, <2>11, <3>1
      <4>. QED  BY <2>5, <2>7, <2>11, <3>1, <4>1
    <3>2. CASE i = Len(w) + 1
      <4>1. i - 1 = Len(w) /\ i - 1 \in 1 .. Len(w) /\ w # <<>>  BY <2>5, <2>11, <3>2
      <4>2. m \in ready /\ m \in b.remaining  BY <2>2, <2>5, <2>11, <3>2
      <4>3. ~ Schedules!Ready(m, b.available \ w[Len(w)]) /\ Schedules!Ready(m, b.available)
        BY <2>2, <2>7, <4>1, <4>2
      <4>4. Schedules!WaitsFor(m) \cap w[Len(w)] # {}  BY <4>3 DEF Schedules!Ready
      <4>. QED  BY <2>5, <4>1, <4>4
    <3>. QED  BY <2>5, <3>1, <3>2
  <2>12. ASSUME NEW m \in after.remaining
         PROVE  ~ Schedules!Ready(m, after.available \ v[Len(v)])
    <3>1. after.available \ v[Len(v)] = b.available  BY <2>1, <2>2, <2>5
    <3>. QED  BY <2>1, <2>2, <2>12, <3>1
  <2>13. RoundHolds(after)
    BY <2>5, <2>8, <2>9, <2>10, <2>11, <2>12 DEF RoundHolds, v, Late
  <2>14. Progresses(after, n + 1)
    <3>1. b.available \in SUBSET after.available /\ after.available \in SUBSET Schedules!Node
          /\ b.available # after.available
      BY <1>2, <2>1, <2>2, <2>4 DEF ready
    <3>2. IsFiniteSet(after.available)  BY <3>1, Nodes, FS_Subset
    <3>3. Cardinality(b.available) <= Cardinality(after.available)
          /\ Cardinality(b.available) # Cardinality(after.available)
          /\ IsFiniteSet(b.available)
      BY <3>1, <3>2, FS_Subset
    <3>4. Cardinality(b.available) \in Nat /\ Cardinality(after.available) \in Nat
      BY <3>2, <3>3, FS_CardinalityType
    <3>5. Cardinality(b.available) >= n  BY <1>2 DEF Progresses, ready
    <3>6. Cardinality(after.available) >= n + 1  BY <3>3, <3>4, <3>5
    <3>. QED  BY <3>6 DEF Progresses
  <2>. QED  BY <2>13, <2>14 DEF after
<1>. QED  BY <1>1, <1>2

LEMMA RoundsHold ==
  ASSUME DirectionsTyped
  PROVE  /\ RoundHolds(Schedules!Schedule)
         /\ Schedules!Turn(Schedules!Schedule.remaining, Schedules!Schedule.available) = {}
<1>. DEFINE g == Schedules!Round
            T == {n \in Nat : n <= Len(Parent) => RoundHolds(g[n]) /\ Progresses(g[n], n)}
<1>1. 0 \in T  BY RoundsAre, FirstRound
<1>2. ASSUME NEW n \in Nat, n \in T PROVE n + 1 \in T
  <2>1. SUFFICES ASSUME n + 1 <= Len(Parent)
                 PROVE  RoundHolds(g[n + 1]) /\ Progresses(g[n + 1], n + 1)
    OBVIOUS
  <2>2. n + 1 \in 1 .. Len(Parent) /\ (n + 1) - 1 = n /\ n <= Len(Parent)  BY <2>1, Nodes
  <2>3. g[n + 1] = RoundAfter(g[n])  BY <2>2, RoundsAre
  <2>4. RoundHolds(g[n]) /\ Progresses(g[n], n)  BY <1>2, <2>2
  <2>. HIDE DEF g, T
  <2>. QED  BY <2>3, <2>4, NextRound
<1>. HIDE DEF T
<1>3. \A n \in Nat : n \in T  BY <1>1, <1>2, SetInduction
<1>4. RoundHolds(g[Len(Parent)]) /\ Progresses(g[Len(Parent)], Len(Parent))
  BY <1>3, Nodes DEF T
<1>. DEFINE b == Schedules!Schedule
<1>5. RoundHolds(b) /\ Progresses(b, Len(Parent))  BY <1>4 DEF Schedules!Schedule
<1>. HIDE DEF b, g
<1>6. CASE Cardinality(b.available) >= Len(Parent)
  <2>1. b.available \in SUBSET Schedules!Node /\ b.remaining \subseteq Schedules!Node
    BY <1>5, DirectedAreNodes DEF RoundHolds
  <2>2. Cardinality(b.available) <= Len(Parent)
        /\ (Cardinality(b.available) = Len(Parent) => b.available = Schedules!Node)
        /\ Cardinality(b.available) \in Nat
    BY <2>1, Nodes, FS_Subset, FS_CardinalityType
  <2>3. b.available = Schedules!Node  BY <1>6, <2>2, Nodes
  <2>4. b.remaining = {}  BY <1>5, <2>1, <2>3 DEF RoundHolds
  <2>5. Schedules!Turn(b.remaining, b.available) = {}  BY <2>4 DEF Schedules!Turn
  <2>. QED  BY <1>5, <2>5 DEF b
<1>. QED  BY <1>5, <1>6 DEF Progresses, b

LEMMA WavesHold ==
  ASSUME DirectionsTyped
  PROVE  /\ Schedules!ComparedIsSettled /\ Schedules!FewestWaves
         /\ Schedules!RefusedMeansCircle
<1>. DEFINE b == Schedules!Schedule
            w == Schedules!Waves
<1>1. RoundHolds(b) /\ Schedules!Turn(b.remaining, b.available) = {}  BY RoundsHold
<1>2. w = b.waves /\ (Schedules!Scheduled <=> b.remaining = {})
  BY DEF Schedules!Waves, Schedules!Scheduled
<1>. HIDE DEF b, w
<1>3. w \in Seq(SUBSET Schedules!Node) /\ DOMAIN w = 1 .. Len(w) /\ Len(w) \in Nat
  BY <1>1, <1>2 DEF RoundHolds
<1>4. Schedules!FewestWaves
  BY <1>1, <1>2, <1>3 DEF Schedules!FewestWaves, RoundHolds, w
<1>5. Schedules!RefusedMeansCircle
  <2>1. SUFFICES ASSUME ~ Schedules!Scheduled
                 PROVE  \E circle \in SUBSET (Schedules!Directed \ Schedules!Absolute) :
                           circle # {} /\ \A n \in circle : Schedules!WaitsFor(n) \cap circle # {}
    BY DEF Schedules!RefusedMeansCircle
  <2>2. b.remaining # {} /\ b.remaining \in SUBSET (Schedules!Directed \ Schedules!Absolute)
        /\ b.available = Schedules!Node \ b.remaining
    BY <1>1, <1>2, <2>1 DEF RoundHolds
  <2>3. ASSUME NEW n \in b.remaining PROVE Schedules!WaitsFor(n) \cap b.remaining # {}
    <3>1. ~ Schedules!Ready(n, b.available)  BY <1>1, <2>3 DEF Schedules!Turn
    <3>. QED  BY <2>2, <3>1, DirectedAreNodes DEF Schedules!Ready
  <2>. QED  BY <2>2, <2>3
<1>6. Schedules!ComparedIsSettled
  <2>. DEFINE Late == Schedules!Directed \ Schedules!Absolute
  <2>1. SUFFICES ASSUME Schedules!Scheduled
        PROVE  /\ UNION {w[i] : i \in DOMAIN w} = Late
               /\ \A i \in DOMAIN w : \A n \in w[i] : \A r \in Schedules!References(n) :
                     \A m \in Schedules!Node :
                        (m = r \/ r \in Schedules!Above[m]
                           \/ \E k \in Schedules!Node :
                                m \in Schedules!Above[k] /\ (k = r \/ r \in Schedules!Above[k]))
                        => m \in SettledBefore(w, i)
    BY DEF Schedules!ComparedIsSettled, SettledBefore, w
  <2>2. UNION {w[i] : i \in DOMAIN w} = Late
    <3>1. SettledBefore(w, Len(w) + 1) = Schedules!Node
      BY <1>1, <1>2, <2>1 DEF RoundHolds
    <3>2. (Len(w) + 1) - 1 = Len(w)  BY <1>3
    <3>3. Schedules!Node
            = Schedules!Defaults \cup Schedules!Absolute \cup UNION {w[i] : i \in DOMAIN w}
      BY <1>3, <3>1, <3>2 DEF SettledBefore
    <3>4. \A i \in DOMAIN w : w[i] \subseteq Late  BY <1>1, <1>2, <1>3 DEF RoundHolds
    <3>. QED  BY <3>3, <3>4, DirectedAreNodes
  <2>3. ASSUME NEW i \in DOMAIN w, NEW n \in w[i], NEW r \in Schedules!References(n),
               NEW m \in Schedules!Node,
               m = r \/ r \in Schedules!Above[m]
                 \/ \E k \in Schedules!Node :
                       m \in Schedules!Above[k] /\ (k = r \/ r \in Schedules!Above[k])
        PROVE  m \in SettledBefore(w, i)
    <3>1. m # 0  BY Nodes
    <3>2. m \in Schedules!Dependencies(r)
      <4>1. r \in Schedules!Node  BY DirectedAreNodes
      <4>2. CASE m = r \/ r \in Schedules!Above[m]
        BY <4>2 DEF Schedules!Dependencies
      <4>3. CASE \E k \in Schedules!Node :
                    m \in Schedules!Above[k] /\ (k = r \/ r \in Schedules!Above[k])
        <5>1. PICK k \in Schedules!Node :
                 m \in Schedules!Above[k] /\ (k = r \/ r \in Schedules!Above[k])
          BY <4>3
        <5>2. k \in {r} \cup {j \in Schedules!Node : r \in Schedules!Above[j]}  BY <5>1
        <5>. QED  BY <3>1, <5>1, <5>2 DEF Schedules!Dependencies
      <4>. QED  BY <2>3, <4>2, <4>3
    <3>3. m \in Schedules!WaitsFor(n)  BY <3>2 DEF Schedules!WaitsFor
    <3>4. Schedules!Ready(n, SettledBefore(w, i))  BY <1>1, <1>2, <1>3 DEF RoundHolds
    <3>5. CASE m \in Schedules!Directed  BY <3>3, <3>4, <3>5 DEF Schedules!Ready
    <3>6. CASE m \notin Schedules!Directed
      BY <3>6, DirectedAreNodes DEF SettledBefore
    <3>. QED  BY <3>5, <3>6
  <2>. QED  BY <2>1, <2>2, <2>3
<1>. QED  BY <1>4, <1>5, <1>6

(* The comparisons, one after the other.                                   *)
NothingSeen == [edges |-> {}, issues |-> 0]

SeenAfter(before, i) ==
    IF Schedules!Comparative(directions[i]) THEN Schedules!AddComparison(before, directions[i])
    ELSE before

IsSeen(g, n) ==
    g = [i \in 0 .. n |-> IF i = 0 THEN NothingSeen ELSE SeenAfter(g[i - 1], i)]

LEMMA SeenExists == \A n \in Nat : \E g : IsSeen(g, n)
<1>. DEFINE T == {n \in Nat : \E g : IsSeen(g, n)}
<1>1. 0 \in T
  <2>. DEFINE g == [i \in 0 .. 0 |-> NothingSeen]
  <2>1. g = [i \in 0 .. 0 |-> IF i = 0 THEN NothingSeen ELSE SeenAfter(g[i - 1], i)]  OBVIOUS
  <2>2. IsSeen(g, 0)  BY <2>1 DEF IsSeen
  <2>. QED  BY <2>2
<1>2. ASSUME NEW n \in Nat, n \in T PROVE n + 1 \in T
  <2>1. PICK g : IsSeen(g, n)  BY <1>2
  <2>. DEFINE h == [i \in 0 .. n + 1 |-> IF i = n + 1 THEN SeenAfter(g[n], i) ELSE g[i]]
              k == [i \in 0 .. n + 1 |-> IF i = 0 THEN NothingSeen ELSE SeenAfter(h[i - 1], i)]
  <2>2. ASSUME NEW i \in 0 .. n + 1 PROVE h[i] = k[i]
    <3>1. CASE i = 0
      <4>1. g[0] = NothingSeen  BY <2>1 DEF IsSeen
      <4>2. h[0] = g[0] /\ k[0] = NothingSeen  OBVIOUS
      <4>. QED  BY <3>1, <4>1, <4>2
    <3>2. CASE i # 0 /\ i # n + 1
      <4>1. i \in 0 .. n /\ i - 1 \in 0 .. n + 1 /\ i - 1 # n + 1  BY <3>2
      <4>2. g[i] = SeenAfter(g[i - 1], i)  BY <2>1, <3>2, <4>1 DEF IsSeen
      <4>3. h[i - 1] = g[i - 1] /\ h[i] = g[i]  BY <3>2, <4>1
      <4>4. k[i] = SeenAfter(h[i - 1], i)  BY <3>2
      <4>. QED  BY <4>2, <4>3, <4>4
    <3>3. CASE i = n + 1
      <4>1. n \in 0 .. n + 1 /\ n # n + 1 /\ n + 1 # 0 /\ (n + 1) - 1 = n  OBVIOUS
      <4>2. h[n] = g[n]  BY <4>1
      <4>3. h[n + 1] = SeenAfter(g[n], n + 1)  OBVIOUS
      <4>4. k[n + 1] = SeenAfter(h[n], n + 1)  BY <4>1
      <4>. QED  BY <3>3, <4>2, <4>3, <4>4
    <3>. QED  BY <3>1, <3>2, <3>3
  <2>3. h = k  BY <2>2
  <2>4. IsSeen(h, n + 1)  BY <2>3 DEF IsSeen
  <2>. QED  BY <2>4
<1>. HIDE DEF T
<1>3. \A n \in Nat : n \in T  BY <1>1, <1>2, SetInduction
<1>. QED  BY <1>3 DEF T

LEMMA SeenIs ==
  ASSUME DirectionsTyped
  PROVE  /\ Schedules!Seen[0] = NothingSeen
         /\ \A n \in 1 .. Len(directions) :
               Schedules!Seen[n] = SeenAfter(Schedules!Seen[n - 1], n)
<1>1. Len(directions) \in Nat  BY DEF DirectionsTyped
<1>2. PICK g : IsSeen(g, Len(directions))  BY <1>1, SeenExists
<1>3. IsSeen(Schedules!Seen, Len(directions))
  BY <1>2 DEF Schedules!Seen, IsSeen, NothingSeen, SeenAfter
<1>. QED  BY <1>1, <1>3 DEF IsSeen

(* Sections that are ranked as the edges say, from the lower to the higher.*)
Ranked(edges, rank) ==
    /\ rank \in [Schedules!Node -> Schedules!Node]
    /\ \A e \in edges : rank[e[1]] < rank[e[2]]

(* As many ranks as there are sections are enough.                         *)
LEMMA Compressed ==
  ASSUME NEW high \in [Schedules!Node -> Nat]
  PROVE  \E rank \in [Schedules!Node -> Schedules!Node] :
            \A a, b \in Schedules!Node : high[a] < high[b] => rank[a] < rank[b]
<1>. DEFINE Node == Schedules!Node
            Up(n) == {m \in Node : high[m] <= high[n]}
            rank == [n \in Node |-> Cardinality(Up(n))]
<1>1. IsFiniteSet(Node) /\ Node = 1 .. Len(Parent) /\ Len(Parent) \in Nat
      /\ Cardinality(Node) = Len(Parent)
  BY Nodes
<1>. HIDE DEF Node
<1>2. ASSUME NEW n \in Node
      PROVE  /\ IsFiniteSet(Up(n)) /\ Cardinality(Up(n)) \in Nat
             /\ Cardinality(Up(n)) # 0 /\ Cardinality(Up(n)) <= Len(Parent)
  <2>1. Up(n) \in SUBSET Node /\ n \in Up(n)  BY DEF Node
  <2>2. IsFiniteSet(Up(n)) /\ Cardinality(Up(n)) <= Cardinality(Node)
    BY <1>1, <2>1, FS_Subset
  <2>3. Cardinality(Up(n)) \in Nat  BY <2>2, FS_CardinalityType
  <2>4. Cardinality(Up(n)) # 0  BY <2>1, <2>2, FS_EmptySet
  <2>. QED  BY <1>1, <2>2, <2>3, <2>4
<1>3. rank \in [Node -> Node]
  <2>1. ASSUME NEW n \in Node PROVE Cardinality(Up(n)) \in Node
    <3>. HIDE DEF Up
    <3>. QED  BY <1>1, <1>2
  <2>. QED  BY <2>1
<1>4. ASSUME NEW a \in Node, NEW b \in Node, high[a] < high[b] PROVE rank[a] < rank[b]
  <2>1. high[a] \in Nat /\ high[b] \in Nat  BY DEF Node
  <2>2. Up(a) \in SUBSET Up(b)
    <3>1. \A m \in Node : high[m] \in Nat  BY DEF Node
    <3>. QED  BY <1>4, <2>1, <3>1
  <2>3. b \in Up(b) /\ b \notin Up(a)  BY <1>4, <2>1
  <2>4. Cardinality(Up(a)) <= Cardinality(Up(b)) /\ Cardinality(Up(b)) # Cardinality(Up(a))
    <3>1. IsFiniteSet(Up(b))  BY <1>2
    <3>2. Up(b) # Up(a)  BY <2>3
    <3>. HIDE DEF Up
    <3>. QED  BY <2>2, <3>1, <3>2, FS_Subset
  <2>5. Cardinality(Up(a)) \in Nat /\ Cardinality(Up(b)) \in Nat  BY <1>2
  <2>6. rank[a] = Cardinality(Up(a)) /\ rank[b] = Cardinality(Up(b))  OBVIOUS
  <2>. HIDE DEF Up, rank
  <2>. QED  BY <2>4, <2>5, <2>6
<1>. HIDE DEF rank
<1>. QED  BY <1>3, <1>4 DEF Node

(* An edge that closes no circle leaves a ranking: what is above the upper *)
(* end is moved above everything else.                                     *)
LEMMA RankedWith ==
  ASSUME NEW edges \in SUBSET (Schedules!Node \X Schedules!Node),
         NEW rank, Ranked(edges, rank),
         NEW low \in Schedules!Node, NEW top \in Schedules!Node,
         ~ Schedules!HasPath(edges, top, low)
  PROVE  \E new : Ranked(edges \cup {<<low, top>>}, new)
<1>1. PICK closed \in SUBSET Schedules!Node :
         /\ top \in closed /\ low \notin closed
         /\ \A e \in edges : e[1] \in closed => e[2] \in closed
  BY DEF Schedules!HasPath
<1>. DEFINE high == [n \in Schedules!Node |->
                        IF n \in closed THEN rank[n] + Len(Parent) ELSE rank[n]]
<1>2. Len(Parent) \in Nat
      /\ \A n \in Schedules!Node : rank[n] \in Nat /\ 1 <= rank[n] /\ rank[n] <= Len(Parent)
  <2>1. \A n \in Schedules!Node : rank[n] \in Schedules!Node  BY DEF Ranked
  <2>. QED  BY <2>1, Nodes
<1>3. high \in [Schedules!Node -> Nat]  BY <1>2
<1>4. ASSUME NEW e \in edges \cup {<<low, top>>}
      PROVE  e[1] \in Schedules!Node /\ e[2] \in Schedules!Node /\ high[e[1]] < high[e[2]]
  <2>1. e[1] \in Schedules!Node /\ e[2] \in Schedules!Node  OBVIOUS
  <2>2. CASE e \in edges
    <3>1. rank[e[1]] < rank[e[2]]  BY <2>2 DEF Ranked
    <3>2. e[1] \in closed => e[2] \in closed  BY <1>1, <2>2
    <3>3. high[e[1]] = (IF e[1] \in closed THEN rank[e[1]] + Len(Parent) ELSE rank[e[1]])
          /\ high[e[2]] = (IF e[2] \in closed THEN rank[e[2]] + Len(Parent) ELSE rank[e[2]])
      BY <2>1
    <3>4. rank[e[1]] \in Nat /\ rank[e[2]] \in Nat  BY <1>2, <2>1
    <3>. HIDE DEF high
    <3>. QED  BY <1>2, <2>1, <3>1, <3>2, <3>3, <3>4
  <2>3. CASE e = <<low, top>>
    <3>1. high[low] = rank[low] /\ high[top] = rank[top] + Len(Parent)  BY <1>1
    <3>. HIDE DEF high
    <3>. QED  BY <1>2, <2>1, <2>3, <3>1
  <2>. QED  BY <2>2, <2>3
<1>. HIDE DEF high
<1>5. PICK new \in [Schedules!Node -> Schedules!Node] :
         \A a, b \in Schedules!Node : high[a] < high[b] => new[a] < new[b]
  BY <1>3, Compressed
<1>6. Ranked(edges \cup {<<low, top>>}, new)  BY <1>4, <1>5 DEF Ranked
<1>. QED  BY <1>6

(* What the check has seen, as long as it has nothing to say.              *)
SeenHolds(told, n) ==
    /\ told \in [edges : SUBSET (Schedules!Node \X Schedules!Node), issues : Nat]
    /\ told.issues = 0 =>
          /\ \E rank : Ranked(told.edges, rank)
          /\ \A i \in 1 .. n : Schedules!Comparative(directions[i])
                => Schedules!EdgeOf(directions[i]) \in told.edges

LEMMA SeenNext ==
  ASSUME DirectionsTyped, NEW s, NEW n \in Nat, n + 1 <= Len(directions), SeenHolds(s, n)
  PROVE  SeenHolds(SeenAfter(s, n + 1), n + 1)
<1>. DEFINE d == directions[n + 1]
            e == Schedules!EdgeOf(d)
            t == SeenAfter(s, n + 1)
<1>1. d \in Schedules!Direction
  <2>1. n + 1 \in 1 .. Len(directions)  BY DEF DirectionsTyped
  <2>. QED  BY <2>1, DirectedAreNodes
<1>2. s.issues \in Nat /\ s.edges \in SUBSET (Schedules!Node \X Schedules!Node)
      /\ s = [edges |-> s.edges, issues |-> s.issues]
  BY DEF SeenHolds
<1>3. \A i \in 1 .. n + 1 : i \in 1 .. n \/ i = n + 1  OBVIOUS
<1>4. CASE ~ Schedules!Comparative(d)
  BY <1>3, <1>4 DEF SeenAfter, SeenHolds
<1>5. CASE Schedules!Comparative(d)
  <2>1. d.target \in Schedules!Node /\ d.reference \in Schedules!Node
    BY <1>1, <1>5 DEF Schedules!Direction, Schedules!Comparative
  <2>2. e \in Schedules!Node \X Schedules!Node /\ e = <<e[1], e[2]>>
        /\ e[1] \in Schedules!Node /\ e[2] \in Schedules!Node
    BY <2>1 DEF Schedules!EdgeOf
  <2>3. t = Schedules!AddComparison(s, d)  BY <1>5 DEF SeenAfter
  <2>. HIDE DEF d, e, t
  <2>4. CASE Schedules!Comparable(d) /\ ~ Schedules!HasPath(s.edges, e[2], e[1])
    <3>1. t = [s EXCEPT !.edges = s.edges \cup {e}]
      BY <2>3, <2>4 DEF Schedules!AddComparison, e
    <3>2. t = [edges |-> s.edges \cup {e}, issues |-> s.issues]  BY <1>2, <3>1
    <3>3. t \in [edges : SUBSET (Schedules!Node \X Schedules!Node), issues : Nat]
      BY <1>2, <2>2, <3>2
    <3>4. ASSUME t.issues = 0
          PROVE  /\ \E rank : Ranked(t.edges, rank)
                 /\ \A i \in 1 .. n + 1 : Schedules!Comparative(directions[i])
                       => Schedules!EdgeOf(directions[i]) \in t.edges
      <4>1. s.issues = 0 /\ t.edges = s.edges \cup {e}  BY <3>2, <3>4
      <4>2. PICK rank : Ranked(s.edges, rank)  BY <4>1 DEF SeenHolds
      <4>3. \E new : Ranked(s.edges \cup {<<e[1], e[2]>>}, new)
        BY <1>2, <2>2, <2>4, <4>2, RankedWith
      <4>4. \E new : Ranked(t.edges, new)  BY <2>2, <4>1, <4>3
      <4>5. ASSUME NEW i \in 1 .. n + 1, Schedules!Comparative(directions[i])
            PROVE  Schedules!EdgeOf(directions[i]) \in t.edges
        <5>1. CASE i = n + 1  BY <4>1, <5>1 DEF d, e
        <5>2. CASE i \in 1 .. n  BY <4>1, <4>5, <5>2 DEF SeenHolds
        <5>. QED  BY <1>3, <5>1, <5>2
      <4>. QED  BY <4>4, <4>5
    <3>. QED  BY <3>3, <3>4 DEF SeenHolds, t
  <2>5. CASE ~ (Schedules!Comparable(d) /\ ~ Schedules!HasPath(s.edges, e[2], e[1]))
    <3>1. t = [s EXCEPT !.issues = s.issues + 1]
      BY <2>3, <2>5 DEF Schedules!AddComparison, e
    <3>2. t = [edges |-> s.edges, issues |-> s.issues + 1]  BY <1>2, <3>1
    <3>3. t \in [edges : SUBSET (Schedules!Node \X Schedules!Node), issues : Nat] /\ t.issues # 0
      BY <1>2, <3>2
    <3>. QED  BY <3>3 DEF SeenHolds, t
  <2>. QED  BY <2>4, <2>5
<1>. QED  BY <1>4, <1>5

LEMMA RequirementsHold == ASSUME DirectionsTyped PROVE Schedules!RequirementsCanBeMet
<1>. DEFINE g == Schedules!Seen
            T == {n \in Nat : n <= Len(directions) => SeenHolds(g[n], n)}
<1>1. 0 \in T
  <2>. DEFINE rank == [n \in Schedules!Node |-> n]
  <2>1. Ranked({}, rank)  BY DEF Ranked
  <2>2. SeenHolds(NothingSeen, 0)  BY <2>1 DEF SeenHolds, NothingSeen
  <2>. QED  BY <2>2, SeenIs
<1>2. ASSUME NEW n \in Nat, n \in T PROVE n + 1 \in T
  <2>1. SUFFICES ASSUME n + 1 <= Len(directions) PROVE SeenHolds(g[n + 1], n + 1)  OBVIOUS
  <2>2. Len(directions) \in Nat  BY DEF DirectionsTyped
  <2>3. n + 1 \in 1 .. Len(directions) /\ (n + 1) - 1 = n /\ n <= Len(directions)
    BY <2>1, <2>2
  <2>4. g[n + 1] = SeenAfter(g[n], n + 1)  BY <2>3, SeenIs
  <2>5. SeenHolds(g[n], n)  BY <1>2, <2>3
  <2>. HIDE DEF g, T
  <2>. QED  BY <2>1, <2>4, <2>5, SeenNext
<1>. HIDE DEF T
<1>3. \A n \in Nat : n \in T  BY <1>1, <1>2, SetInduction
<1>4. Len(directions) \in Nat /\ DOMAIN directions = 1 .. Len(directions)
  BY DEF DirectionsTyped
<1>5. SeenHolds(Schedules!Comparisons, Len(directions))
  BY <1>3, <1>4 DEF T, Schedules!Comparisons
<1>6. SUFFICES ASSUME Schedules!Comparisons.issues = 0
      PROVE  \E rank \in [Schedules!Node -> Schedules!Node] :
                \A i \in DOMAIN directions :
                   Schedules!Comparative(directions[i]) =>
                      IF directions[i].relation = "more"
                      THEN rank[directions[i].target] > rank[directions[i].reference]
                      ELSE rank[directions[i].target] < rank[directions[i].reference]
  BY DEF Schedules!RequirementsCanBeMet
<1>7. PICK rank : Ranked(Schedules!Comparisons.edges, rank)  BY <1>5, <1>6 DEF SeenHolds
<1>8. ASSUME NEW i \in DOMAIN directions, Schedules!Comparative(directions[i])
      PROVE  IF directions[i].relation = "more"
             THEN rank[directions[i].target] > rank[directions[i].reference]
             ELSE rank[directions[i].target] < rank[directions[i].reference]
  <2>1. Schedules!EdgeOf(directions[i]) \in Schedules!Comparisons.edges
    BY <1>4, <1>5, <1>6, <1>8 DEF SeenHolds
  <2>2. rank[Schedules!EdgeOf(directions[i])[1]] < rank[Schedules!EdgeOf(directions[i])[2]]
    BY <1>7, <2>1 DEF Ranked
  <2>3. directions[i].target \in Schedules!Node /\ directions[i].reference \in Schedules!Node
    BY <1>4, <1>8, DirectedAreNodes DEF Schedules!Direction, Schedules!Comparative
  <2>4. rank[directions[i].target] \in Nat /\ rank[directions[i].reference] \in Nat
    <3>1. \A n \in Schedules!Node : rank[n] \in Schedules!Node  BY <1>7 DEF Ranked
    <3>. QED  BY <2>3, <3>1, Nodes
  <2>5. CASE directions[i].relation = "more"
    BY <2>2, <2>4, <2>5 DEF Schedules!EdgeOf
  <2>6. CASE directions[i].relation # "more"
    BY <2>2, <2>4, <2>6 DEF Schedules!EdgeOf
  <2>. QED  BY <2>5, <2>6
<1>. QED  BY <1>7, <1>8 DEF Ranked

-----------------------------------------------------------------------------
(* One part moves while the others stay as they are.                       *)
AllHold == RunInv /\ StagesInv /\ WrittenInv /\ RemovedInv /\ DirectionsTyped

LEMMA StepIs ==
  ASSUME [Next]_vars
  PROVE  /\ [Run!Next]_(Run!vars)
         /\ [Stages!Next]_(Stages!vars)
         /\ [Diffs!Next]_(Diffs!vars)
         /\ [Schedules!AddDirection]_(Schedules!vars)
<1>1. UNCHANGED single => UNCHANGED Run!vars
  BY DEF single, Run!vars, Run!disk, Run!mind
<1>2. UNCHANGED chain => UNCHANGED Stages!vars
  BY DEF chain, Stages!vars, Stages!children
<1>3. UNCHANGED written => UNCHANGED Diffs!vars
  BY DEF written, Diffs!vars
<1>4. UNCHANGED directions => UNCHANGED Schedules!vars
  BY DEF Schedules!vars
<1>5. CASE RunReviewedByBoth
  BY <1>2, <1>3, <1>4, <1>5 DEF RunReviewedByBoth, Run!Next
<1>6. CASE RunReviewedByOne
  BY <1>2, <1>3, <1>4, <1>6 DEF RunReviewedByOne, Run!Next
<1>7. CASE RunStages  BY <1>1, <1>3, <1>4, <1>7 DEF RunStages
<1>8. CASE RunDiffs  BY <1>1, <1>2, <1>4, <1>8 DEF RunDiffs
<1>9. CASE AddDirection  BY <1>1, <1>2, <1>3, <1>9 DEF AddDirection
<1>10. CASE BoundIsReached \/ UNCHANGED vars
  BY <1>1, <1>2, <1>3, <1>4, <1>10 DEF vars, BoundIsReached
<1>. QED  BY <1>5, <1>6, <1>7, <1>8, <1>9, <1>10 DEF Next

LEMMA DirectionsStay ==
  DirectionsTyped /\ [Schedules!AddDirection]_(Schedules!vars) => DirectionsTyped'
BY DEF DirectionsTyped, Schedules!AddDirection, Schedules!vars

LEMMA AllHoldAtFirst == Init => AllHold
<1>1. Diffs!Init => RemovedInv  BY DEF Diffs!Init, RemovedInv
<1>2. Schedules!Init => DirectionsTyped  BY DEF Schedules!Init, DirectionsTyped
<1>. QED  BY <1>1, <1>2, InitHolds, StagesInitHolds, WrittenAtFirst DEF Init, AllHold

LEMMA AllKeep == AllHold /\ [Next]_vars => AllHold'
<1>. SUFFICES ASSUME AllHold, [Next]_vars PROVE AllHold'  OBVIOUS
<1>1. RunInv'  BY StepIs, RunKeeps DEF AllHold
<1>2. StagesInv'  BY StepIs, StagesKeep DEF AllHold
<1>3. WrittenInv' /\ RemovedInv'  BY StepIs, WrittenStays, RemovedNext DEF AllHold
<1>4. DirectionsTyped'  BY StepIs, DirectionsStay DEF AllHold
<1>. QED  BY <1>1, <1>2, <1>3, <1>4 DEF AllHold

(* The records of a single run rest on each other, whoever advances and    *)
(* reviews it: every diff was built on what the operations before it have  *)
(* written and on the last answer of a model that is asked again only      *)
(* after an answer with issues (advance_*_realization_run).                *)
THEOREM RecordsRestOnEachOther == Spec => []RunIsBacked
<1>1. AllHold => RunIsBacked  BY InvHolds DEF AllHold, RunIsBacked
<1>. QED  BY <1>1, AllHoldAtFirst, AllKeep, PTL DEF Spec

(* Every stage begins with the workspace the stages before it end with,    *)
(* and only a stop spoils one (rebuild_staged_realization).                *)
THEOREM ChainRests == Spec => []ChainHolds
<1>1. AllHold => ChainHolds  BY StagesSay DEF AllHold, ChainHolds
<1>. QED  BY <1>1, AllHoldAtFirst, AllKeep, PTL DEF Spec

(* The single run implements StageRun, the chain implements it with the    *)
(* operations of all stages, and only a review meets a record that it did  *)
(* not expect.                                                             *)
THEOREM StagePromisesKept == Spec => KeepStagePromises
<1>1. Init => Run!Stage!Init  BY RunInitIsStage DEF Init
<1>2. Init => Stages!Whole!Init  BY WholeInit DEF Init
<1>3. AllHold /\ AllHold' /\ [Next]_vars => [Run!Stage!Next]_(Run!Stage!vars)
  BY StepIs, RunIsStage DEF AllHold
<1>4. AllHold /\ AllHold' /\ [Next]_vars => [Stages!Whole!Next]_(Stages!Whole!vars)
  BY StepIs, WholeStep DEF AllHold
<1>5. AllHold /\ [Next]_vars => [Run!OnlyReviewsConflict]_(Run!vars)
  BY StepIs, NoConflict DEF AllHold
<1>. QED
  BY <1>1, <1>2, <1>3, <1>4, <1>5, AllHoldAtFirst, AllKeep, PTL
  DEF Spec, KeepStagePromises, Run!KeepsStagePromise, Run!Stage!Spec,
      Stages!KeepsWholePromise, Stages!Whole!Spec, Run!NeverConflicts

(* apply_checked_diff never leaves a value behind that was made, at first  *)
(* or at second hand, from a value that has been replaced or removed, and  *)
(* every value has recorded all that it was made from.                     *)
THEOREM NothingStays == Spec => []NothingIsStale
<1>1. AllHold => NothingIsStale
  BY DEF AllHold, WrittenInv, NothingIsStale, Diffs!NothingIsStale
<1>. QED  BY <1>1, AllHoldAtFirst, AllKeep, PTL DEF Spec

(* ... and it removes nothing without need: a value that was not written   *)
(* stays unless something it was made from has changed.                    *)
THEOREM HoldsStay == Spec => KeepsWhatHolds
<1>1. AllHold /\ [Next]_vars => [Diffs!TakesOnlyWhatChanged]_(Diffs!vars)
  BY StepIs, TakesOnly DEF AllHold
<1>. QED
  BY <1>1, AllHoldAtFirst, AllKeep, PTL DEF Spec, KeepsWhatHolds, Diffs!KeepsWhatHolds

(* performance_operation_schedule asks for a node when everything that its *)
(* references sound with is settled, no later than that, and refuses a     *)
(* script only if some directions wait for each other; comparisons that    *)
(* _check_requirement_references accepts can be met by one ranking.        *)
THEOREM WavesAreSettled == Spec => []WavesSettle
<1>1. AllHold => WavesSettle
  BY WavesHold, RequirementsHold DEF AllHold, WavesSettle
<1>. QED  BY <1>1, AllHoldAtFirst, AllKeep, PTL DEF Spec
=============================================================================
