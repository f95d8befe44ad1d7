--------------------------- MODULE TextureBatches ---------------------------
(***************************************************************************)
(* How the accompaniment of a score is cut into batches, one model call    *)
(* each (partition_texture_batches), and which accompaniment prepared in   *)
(* advance may stand for the first of them (execute_texture_stage).        *)
(*                                                                         *)
(* A material is represented by the number of events it requires.          *)
(***************************************************************************)
EXTENDS Naturals, Sequences, FiniteSets, SequencesExt

Total(weights) ==
    LET sum[n \in 0..Len(weights)] == IF n = 0 THEN 0 ELSE sum[n - 1] + weights[n]
    IN  sum[Len(weights)]

Lengths(batches) == [k \in 1..Len(batches) |-> Len(batches[k])]

(* A material alone above the ceiling cannot be generated at all.          *)
Feasible(weights, ceiling) == \A i \in DOMAIN weights : weights[i] \in 1..ceiling

AddMaterialBelow(batches, weight, ceiling) ==   \* faulty: no batch reaches the ceiling
    IF batches # <<>> /\ Total(Last(batches)) + weight < ceiling
    THEN Append(Front(batches), Append(Last(batches), weight))
    ELSE Append(batches, <<weight>>)

(* One turn of the loop of partition_texture_batches.                      *)
AddMaterial(batches, weight, ceiling) ==
    IF batches # <<>> /\ Total(Last(batches)) + weight <= ceiling
    THEN Append(Front(batches), Append(Last(batches), weight))
    ELSE Append(batches, <<weight>>)

Partition(weights, ceiling) ==
    LET cut[n \in 0..Len(weights)] ==
            IF n = 0 THEN <<>> ELSE AddMaterial(cut[n - 1], weights[n], ceiling)
    IN  cut[Len(weights)]

(* The loop over the batches that a prefix of n drafts goes through.       *)
TakeBatch(taken, length, n) ==
    IF taken.drafts + length <= n
    THEN [taken EXCEPT !.batches = @ + 1, !.drafts = @ + length]
    ELSE [taken EXCEPT !.split = @ \/ taken.drafts < n]

NothingTaken == [batches |-> 0, drafts |-> 0, split |-> FALSE]

Taken(batches, n) ==
    LET taken[k \in 0..Len(batches)] ==
            IF k = 0 THEN NothingTaken
            ELSE TakeBatch(taken[k - 1], Len(batches[k]), n)
    IN  taken[Len(batches)]

PrefixAccepted(batches, n) ==
    LET taken == Taken(batches, n)
    IN  /\ 0 < n /\ n < Total(Lengths(batches))
        /\ ~taken.split
        /\ taken.drafts = n

-----------------------------------------------------------------------------
(* Every material is in one batch, in its place, and no batch is empty or  *)
(* above the ceiling.                                                      *)
BatchesCoverTheScore(weights, ceiling) ==
    LET batches == Partition(weights, ceiling)
    IN  /\ FlattenSeq(batches) = weights
        /\ \A k \in DOMAIN batches :
              batches[k] # <<>> /\ Total(batches[k]) <= ceiling

(* Whether cutting a score at these places fits the ceiling.               *)
Fits(cuts, weights, ceiling) ==
    \A i, j \in 1..Len(weights) :
        (i <= j /\ \A c \in cuts : c < i \/ c >= j)
            => Total(SubSeq(weights, i, j)) <= ceiling

(* There is no way of cutting the score that needs fewer model calls.      *)
FewestCalls(weights, ceiling) ==
    weights # <<>> =>
        \A cuts \in SUBSET (1..(Len(weights) - 1)) :
            Fits(cuts, weights, ceiling)
                => Cardinality(cuts) + 1 >= Len(Partition(weights, ceiling))

(* A prepared prefix is accepted just when it consists of whole batches    *)
(* and leaves one to be generated.                                         *)
PrefixIsWholeBatches(weights, ceiling) ==
    LET batches == Partition(weights, ceiling)
    IN  \A n \in 0..(Len(weights) + 1) :
            PrefixAccepted(batches, n)
                <=> \E k \in 1..(Len(batches) - 1) :
                        n = Total(SubSeq(Lengths(batches), 1, k))

(* A further material changes none but the last batch, so what was prepared*)
(* for the others still fits.                                              *)
EarlierBatchesStay(weights, ceiling) ==
    \A n \in 1..Len(weights) :
        LET before == Partition(SubSeq(weights, 1, n), ceiling)
        IN  \A k \in 1..(Len(before) - 1) :
                before[k] = Partition(weights, ceiling)[k]
=============================================================================
