---------------------------- MODULE ScoreWorkPlan ----------------------------
(***************************************************************************)
(* Which placements of a script are composed together, by one model        *)
(* operation, and in which order (build_score_work_plan): what is compared *)
(* with another placement comes after it, the target of a section variation*)
(* is one candidate, and what waits for each other is composed at once.    *)
(*                                                                         *)
(* A placement is its place in ordered_placement_ids.  Only scripts that   *)
(* the validation accepts are built up (script_0_3_validation); nothing is *)
(* planned before each leaf has a placement (profile_capabilities).        *)
(***************************************************************************)
EXTENDS Naturals, Sequences, FiniteSets, SequencesExt

CONSTANTS
    Sections,       \* bound: of each section the one it is in; 0 for the root
    Material,
    MaxPlacements,  \* bound: placements of a script
    MaxRelations    \* bound: variations and transitions of a script

VARIABLES
    placements,     \* with a section, a material and a role
    relations,      \* variations: a kind, a source and a target
    transitions     \* a source, a connector and a target

music == <<placements, relations, transitions>>

Section == DOMAIN Sections

Placed == DOMAIN placements

RECURSIVE LeavesOf(_)
LeavesOf(s) ==
    LET children == SetToSortSeq({c \in Section : Sections[c] = s}, <)
    IN  IF children = <<>> THEN <<s>>
        ELSE FlattenSeq([i \in DOMAIN children |-> LeavesOf(children[i])])

LeavesIn == [s \in Section |-> LeavesOf(s)]

Leaves == ToSet(LeavesIn[1])

LeafRank == [s \in Leaves |-> CHOOSE i \in DOMAIN LeavesIn[1] : LeavesIn[1][i] = s]

Foreground(k) == placements[k].role = "foreground"

(* The order of ordered_placement_ids, but for the identifiers.            *)
MayFollow(p, q) ==
    \/ LeafRank[p.section] < LeafRank[q.section]
    \/ /\ p.section = q.section
       /\ p.role = "foreground" \/ q.role = "accompaniment"

RangeOf(s) == {k \in Placed : placements[k].section \in ToSet(LeavesIn[s])}

-----------------------------------------------------------------------------
(* _section_performance_spans, _material_placement_spans.                  *)
Precedes(s, t) == LeafRank[Last(LeavesIn[s])] < LeafRank[Head(LeavesIn[t])]

PlacedBefore(j, k) == Precedes(placements[j].section, placements[k].section)

MaterialsFrom[n \in Nat] == [m \in Material |->
    IF n = 0 THEN {m}
    ELSE {m} \cup UNION {MaterialsFrom[n - 1][r.target] :
                         r \in {r \in relations : r.kind = "material" /\ r.source = m}}]

(* _check_variation_relations.                                             *)
RelationFits(r) ==
    /\ r.source # r.target
    /\ \A q \in relations : q.kind = r.kind => q.target # r.target
    /\ r.kind = "section" => Precedes(r.source, r.target)
    /\ r.kind = "placement" => PlacedBefore(r.source, r.target)
    /\ r.kind = "material" => r.source \notin MaterialsFrom[Cardinality(Material)][r.target]

(* _check_material_placement_transitions.                                  *)
TransitionFits(t) ==
    /\ \A k \in Placed \ {t.connector} : placements[k].section # placements[t.connector].section
    /\ PlacedBefore(t.source, t.connector) /\ PlacedBefore(t.connector, t.target)

PlanInit == placements = <<>> /\ relations = {} /\ transitions = {}

AddPlacement ==
    /\ Len(placements) < MaxPlacements /\ relations = {} /\ transitions = {}
    /\ \E p \in [section : Leaves, material : Material, role : {"foreground", "accompaniment"}] :
          /\ placements # <<>> => MayFollow(Last(placements), p)
          /\ placements' = Append(placements, p)
    /\ UNCHANGED <<relations, transitions>>

EveryLeafIsPlaced == \A s \in Leaves : RangeOf(s) # {}

MayRelate ==
    EveryLeafIsPlaced /\ Cardinality(relations) + Cardinality(transitions) < MaxRelations

AddRelation ==
    /\ MayRelate
    /\ \E r \in [kind : {"section"}, source : Section, target : Section]
                \cup [kind : {"placement"}, source : Placed, target : Placed]
                \cup [kind : {"material"}, source : Material, target : Material] :
          RelationFits(r) /\ relations' = relations \cup {r}
    /\ UNCHANGED <<placements, transitions>>

AddTransition ==
    /\ MayRelate
    /\ \E t \in [source : Placed, connector : Placed, target : Placed] :
          TransitionFits(t) /\ transitions' = transitions \cup {t}
    /\ UNCHANGED <<placements, relations>>

PlanNext == AddPlacement \/ AddRelation \/ AddTransition

-----------------------------------------------------------------------------
Connectors == {t.connector : t \in transitions}

Normal == {k \in Placed : Foreground(k) /\ k \notin Connectors}

Of(m) == {k \in Placed : placements[k].material = m}

Earliest(ks) == CHOOSE k \in ks : \A j \in ks : k <= j

(* What the profile can express: variations and transitions of foregrounds.*)
Expressible(r) ==
    CASE r.kind = "section" -> TRUE
      [] r.kind = "placement" -> {r.source, r.target} \subseteq Normal
      [] r.kind = "material" ->
            \A m \in {r.source, r.target} :
                (\A k \in Of(m) : Foreground(k)) /\ Of(m) \cap Normal # {}

Connects(t) == Foreground(t.connector) /\ {t.source, t.target} \subseteq Normal

Planned ==
    /\ EveryLeafIsPlaced
    /\ \A r \in relations : Expressible(r)
    /\ \A t \in transitions : Connects(t)

Compared(r) ==
    CASE r.kind = "section" -> RangeOf(r.source) \X RangeOf(r.target)
      [] r.kind = "placement" -> {<<r.source, r.target>>}
      [] r.kind = "material" ->
            {Earliest(Of(r.source) \cap Normal)} \X (Of(r.target) \cap Normal)

(* A further placement of a material is compared with the one before.      *)
Reused ==
    {<<j, k>> \in Placed \X Placed :
        /\ j < k /\ ~\E r \in relations : r.kind = "placement" /\ r.target = k
        /\ j \notin Connectors /\ k \notin Connectors
        /\ [placements[j] EXCEPT !.section = 0] = [placements[k] EXCEPT !.section = 0]
        /\ \A i \in (j + 1)..(k - 1) :
              i \in Connectors
                \/ [placements[i] EXCEPT !.section = 0] # [placements[k] EXCEPT !.section = 0]}

Transited == UNION {{<<t.source, t.connector>>, <<t.target, t.connector>>} : t \in transitions}

(* Within a leaf: one after the other in a role, and foreground first.     *)
Sounding ==
    {<<j, k>> \in Placed \X Placed :
        /\ j < k /\ placements[j].section = placements[k].section
        /\ \/ Foreground(j) /\ ~Foreground(k)
           \/ Foreground(j) = Foreground(k) /\ k = j + 1}

Edges == UNION {Compared(r) : r \in relations} \cup Reused \cup Transited \cup Sounding

-----------------------------------------------------------------------------
(* root and join: of each placement the first of those it is joined with.  *)
Join(root, ks) ==
    LET roots == {root[k] : k \in ks}
    IN  [k \in DOMAIN root |-> IF root[k] \in roots THEN Earliest(roots) ELSE root[k]]

JoinNothing == [k \in Placed |-> k]                     \* faulty: targets may be split

JoinTargets ==
    FoldLeft(LAMBDA root, r : Join(root, RangeOf(r.target)),
             [k \in Placed |-> k],
             SetToSeq({r \in relations : r.kind = "section"}))

Arcs(edges, root) ==
    {<<root[e[1]], root[e[2]]>> : e \in {e \in edges : root[e[1]] # root[e[2]]}}

(* _strong_components: depth first with a stack, whose entries come back   *)
(* when all below them is finished.                                        *)
RECURSIVE Traverse(_, _, _)
Traverse(arcs, stack, found) ==
    IF stack = <<>> THEN found
    ELSE LET top == Last(stack)
             next == {k \in {a[2] : a \in {a \in arcs : a[1] = top.key}} :
                        k \notin found.visited \cup {top.key}}
             pushed == SetToSortSeq(next, >)
         IN  IF top.expanded THEN
                 Traverse(arcs, Front(stack), [found EXCEPT !.finished = Append(@, top.key)])
             ELSE IF top.key \in found.visited THEN Traverse(arcs, Front(stack), found)
             ELSE Traverse(arcs,
                           Front(stack) \o <<[key |-> top.key, expanded |-> TRUE]>>
                               \o [i \in DOMAIN pushed |-> [key |-> pushed[i], expanded |-> FALSE]],
                           [found EXCEPT !.visited = @ \cup {top.key}])

Finished(keys, arcs) ==
    FoldLeft(LAMBDA found, k : Traverse(arcs, <<[key |-> k, expanded |-> FALSE]>>, found),
             [visited |-> {}, finished |-> <<>>],
             SetToSortSeq(keys, <)).finished

(* And then backwards, from the last that was finished.                    *)
RECURSIVE Collect(_, _, _)
Collect(arcs, visited, component) ==
    LET more == {a[1] : a \in {a \in arcs : a[2] \in component}} \ (visited \cup component)
    IN  IF more = {} THEN component ELSE Collect(arcs, visited, component \cup more)

StrongComponents(keys, arcs) ==
    FoldLeft(LAMBDA components, k :
                 IF k \in UNION components THEN components
                 ELSE components \cup {Collect(arcs, UNION components, {k})},
             {}, Reverse(Finished(keys, arcs)))

Roots(edges) ==
    LET targets == JoinTargets
        keys == {targets[k] : k \in Placed}
    IN  FoldLeft(Join, targets, SetToSeq(StrongComponents(keys, Arcs(edges, targets))))

-----------------------------------------------------------------------------
(* The operations, each the first that is ready; 0 stands for the          *)
(* ValueError when none is.                                                *)
Operations(keys, arcs) ==
    LET ready(done) ==
            {k \in keys \ done : {a[1] : a \in {a \in arcs : a[2] = k}} \subseteq done}
    IN  FoldLeft(LAMBDA ops, i :
                     LET candidates == ready(ToSet(ops))
                     IN  Append(ops, IF candidates = {} THEN 0 ELSE Earliest(candidates)),
                 <<>>, SetToSeq(keys))

-----------------------------------------------------------------------------
(* What a script says of its placements: one is composed before another, or*)
(* both at once.                                                           *)
Together == UNION {RangeOf(r.target) \X RangeOf(r.target) :
                      r \in {r \in relations : r.kind = "section"}}

Longer(waits) ==
    waits \cup {<<x[1][1], x[2][2]>> : x \in {x \in waits \X waits : x[1][2] = x[2][1]}}

Waits(edges) == FoldLeft(LAMBDA waits, k : Longer(waits), edges \cup Together, placements)

(* A plan covers the script; two placements are one operation exactly if   *)
(* each has to wait for the other or both belong to the target of a section*)
(* variation; all else comes in the order in which it is compared, and as  *)
(* early as what it is compared with allows.                               *)
PlanIsRight ==
    Planned =>
        LET edges == Edges
            root == Roots(edges)
            arcs == Arcs(edges, root)
            ops == Operations({root[k] : k \in Placed}, arcs)
            at == [k \in Placed |-> CHOOSE i \in DOMAIN ops : ops[i] = root[k]]
            waits == Waits(edges)
        IN  /\ ToSet(ops) = {root[k] : k \in Placed}
            /\ \A j, k \in Placed :
                  root[j] = root[k] <=> j = k \/ {<<j, k>>, <<k, j>>} \subseteq waits
            /\ \A e \in edges : at[e[1]] <= at[e[2]]
            /\ \A i \in 2..Len(ops) : ops[i] < ops[i - 1] => <<ops[i - 1], ops[i]>> \in arcs
=============================================================================
