------------------------- MODULE PerformanceSchedule -------------------------
(***************************************************************************)
(* How the performance directions of a script become model operations:     *)
(* nodes without a direction get defaults, nodes with absolute directions  *)
(* one operation, and nodes with comparative directions wait in waves for  *)
(* what they are compared with (performance_operation_schedule_for_nodes). *)
(* Directions may be required as comparisons, which validation keeps free  *)
(* of contradictions (_check_requirement_references).                      *)
(***************************************************************************)
EXTENDS Naturals, Sequences, FiniteSets

CONSTANTS
    Parent,         \* of each node of the plan, in preorder; 0 above the root
    MaxDirections,  \* bound: directions of a script
    None

VARIABLE directions     \* with a target, what it is compared with, and how

vars == <<directions>>

Node == DOMAIN Parent

Direction ==
    [target : Node, reference : Node \cup {None}, relation : {"more", "less"}]

Init == directions = <<>>

(* Neither the waves nor whether the comparisons pass depends on the order *)
(* of the directions, so they come in the order of their targets.          *)
AddDirection ==
    /\ Len(directions) < MaxDirections
    /\ \E d \in Direction :
          /\ d.reference = None => d.relation = "more"
          /\ directions # <<>> => directions[Len(directions)].target <= d.target
          /\ directions' = Append(directions, d)

Spec == Init /\ [][AddDirection]_vars

-----------------------------------------------------------------------------
Above[n \in 0..Len(Parent)] == IF n = 0 THEN {} ELSE {Parent[n]} \cup Above[Parent[n]]

Comparative(d) == d.reference # None

(* _check_requirement_references: the comparisons, one after the other,    *)
(* each an edge from the lower to the higher section, none closing a cycle.*)
EdgeOf(d) ==
    IF d.relation = "more" THEN <<d.reference, d.target>> ELSE <<d.target, d.reference>>

(* What is closed under the edges and contains the one, contains the other.*)
HasPath(edges, from, to) ==
    \A closed \in SUBSET Node :
        from \in closed /\ (\A e \in edges : e[1] \in closed => e[2] \in closed) => to \in closed

Comparable(d) ==
    /\ d.target # d.reference
    /\ d.target \notin Above[d.reference] /\ d.reference \notin Above[d.target]

AddComparison(seen, d) ==
    LET e == EdgeOf(d)
    IN  IF Comparable(d) /\ ~HasPath(seen.edges, e[2], e[1])
        THEN [seen EXCEPT !.edges = @ \cup {e}]
        ELSE [seen EXCEPT !.issues = @ + 1]

(* What the check has seen after the first n directions.                   *)
Seen[n \in 0..Len(directions)] ==
    IF n = 0 THEN [edges |-> {}, issues |-> 0]
    ELSE IF Comparative(directions[n]) THEN AddComparison(Seen[n - 1], directions[n])
    ELSE Seen[n - 1]

Comparisons == Seen[Len(directions)]

(* Requirements that pass can all be met at once: the sections can be      *)
(* ranked as every one of them says.                                       *)
RequirementsCanBeMet ==
    Comparisons.issues = 0 =>
        \E rank \in [Node -> Node] :
            \A i \in DOMAIN directions :
                LET d == directions[i]
                IN  Comparative(d) =>
                        IF d.relation = "more" THEN rank[d.target] > rank[d.reference]
                        ELSE rank[d.target] < rank[d.reference]

-----------------------------------------------------------------------------
Directed == {directions[i].target : i \in DOMAIN directions}

References(n) ==
    {directions[i].reference : i \in {i \in DOMAIN directions : directions[i].target = n}} \ {None}

Defaults == Node \ Directed

Absolute == {n \in Directed : References(n) = {}}

(* _comparison_dependencies_for_nodes: the nodes under a reference, and    *)
(* all above these.                                                        *)
DependenciesWithout(r) == {r} \cup {n \in Node : r \in Above[n]}     \* faulty: nothing inherited

Dependencies(r) ==
    LET subtree == {r} \cup {n \in Node : r \in Above[n]}
    IN  subtree \cup ((UNION {Above[n] : n \in subtree}) \ {0})

WaitsFor(n) == UNION {Dependencies(r) : r \in References(n)}

Ready(n, available) == (WaitsFor(n) \cap Directed) \subseteq available

Turn(remaining, available) == {n \in remaining : Ready(n, available)}

(* The loop of the schedule after some rounds.  One in which nothing is    *)
(* ready, which raises the ValueError, and one too many leave it as it is. *)
Round[n \in 0..Len(Parent)] ==
    IF n = 0 THEN [remaining |-> Directed \ Absolute,
                   available |-> Defaults \cup Absolute, waves |-> <<>>]
    ELSE LET before == Round[n - 1]
             ready == Turn(before.remaining, before.available)
         IN  IF ready = {} THEN before
             ELSE [remaining |-> before.remaining \ ready,
                   available |-> before.available \cup ready,
                   waves |-> Append(before.waves, ready)]

(* Every round but the last settles a node: there are no more than nodes.  *)
Schedule == Round[Len(Parent)]

Waves == Schedule.waves

Scheduled == Schedule.remaining = {}

(* When a node is up, the performance of everything its references sound   *)
(* with, their own and inherited, has been settled before it               *)
(* (performance_read_keys finds nothing unsettled).                        *)
ComparedIsSettled ==
    Scheduled =>
        /\ UNION {Waves[i] : i \in DOMAIN Waves} = Directed \ Absolute
        /\ \A i \in DOMAIN Waves : \A n \in Waves[i] : \A r \in References(n) :
              \A m \in Node :
                  (m = r \/ r \in Above[m] \/ \E k \in Node : m \in Above[k] /\ (k = r \/ r \in Above[k]))
                      => m \in Defaults \cup Absolute \cup UNION {Waves[j] : j \in 1..(i - 1)}

(* No operation is asked for later than it has to be: each node waits for  *)
(* one of the wave just before.                                            *)
FewestWaves ==
    Scheduled =>
        \A i \in DOMAIN Waves : i > 1 =>
            \A n \in Waves[i] : WaitsFor(n) \cap Waves[i - 1] # {}

(* A script is refused for its directions only if some of them wait for    *)
(* each other in a circle.                                                 *)
RefusedMeansCircle ==
    ~Scheduled =>
        \E circle \in SUBSET (Directed \ Absolute) :
            circle # {} /\ \A n \in circle : WaitsFor(n) \cap circle # {}
=============================================================================
