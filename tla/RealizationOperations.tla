------------------------ MODULE RealizationOperations ------------------------
(***************************************************************************)
(* What the operations of a version 1 realization read and write           *)
(* (realization_operations.py, solo_piano_performance.py), for the         *)
(* materials, transitions and performance directions of a script.          *)
(***************************************************************************)
EXTENDS Naturals, Sequences, FiniteSets

CONSTANTS
    Ordinary,           \* materials with a melody of their own
    Connecting,         \* materials of kind "transition"
    EndingMaterial,     \* the material of kind "ending"
    Previous,           \* the ordinary material before the ending
    Transition,         \* transitions, and of each of them ...
    Source, Target,     \* ... the ordinary materials it lies between ...
    Connector,          \* ... and the material it is played with
    Node,               \* sections that can be given a performance
    Plays,              \* of each node: the materials and transitions in it
    Directed,           \* the nodes with a performance direction
    Compared            \* of each directed node: those it is compared with

Kind == {"plan", "harmonies", "melodies", "transition_melodies",
         "accompaniments", "transition_accompaniments", "performances"}

Plan == <<"plan", "plan">>

Keys(kind, targets) == {kind} \X targets

ScriptKey ==
    {Plan}
    \cup Keys("harmonies", Ordinary \cup Connecting \cup {EndingMaterial})
    \cup Keys("melodies", Ordinary \cup {EndingMaterial})
    \cup Keys("transition_melodies", Transition)
    \cup Keys("accompaniments", Ordinary \cup {EndingMaterial})
    \cup Keys("transition_accompaniments", Transition)
    \cup Keys("performances", Node)

EndingKeys ==
    {"harmonies", "melodies", "accompaniments"} \X {EndingMaterial}

MelodyReads(m) == {Plan, <<"harmonies", m>>}

TransitionMelodyReads(t) ==
    {Plan, <<"harmonies", Connector[t]>>,
     <<"melodies", Source[t]>>, <<"melodies", Target[t]>>}

AccompanimentReads(m) == {Plan, <<"harmonies", m>>, <<"melodies", m>>}

TransitionAccompanimentReads(t) ==
    {Plan, <<"harmonies", Connector[t]>>, <<"transition_melodies", t>>,
     <<"accompaniments", Source[t]>>, <<"accompaniments", Target[t]>>}

EndingReads == {Plan, <<"melodies", Previous>>}

(* The score of what is played in a section.                               *)
ScoreKeys(n) ==
    UNION {IF p \in Transition
           THEN {<<"harmonies", Connector[p]>>, <<"transition_melodies", p>>,
                 <<"transition_accompaniments", p>>}
           ELSE {"harmonies", "melodies", "accompaniments"} \X {p} : p \in Plays[n]}

(* The sections here have no subsections: a comparison reads one node.     *)
PerformanceReads(n) ==
    IF n \in Directed
    THEN {Plan} \cup UNION {ScoreKeys(c) : c \in Compared[n] \cup {n}}
                \cup Keys("performances", Compared[n])
    ELSE {Plan}

ScriptReads ==
    [k \in ScriptKey |->
        CASE k[1] = "plan" -> {Plan}
          [] k \in EndingKeys -> EndingReads
          [] k[1] = "harmonies" /\ k \notin EndingKeys -> {Plan}
          [] k[1] = "melodies" /\ k \notin EndingKeys -> MelodyReads(k[2])
          [] k[1] = "transition_melodies" -> TransitionMelodyReads(k[2])
          [] k[1] = "accompaniments" /\ k \notin EndingKeys -> AccompanimentReads(k[2])
          [] k[1] = "transition_accompaniments" -> TransitionAccompanimentReads(k[2])
          [] k[1] = "performances" -> PerformanceReads(k[2])]

Absolute == {n \in Directed : Compared[n] = {}}

(* Nodes whose comparisons are settled when those in available are.        *)
Ready(available) ==
    {n \in Directed \ available : Compared[n] \cap Directed \subseteq available}

(* The waves of comparative nodes, one more than there can be.             *)
Available ==
    LET after[i \in 0..Cardinality(Node)] ==
          IF i = 0 THEN (Node \ Directed) \cup Absolute
          ELSE after[i - 1] \cup Ready(after[i - 1])
    IN  after

Waves == {Available[i] \ Available[i - 1] : i \in 1..Cardinality(Node)} \ {{}}

ScriptOperation ==
    {{Plan},
     Keys("harmonies", Ordinary \cup Connecting),
     Keys("melodies", Ordinary),
     Keys("transition_melodies", Transition),
     Keys("accompaniments", Ordinary),
     Keys("transition_accompaniments", Transition),
     EndingKeys,
     Keys("performances", Node \ Directed)}
    \cup {Keys("performances", w) : w \in ({Absolute} \cup Waves) \ {{}}}

(* The ending also wants every other harmony, for the common grid.         *)
ScriptNeeds ==
    [op \in ScriptOperation |->
        ((UNION {ScriptReads[k] : k \in op}) \ {Plan})
        \cup (IF op = {Plan} THEN {} ELSE {Plan})
        \cup (IF op = EndingKeys THEN Keys("harmonies", Ordinary \cup Connecting) ELSE {})]

=============================================================================
