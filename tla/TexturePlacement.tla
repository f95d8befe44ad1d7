--------------------------- MODULE TexturePlacement ---------------------------
(***************************************************************************)
(* How the events of an accompaniment, of which a model has chosen degree  *)
(* and register, get their pitches beside a given foreground: by a search  *)
(* over onsets that remembers what failed (place_piano_texture_v4), by the *)
(* greedy choices it grew from (v3) and the fallbacks grown around it      *)
(* (v5 to v8); and by the plain search over events of the score run        *)
(* (score_group_pitch_placement, and phase5_pitch_placement before it).    *)
(*                                                                         *)
(* An event is its place in the list, which is sorted by onset; registers  *)
(* are bass, low, middle and high in this order.                           *)
(***************************************************************************)
EXTENDS Integers, Sequences, FiniteSets, SequencesExt, FiniteSetsExt

CONSTANTS
    Event,      \* events: [at, length, degree, zone, harmony, layer]
    Melody,     \* foregrounds: [notes, upper], notes of [at, length, pitch]
    Harmony,    \* sequence of [at, length, root, intervals]
    Allowed,    \* pitch ranges that may be allowed, <<lowest, highest>>
    Budget,     \* how many candidates a search may evaluate
    MaxEvents,  \* bound: events
    MaxJoint,   \* bound: events of which the plain search is looked at
    None

VARIABLES
    events,
    foreground,
    allowed, budget

vars == <<events, foreground, allowed, budget>>

tune == foreground.notes

upper == foreground.upper

Bounds ==
    << [low |-> 21, high |-> 47, centre |-> 36], [low |-> 36, high |-> 59, centre |-> 48],
       [low |-> 48, high |-> 71, centre |-> 60], [low |-> 60, high |-> 108, centre |-> 72] >>

Bass == 1
Low == 2
Middle == 3
High == 4

End(n) == n.at + n.length

Overlap(m, n) == m.at < End(n) /\ n.at < End(m)

(* An event lies in its harmony and names a degree of it (_validate_texture*)
(* and the contract of an answer).                                         *)
IsEvent(e) ==
    LET h == Harmony[e.harmony]
    IN  h.at <= e.at /\ End(e) <= End(h) /\ e.degree \in DOMAIN h.intervals

Init ==
    /\ events = <<>> /\ foreground \in Melody
    /\ allowed \in Allowed /\ budget \in Budget

AddEvent ==
    /\ Len(events) < MaxEvents
    /\ \E e \in Event :
          /\ IsEvent(e)
          /\ events # <<>> => \/ Last(events).at < e.at
                              \/ Last(events).at = e.at /\ Last(events).layer <= e.layer
          /\ events' = Append(events, e)
    /\ UNCHANGED <<foreground, allowed, budget>>

-----------------------------------------------------------------------------
(* Below C3 the lowest two sounds are a fifth apart.                       *)
Spaced(pitches) ==
    Cardinality(pitches) >= 2 /\ Min(pitches) < 48
        => Min(pitches \ {Min(pitches)}) - Min(pitches) >= 7

SoundingAt(notes, t) == {n.pitch : n \in {n \in notes : n.at <= t /\ t < End(n)}}

(* low_spacing_violations is 0.                                            *)
SpacedThroughout(notes) ==
    \A t \in {n.at : n \in notes} \cup {End(n) : n \in notes} : Spaced(SoundingAt(notes, t))

PitchClass(e) == (Harmony[e.harmony].root + Harmony[e.harmony].intervals[e.degree]) % 12

Candidates(e, zone) ==
    {p \in Max({Bounds[zone].low, allowed[1]})..Min({Bounds[zone].high, allowed[2]}) :
        p % 12 = PitchClass(e)}

(* itertools.product: all ways of taking one of each, in order.            *)
Product(options) ==
    FoldLeft(LAMBDA ways, choice :
                FlattenSeq([w \in DOMAIN ways |->
                    [c \in DOMAIN choice |-> Append(ways[w], choice[c])]]),
             << <<>> >>, options)

Ascending(S) == SelectSeq([p \in 1..109 |-> p - 1], LAMBDA p : p \in S)

(* The events of each onset.                                               *)
Groups(evs) ==
    LET onsets == Ascending({e.at : e \in Range(evs)})
    IN  [g \in DOMAIN onsets |->
            SelectSeq([k \in DOMAIN evs |-> evs[k] @@ [event |-> k]],
                      LAMBDA e : e.at = onsets[g])]

(* With flexible zones an event in bass or low may also go one up.         *)
Zones(e, flexible) ==
    IF flexible /\ e.zone \in {Bass, Low} THEN <<e.zone, e.zone + 1>> ELSE <<e.zone>>

Ways(group, flexible) ==
    FlattenSeq(
        LET ways == Product([k \in DOMAIN group |-> Zones(group[k], flexible)])
        IN  [w \in DOMAIN ways |->
                Product([k \in DOMAIN group |->
                    LET pitches == Ascending(Candidates(group[k], ways[w][k]))
                    IN  [p \in DOMAIN pitches |-> [zone |-> ways[w][k], pitch |-> pitches[p]]]])])

Pitches(choice) == {c.pitch : c \in Range(choice)}

(* _valid_assignment.                                                      *)
Valid(group, choice, history) ==
    /\ \A k \in DOMAIN group, f \in tune :
          Overlap(f, group[k]) =>
              IF upper THEN choice[k].pitch < f.pitch ELSE choice[k].pitch > f.pitch
    /\ \A k \in DOMAIN group, n \in history :
          n.pitch = choice[k].pitch => ~ Overlap(n, group[k])
    /\ Cardinality(Pitches(choice)) = Len(choice)
    /\ Spaced(SoundingAt(history, group[1].at) \cup Pitches(choice))

(* What is sounding is struck again, and ends there.                       *)
Restruck(placed, choice, onset) ==
    {n \in placed : n.pitch \in Pitches(choice) /\ n.at < onset /\ onset < End(n)}

Strike(placed, group, choice) ==
    LET onset == group[1].at
        again == Restruck(placed, choice, onset)
    IN  (placed \ again) \cup {[n EXCEPT !.length = onset - n.at] : n \in again}
        \cup {[event |-> group[k].event, at |-> onset, length |-> group[k].length,
               pitch |-> choice[k].pitch, zone |-> choice[k].zone] : k \in DOMAIN group}

-----------------------------------------------------------------------------
Before(a, b) == \E k \in DOMAIN a : a[k] < b[k] /\ \A j \in 1..(k - 1) : a[j] = b[j]

Distance(p, q) == Max({p - q, q - p})

Movement(from, to) ==
    IF from = {} \/ to = {} THEN 0
    ELSE LET Nearest(p, S) == Min({Distance(p, q) : q \in S})
         IN  MapThenSumSet(LAMBDA p : Nearest(p, to), from)
                 + MapThenSumSet(LAMBDA p : Nearest(p, from), to)

(* The lowest sound is the root or the fifth, or not low.                  *)
SafeLowest(group, choice) ==
    LET k == CHOOSE k \in DOMAIN choice : choice[k].pitch = Min(Pitches(choice))
    IN  choice[k].pitch >= 48
        \/ (choice[k].pitch - Harmony[group[k].harmony].root) % 12 \in {0, 7}

(* What is preferred, in this order: registers as asked for, few and short *)
(* cuts (_rearticulation_cost), and the rest of _assignment_rank.          *)
Rank(placed, group, choice, previous) ==
    LET again == Restruck(placed, choice, group[1].at)
        pitches == [k \in DOMAIN choice |-> choice[k].pitch]
        zones == [k \in DOMAIN choice |-> choice[k].zone]
    IN  << Cardinality({k \in DOMAIN group : zones[k] # group[k].zone}),
           Cardinality(again), MapThenSumSet(LAMBDA n : End(n) - group[1].at, again),
           IF SafeLowest(group, choice) THEN 0 ELSE 1,
           Movement(previous, Pitches(choice)),
           FoldLeft(LAMBDA sum, c : sum + Distance(c.pitch, Bounds[c.zone].centre), 0, choice),
           Max(Pitches(choice)) - Min(Pitches(choice)) >> \o pitches \o zones

Ranked(placed, group, choices, previous) ==
    SortSeq([c \in DOMAIN choices |->
                [choice |-> choices[c], rank |-> Rank(placed, group, choices[c], previous)]],
            LAMBDA a, b : Before(a.rank, b.rank))

(* The choices that _valid_assignment admits, the best one first.          *)
ValidChoices(placed, group, previous, flexible) ==
    FoldLeft(LAMBDA sofar, ranked : Append(sofar, ranked.choice), <<>>,
             Ranked(placed, group,
                    SelectSeq(Ways(group, flexible),
                        LAMBDA c : Valid(group, c, placed \ Restruck(placed, c, group[1].at))),
                    previous))

Result(status, notes, count) == [status |-> status, notes |-> notes, count |-> count]

-----------------------------------------------------------------------------
(* place_piano_texture_v3: at every onset the best choice, for good.       *)
GreedyStep(sofar, group) ==
    IF sofar.status # "placed" THEN sofar
    ELSE LET valid == ValidChoices(sofar.notes, group, sofar.previous, FALSE)
         IN  IF valid # <<>>
             THEN [sofar EXCEPT !.notes = Strike(@, group, valid[1]),
                                !.previous = Pitches(valid[1])]
             ELSE [sofar EXCEPT !.notes = {},
                    !.status = IF \E c \in Range(Ways(group, FALSE)) : Valid(group, c, {})
                               THEN "greedy_unplaceable" ELSE "constraint_unplaceable"]

Greedy(evs) ==
    FoldLeft(GreedyStep, [status |-> "placed", notes |-> {}, previous |-> {}], Groups(evs))

-----------------------------------------------------------------------------
(* Before the search each onset is tried alone; the rigid search stops at  *)
(* the first choice that is valid, the flexible one tries them all.        *)
LocalStep(flexible, sofar, group) ==
    IF sofar.status # "placed" THEN sofar
    ELSE LET choices == Ways(group, flexible)
             valid == {c \in DOMAIN choices : Valid(group, choices[c], {})}
             tried == IF valid = {} \/ flexible THEN Len(choices) ELSE Min(valid)
         IN  IF sofar.count + tried > budget THEN Result("search_exhausted", {}, budget)
             ELSE Result(IF valid = {} THEN "constraint_unplaceable" ELSE "placed",
                         {}, sofar.count + tried)

(* A faulty variant, for the mutation runs: what sounds is left out.       *)
KeyOfOnset(i, placed, previous, onset) == <<i, previous>>

(* What the rest of a search depends on, when it is remembered as failed.  *)
KeyOf(i, placed, previous, onset) ==
    <<i, previous, {[event |-> n.event, pitch |-> n.pitch, at |-> n.at, end |-> End(n)]
                        : n \in {n \in placed : onset < End(n)}}>>

(* found is the placement once there is one; a spent search ends.          *)
Settled(memo) == memo.found # None \/ memo.spent

Remembered(memo, key) ==
    IF Settled(memo) THEN memo ELSE [memo EXCEPT !.failed = @ \cup {key}]

RECURSIVE Search(_, _, _, _, _, _)
Search(groups, flexible, i, placed, previous, memo) ==
    IF i > Len(groups)
    THEN IF SpacedThroughout(tune \cup placed) THEN [memo EXCEPT !.found = placed] ELSE memo
    ELSE LET group == groups[i]
             key == KeyOf(i, placed, previous, group[1].at)
             tried == Len(Ways(group, flexible))
             Follow(m, choice) ==
                IF Settled(m) THEN m
                ELSE Search(groups, flexible, i + 1, Strike(placed, group, choice),
                            Pitches(choice), m)
         IN  IF key \in memo.failed THEN memo
             ELSE IF memo.count + tried > budget
             THEN [memo EXCEPT !.count = budget, !.spent = TRUE]
             ELSE Remembered(FoldLeft(Follow, [memo EXCEPT !.count = @ + tried],
                                      ValidChoices(placed, group, previous, flexible)),
                             key)

Outcome(memo) ==
    Result(CASE memo.spent -> "search_exhausted"
             [] memo.found # None -> "placed"
             [] OTHER -> "search_unplaceable",
           IF memo.found = None THEN {} ELSE memo.found, memo.count)

Searched(groups, flexible, local) ==
    IF local.status # "placed" THEN local
    ELSE Outcome(Search(groups, flexible, 1, {}, {},
                    [failed |-> {}, count |-> local.count, spent |-> FALSE, found |-> None]))

(* place_piano_texture_v4, and _place_piano_texture_v7_search.             *)
Placement(evs, flexible) ==
    Searched(Groups(evs), flexible,
        FoldLeft(LAMBDA sofar, g : LocalStep(flexible, sofar, g),
                 Result("placed", {}, 0), Groups(evs)))

-----------------------------------------------------------------------------
(* The fallbacks: a run is what has been found, of which events and with   *)
(* which registers, and what it took, the searches before it included.     *)
Unplaceable == {"constraint_unplaceable", "search_unplaceable"}

Asked(evs, flexible) == [events |-> evs, flexible |-> flexible]

Run(asked, before) ==
    [Placement(asked.events, asked.flexible) EXCEPT !.count = before + @] @@ asked

(* Away from a low foreground that sounds at the same time.                *)
MovedOut(evs) ==
    [k \in DOMAIN evs |->
        IF evs[k].zone # High /\ \E f \in tune : f.pitch < 48 /\ Overlap(f, evs[k])
        THEN [evs[k] EXCEPT !.zone = @ + 1] ELSE evs[k]]

(* Away from a bass of the same harmony without a fifth's room above it.   *)
Crowded(evs, k) ==
    /\ evs[k].zone = Low
    /\ \E b \in Range(evs) :
          /\ b.zone = Bass /\ b.harmony = evs[k].harmony /\ Overlap(b, evs[k])
          /\ Candidates(b, Bass) # {} /\ Candidates(evs[k], Low) # {}
          /\ \A p \in Candidates(b, Bass), q \in Candidates(evs[k], Low) : q - p < 7

MovedUp(evs) ==
    [k \in DOMAIN evs |-> IF Crowded(evs, k) THEN [evs[k] EXCEPT !.zone = Middle] ELSE evs[k]]

(* What place_piano_texture_v5 to v8, each of which starts with the one    *)
(* before, ask for after its run.                                          *)
Fifth(evs, run) ==
    IF run.status \in Unplaceable /\ ~ upper /\ MovedOut(evs) # evs
    THEN Asked(MovedOut(evs), FALSE) ELSE None

Sixth(evs, run) ==
    IF run.status \in Unplaceable /\ upper /\ MovedUp(evs) # evs
    THEN Asked(MovedUp(evs), FALSE) ELSE None

Seventh(evs, run) ==
    IF run.status = "constraint_unplaceable" /\ upper THEN Asked(evs, TRUE) ELSE None

Eighth(evs, run) ==
    IF run.status = "search_unplaceable" /\ ~ run.flexible /\ upper
    THEN Asked(evs, TRUE) ELSE None

Further(evs, run, version) ==
    LET asked == CASE version = 5 -> Fifth(evs, run)   [] version = 6 -> Sixth(evs, run)
                   [] version = 7 -> Seventh(evs, run) [] version = 8 -> Eighth(evs, run)
    IN  IF asked = None THEN run ELSE Run(asked, run.count)

Runs(evs) ==
    FoldLeft(LAMBDA runs, version : Append(runs, Further(evs, Last(runs), version)),
             << Run(Asked(evs, FALSE), 0) >>, <<5, 6, 7, 8>>)

-----------------------------------------------------------------------------
(* All complete placements, by definition.                                 *)
Reachable(evs, flexible) ==
    FoldLeft(LAMBDA reached, group :
                UNION {{Strike(p, group, c) :
                            c \in {c \in Range(Ways(group, flexible)) :
                                Valid(group, c, p \ Restruck(p, c, group[1].at))}} : p \in reached},
             {{}}, Groups(evs))

Complete(evs, flexible) == {p \in Reachable(evs, flexible) : SpacedThroughout(tune \cup p)}

IsPlacement(run) ==
    run.status = "placed" => run.notes \in Complete(run.events, run.flexible)

(* A search says there is no placement only if there is none, unless one   *)
(* that reached the end was turned down there.                             *)
UnplaceableIsExact(run) ==
    run.status = "search_unplaceable"
        /\ Reachable(run.events, run.flexible) = Complete(run.events, run.flexible)
            => Complete(run.events, run.flexible) = {}

(* Where the greedy choices end well, the search makes them too, if it may.*)
KeepsGreedyChoice(run, greedy) ==
    greedy.status = "placed" /\ SpacedThroughout(tune \cup greedy.notes)
        => run.status = "search_exhausted" \/ run.notes = greedy.notes

(* "no complete pitch assignment exists within the search space" is what   *)
(* place_piano_texture_v4 says of a texture its search has refused.        *)
UnplaceableMeansNone ==
    events # <<>> /\ Placement(events, FALSE).status = "search_unplaceable"
        => Complete(events, FALSE) = {}

RunsAreRight(runs) ==
    /\ \A run \in Range(runs) : IsPlacement(run) /\ UnplaceableIsExact(run)
    /\ KeepsGreedyChoice(runs[1], Greedy(events))
    /\ runs[5].count <= 3 * budget

(* What a search places satisfies every constraint, what it refuses at the *)
(* end cannot be placed, and it keeps to the greedy choices it grew from;  *)
(* and none of the fallbacks takes more than two searches after the first  *)
(* (place_piano_texture_v4 to v8).                                         *)
TextureIsPlaced == events # <<>> => RunsAreRight(Runs(events))

-----------------------------------------------------------------------------
(* The search of the score run: event by event, all layers of a unit       *)
(* together (_place_unit; phase5_pitch_placement has one layer).  The      *)
(* layers are of one voice here, and the foreground of another.            *)
JointCandidates(e, preferred) ==
    {p \in (IF preferred THEN Bounds[e.zone].low..Bounds[e.zone].high ELSE 21..108) :
        p % 12 = PitchClass(e)}

JointRank(placed, e, pitch) ==
    LET latest == SelectSeq(placed, LAMBDA n : n.at = Last(placed).at)
    IN  << IF pitch \in JointCandidates(e, TRUE) THEN 0 ELSE 1,
           IF placed = <<>> THEN 0 ELSE Distance(pitch, latest[1].pitch),
           Distance(pitch, Bounds[e.zone].centre),
           IF pitch < 48 /\ e.degree \notin {1, 3} THEN 1 ELSE 0, pitch >>

(* A note of the same layer that sounds is ended where it is struck again. *)
JointStrike(placed, e, pitch) ==
    Append([k \in DOMAIN placed |->
                IF /\ placed[k].layer = e.layer /\ placed[k].pitch = pitch
                   /\ placed[k].at < e.at /\ e.at < End(placed[k])
                THEN [placed[k] EXCEPT !.length = e.at - placed[k].at] ELSE placed[k]],
           [at |-> e.at, length |-> e.length, pitch |-> pitch, layer |-> e.layer])

Clear(m, n) ==
    Overlap(m, n) =>
        /\ m.pitch # n.pitch
        /\ Min({m.pitch, n.pitch}) < 48 => Distance(m.pitch, n.pitch) >= 7

(* _constraints_hold.                                                      *)
ConstraintsHold(placed) ==
    /\ \A k \in DOMAIN placed, f \in tune : Clear(placed[k], f)
    /\ \A k, l \in DOMAIN placed : k < l => Clear(placed[k], placed[l])

RECURSIVE JointSearch(_, _, _, _)
JointSearch(evs, preferred, placed, memo) ==
    IF Len(placed) = Len(evs) THEN [memo EXCEPT !.found = placed]
    ELSE LET e == evs[Len(placed) + 1]
             pitches == JointCandidates(e, preferred)
             ranked == SortSeq(Ascending(pitches), LAMBDA p, q :
                            Before(JointRank(placed, e, p), JointRank(placed, e, q)))
             Try(m, pitch) ==
                LET extended == JointStrike(placed, e, pitch)
                IN  IF Settled(m) THEN m
                    ELSE IF m.count >= budget THEN [m EXCEPT !.spent = TRUE]
                    ELSE LET counted == [m EXCEPT !.count = @ + 1]
                         IN  IF ConstraintsHold(extended)
                             THEN JointSearch(evs, preferred, extended, counted)
                             ELSE counted
         IN  FoldLeft(Try, memo, ranked)

JointPlacement(evs) ==
    LET Hopeless(preferred) == \E e \in Range(evs) : JointCandidates(e, preferred) = {}
        none == [found |-> None, count |-> 0, spent |-> FALSE]
        first == IF Hopeless(TRUE) THEN none ELSE JointSearch(evs, TRUE, <<>>, none)
        second == IF first.found # None \/ first.spent \/ Hopeless(FALSE) THEN first
                  ELSE JointSearch(evs, FALSE, <<>>, first)
    IN  [status |-> IF second.found # None THEN "placed"
                    ELSE IF second.spent THEN "search_limit_reached" ELSE "constraint_unplaceable",
         notes |-> second.found, count |-> second.count]

(* All ways of placing the events whatever happens in between.             *)
JointComplete(evs, preferred) ==
    {p \in FoldLeft(LAMBDA reached, e :
                UNION {{JointStrike(p, e, pitch) : pitch \in JointCandidates(e, preferred)}
                            : p \in reached}, {<<>>}, evs) :
        ConstraintsHold(p)}

Cut(evs, placed) == \E k \in DOMAIN evs : placed[k].length < evs[k].length

JointIsRight(joint, complete, preferred) ==
    /\ joint.status = "placed" => joint.notes \in complete
    /\ joint.status = "placed" /\ (\E p \in preferred : ~ Cut(events, p))
            => joint.notes \in preferred
    /\ joint.status = "constraint_unplaceable" => \A p \in complete : Cut(events, p)
    /\ joint.count <= budget

(* The plain search finds a placement in the registers asked for if there  *)
(* is one, and is only wrong to give up about placements in which an event *)
(* is cut short by one struck later (place_score_group_accompaniment_events)*)
JointIsExact ==
    Len(events) <= MaxJoint =>
        JointIsRight(JointPlacement(events),
                     JointComplete(events, FALSE), JointComplete(events, TRUE))
=============================================================================
