---------------------------- MODULE ScoreRendering ----------------------------
(***************************************************************************)
(* How a complete score is played (render_score_performance): the notes    *)
(* become strikes of piano keys in milliseconds, strikes of one key are    *)
(* merged or ended by the next, and the pedal follows the harmony.  Before *)
(* that, the sections of a script share the units of the score             *)
(* (allocate_score_units).  The curves that stretch time are left out: a   *)
(* leaf says how many milliseconds each of its units takes.  Of the tree   *)
(* only the leaves and the root are kept, of a velocity whether the note   *)
(* is accented.                                                            *)
(***************************************************************************)
EXTENDS Integers, Sequences, FiniteSets, SequencesExt, FiniteSetsExt

CONSTANTS
    Leaf,           \* leaves: [harmonies, steps, pedal]; harmonies: [at, length, identity],
                    \* steps: milliseconds of each unit, pedal: a profile or None
    Note,           \* notes: [at, length, pitch, role, accent]
    Setup,          \* of the root: [pedal, rolled, release, shared]
    MaxLeaves, MaxNotes,    \* bounds: leaves and notes of a score
    Depress,        \* from an attack to the pedal: 80 ms
    Early,          \* from the pedal's release to the end of a held part: 200 ms
    Spread,         \* of a rolled chord: 45 ms
    None

VARIABLES
    leaves,     \* [start, harmonies, length, pedal]; start in units
    clock,      \* the time map: the millisecond at which each unit starts or ends
    setup,
    notes       \* in the order of their names: [leaf, at, length, ...]

vars == <<leaves, clock, setup, notes>>

Init == leaves = <<>> /\ clock = <<0>> /\ notes = <<>> /\ setup \in Setup

AddLeaf ==
    /\ Len(leaves) < MaxLeaves /\ notes = <<>>
    /\ \E leaf \in Leaf :
          /\ leaves' = Append(leaves,
                [start |-> Len(clock) - 1, length |-> Len(leaf.steps),
                 harmonies |-> leaf.harmonies, pedal |-> leaf.pedal])
          /\ clock' = FoldLeft(LAMBDA c, ms : Append(c, Last(c) + ms), clock, leaf.steps)
    /\ UNCHANGED <<setup, notes>>

Upper(n) == n.role = "foreground"

(* One voice does not strike a key it still holds (_validate_score_materials).*)
Fits(n) ==
    \A m \in Range(notes) :
        m.leaf = n.leaf /\ m.pitch = n.pitch /\ m.role = n.role
            => m.at + m.length <= n.at \/ n.at + n.length <= m.at

AddNote ==
    /\ Len(notes) < MaxNotes
    /\ \E i \in DOMAIN leaves, n \in Note :
          LET new == [leaf |-> i] @@ n
          IN  /\ Fits(new)
              /\ notes # <<>> => Last(notes).leaf <= i
              /\ notes' = Append(notes, new)
    /\ UNCHANGED <<leaves, clock, setup>>

Next == AddLeaf \/ AddNote

-----------------------------------------------------------------------------
(* Nearest integer, the even one of two.                                   *)
Rounded(n, d) ==
    LET q == n \div d
        r == n % d
    IN  IF 2 * r > d \/ (2 * r = d /\ q % 2 = 1) THEN q + 1 ELSE q

(* allocate_score_units: each section ends at its rounded share of the     *)
(* whole.  Without room it raises a ScoreCapacityError.                    *)
Share(weights, k) == FoldLeft(+, 0, SubSeq(weights, 1, k))

Ends(weights, total) ==
    [k \in DOMAIN weights |-> Rounded(total * Share(weights, k), Share(weights, Len(weights)))]

Lengths(weights, total) ==
    LET ends == Ends(weights, total)
    IN  [k \in DOMAIN weights |-> ends[k] - (IF k = 1 THEN 0 ELSE ends[k - 1])]

HasRoom(weights, total) == \A k \in DOMAIN weights : Lengths(weights, total)[k] > 0

(* The sections fill the score, none is off its share by more than a unit, *)
(* and there is room whenever each is due more than one.                   *)
AllocationIsFair(weights, total) ==
    LET whole == Share(weights, Len(weights))
        lengths == Lengths(weights, total)
        Due(k) == total * weights[k]                    \* in units, times whole
    IN  /\ weights # <<>> => Share(lengths, Len(weights)) = total
        /\ \A k \in DOMAIN weights : lengths[k] * whole - Due(k) \in -whole..whole
        /\ (\A k \in DOMAIN weights : Due(k) > whole) => HasRoom(weights, total)

-----------------------------------------------------------------------------
Time(u) == clock[u + 1]

Target == Last(clock)

EndOf(leaf) == leaf.start + leaf.length

(* resolve_effective_profile: the leaf's own choice or else the root's.    *)
PedalOf(i) ==
    IF leaves[i].pedal # None THEN [owner |-> i, profile |-> leaves[i].pedal]
    ELSE [owner |-> 0, profile |-> setup.pedal]

HarmoniesOf(leaf) ==
    [k \in DOMAIN leaf.harmonies |->
        LET h == leaf.harmonies[k]
        IN  [from |-> leaf.start + h.at, to |-> leaf.start + h.at + h.length,
             identity |-> h.identity]]

-----------------------------------------------------------------------------
(* The ending that foreground and accompaniment share: where the last      *)
(* attack is and how long what sounds then is held (derive_terminal_       *)
(* boundary), and the scores it is accepted for (validate_terminal_notes). *)
FinalNotes == {n \in DOMAIN notes : notes[n].leaf = Len(leaves)}

Leading ==
    LET foreground == {n \in FinalNotes : notes[n].role = "foreground"}
    IN  IF foreground # {} THEN foreground ELSE FinalNotes

EndUnit(n) == notes[n].at + notes[n].length

TerminalAttack == Max({notes[n].at : n \in Leading})

Sustains(n) == notes[n].at <= TerminalAttack /\ TerminalAttack < EndUnit(n)

TerminalEnd == Max({EndUnit(n) : n \in {n \in Leading : Sustains(n)}})

SharesTerminal ==
    /\ TerminalAttack >= Last(Last(leaves).harmonies).at
    /\ \A n \in FinalNotes : notes[n].at <= TerminalAttack /\ EndUnit(n) <= TerminalEnd
    /\ LET support == {n \in FinalNotes : notes[n].role = "accompaniment"}
       IN  support # {} => \E n \in support : Sustains(n) /\ EndUnit(n) = TerminalEnd

Renderable ==
    /\ leaves # <<>>
    /\ \A i \in DOMAIN leaves : \E n \in DOMAIN notes : notes[n].leaf = i
    /\ setup.shared => SharesTerminal

(* The notes that are held to the shared end.                              *)
Kept(n) ==
    setup.shared /\ n \in FinalNotes /\ Sustains(n) /\ EndUnit(n) = TerminalEnd

-----------------------------------------------------------------------------
(* A rolled chord is struck key by key, the lower voice first              *)
(* (_coordination_offsets).                                                *)
RollOf(n) ==
    LET chord == {m \in DOMAIN notes : notes[m].leaf = notes[n].leaf /\ notes[m].at = notes[n].at}
        keys == {notes[m].pitch : m \in chord}
        High(k) == \A m \in chord : notes[m].pitch = k => Upper(notes[m])
        Below(k, l) == IF High(k) = High(l) THEN k < l ELSE High(l)
    IN  IF ~ setup.rolled THEN 0
        ELSE Rounded(Spread * Cardinality({k \in keys : Below(k, notes[n].pitch)}),
                     Max({1, Cardinality(keys) - 1}))

Onset(n) == Time(leaves[notes[n].leaf].start + notes[n].at) + RollOf(n)

Mapped(n) == Time(leaves[notes[n].leaf].start + EndUnit(n)) - Onset(n)

(* The last attack of a score without a shared ending keeps its release.   *)
KeepsRelease(n) ==
    \/ Kept(n)
    \/ /\ ~ setup.shared /\ n \in FinalNotes
       /\ notes[n].at = Max({notes[m].at : m \in FinalNotes})
       /\ EndUnit(n) = Last(leaves).length

Ratio == 90         \* _gate_ratio of a note without articulation, in percent

Gated(n) ==
    IF Kept(n) \/ Mapped(n) <= 0 THEN Mapped(n)
    ELSE Rounded(Mapped(n) * Ratio * (IF KeepsRelease(n) THEN 100 ELSE setup.release), 10000)

Candidate(n) ==
    [at |-> Onset(n), duration |-> Max({1, Gated(n)}), pitch |-> notes[n].pitch,
     accent |-> notes[n].accent]

(* What integrated timing refuses: an interval, a harmony or a note that is*)
(* lost to the resolution; a terminal strike without its end always is.    *)
TimeIsLost(integrated) ==
    \/ /\ integrated
       /\ \/ \E leaf \in Range(leaves) :
                \/ Time(EndOf(leaf)) <= Time(leaf.start)
                \/ \E h \in Range(HarmoniesOf(leaf)) : Time(h.to) <= Time(h.from)
          \/ \E n \in DOMAIN notes : Mapped(n) <= 0 \/ Gated(n) <= 0
    \/ \E n \in DOMAIN notes : Kept(n) /\ Mapped(n) <= 0

-----------------------------------------------------------------------------
(* _merge_simultaneous_key_strikes, _end_notes_before_restrike.            *)
Struck(candidates) ==
    {[at |-> c.at, pitch |-> c.pitch,
      sources |-> {n \in DOMAIN candidates :
                     candidates[n].at = c.at /\ candidates[n].pitch = c.pitch}]
        : c \in Range(candidates)}

Clashes(candidates) ==
    \E s \in Struck(candidates) : Cardinality({candidates[n].accent : n \in s.sources}) > 1

Merged(candidates) ==
    {[at |-> s.at, pitch |-> s.pitch, sources |-> s.sources,
      duration |-> Max({candidates[n].duration : n \in s.sources})] : s \in Struck(candidates)}

Later(strikes, s) == {r.at : r \in {r \in strikes : r.pitch = s.pitch /\ r.at > s.at}}

EndedByNext(strikes) ==
    {[s EXCEPT !.duration = Min({@} \cup {at - s.at : at \in Later(strikes, s)})] : s \in strikes}

Played(candidates) == EndedByNext(Merged(candidates))

-----------------------------------------------------------------------------
(* _render_attack_aware_pedals: one span for each harmony under a pedal; a *)
(* phrase held over equal harmonies is one.                                *)
SpansOf(i) ==
    [k \in DOMAIN leaves[i].harmonies |-> PedalOf(i) @@ HarmoniesOf(leaves[i])[k]]

Holds(span, h) ==
    /\ h.profile = "phrase_legato"
    /\ span.owner = h.owner /\ span.profile = h.profile /\ span.identity = h.identity
    /\ span.to = h.from

AddSpan(spans, h) ==
    IF h.profile = "none" THEN spans
    ELSE IF spans # <<>> /\ Holds(Last(spans), h)
    THEN [spans EXCEPT ![Len(spans)].to = h.to]
    ELSE Append(spans, h)

Spans == Range(FoldLeft(AddSpan, <<>>, FlattenSeq([i \in DOMAIN leaves |-> SpansOf(i)])))

Attacks(candidates, span) ==
    {c.at : c \in {c \in Range(candidates) : Time(span.from) <= c.at /\ c.at < Time(span.to)}}

DownLate(candidates, span) ==                           \* faulty: may miss the harmony
    Min(Attacks(candidates, span)) + Depress

DownAt(candidates, span) == Min({Min(Attacks(candidates, span)) + Depress, Time(span.to) - 1})

Pedalled(candidates) == {span \in Spans : Attacks(candidates, span) # {}}

PedalIsLost(candidates) ==
    \E span \in Pedalled(candidates) : DownAt(candidates, span) <= Min(Attacks(candidates, span))

FinalUp == [at |-> Target, down |-> FALSE]

AwarePedals(candidates) ==
    {[at |-> DownAt(candidates, span), down |-> TRUE] : span \in Pedalled(candidates)}
    \cup {[at |-> Time(span.to), down |-> FALSE] : span \in Spans} \cup {FinalUp}

(* _render_legacy_pedals: a held part is one, however its harmony changes. *)
AddPart(parts, i) ==
    LET part == PedalOf(i) @@ [from |-> leaves[i].start, to |-> EndOf(leaves[i]), leaf |-> leaves[i]]
    IN  IF /\ parts # <<>> /\ part.profile # "harmony_legato"
           /\ Last(parts).owner = part.owner /\ Last(parts).profile = part.profile
        THEN [parts EXCEPT ![Len(parts)].to = part.to]
        ELSE Append(parts, part)

Parts == Range(FoldLeft(AddPart, <<>>, [i \in DOMAIN leaves |-> i]))

(* When the pedal is put down and lifted.                                  *)
HoldsOf(part) ==
    LET harmonies == HarmoniesOf(part.leaf)
        start == Time(part.from)
    IN  CASE part.profile = "none" -> {}
          [] part.profile = "harmony_legato" ->
                {[down |-> IF k = 1 THEN Time(harmonies[k].from)
                           ELSE Min({Time(harmonies[k].to) - 1, Time(harmonies[k].from) + Depress}),
                  up |-> Time(harmonies[k].to)] : k \in DOMAIN harmonies}
          [] OTHER -> {[down |-> start, up |-> Max({start, Time(part.to) - Early})]}

LegacyHolds == UNION {HoldsOf(part) : part \in Parts}

LegacyPedals ==
    {[at |-> h.down, down |-> TRUE] : h \in LegacyHolds}
    \cup {[at |-> h.up, down |-> FALSE] : h \in LegacyHolds} \cup {FinalUp}

(* Whether the pedal is down after the events up to a time; of one time the*)
(* ones that lift it come first.                                           *)
IsDown(pedals, t) ==
    LET past == {e \in pedals : e.at <= t}
    IN  \E e \in past : e.down /\ \A f \in past : f.at <= e.at

-----------------------------------------------------------------------------
(* validate_rendered_performance: the sources of the strikes are the notes,*)
(* once each, and no key sounds twice.                                     *)
CoversNotes(strikes) ==
    /\ \A n \in DOMAIN notes : Cardinality({s \in strikes : n \in s.sources}) = 1
    /\ \A s \in strikes : s.sources # {} /\ s.duration > 0

KeysAreFree(strikes) ==
    \A s, r \in strikes : s.pitch = r.pitch /\ s.at < r.at => s.at + s.duration <= r.at

(* _validate_rendered_terminal: every strike of a terminal note lasts to   *)
(* the shared end or the key's next strike, the last one to the end, and   *)
(* the pedal is not lifted in between.                                     *)
TerminalMs == Time(Last(leaves).start + TerminalEnd)

IsTerminal(s) == \E n \in s.sources : Kept(n)

HoldsEnd(candidates, strikes) ==
    /\ \A n \in DOMAIN notes : Kept(n) => candidates[n].at + candidates[n].duration = TerminalMs
    /\ \A s \in strikes :
          IsTerminal(s) => s.at + s.duration = Min({TerminalMs} \cup Later(strikes, s))

EndsShort(strikes) ==
    \E s \in strikes :
        /\ Later(strikes, s) = {}
        /\ \E r \in strikes : IsTerminal(r) /\ r.pitch = s.pitch
        /\ s.at + s.duration # TerminalMs

LiftsEarly(candidates, pedals) ==
    LET attack == Min({candidates[n].at :
                        n \in {n \in FinalNotes : notes[n].at = TerminalAttack}})
    IN  \/ \E e \in pedals :
              ~ e.down /\ attack < e.at /\ e.at < TerminalMs /\ IsDown(pedals, e.at - 1)
        \/ IsDown(pedals, Target)

(* What rendering ends with: a performance, the refusal of what cannot be  *)
(* played (UNREPRESENTABLE), or a check that finds the rendering wrong.    *)
Outcome(candidates, integrated) ==
    LET strikes == Played(candidates)
    IN  IF TimeIsLost(integrated) \/ PedalIsLost(candidates) \/ Clashes(candidates)
        THEN "unrepresentable"
        ELSE IF ~ CoversNotes(strikes) \/ ~ KeysAreFree(strikes) THEN "wrong"
        ELSE IF ~ setup.shared THEN "rendered"
        ELSE IF ~ HoldsEnd(candidates, strikes) THEN "wrong"
        ELSE IF EndsShort(strikes) THEN "unrepresentable"
        ELSE IF LiftsEarly(candidates, AwarePedals(candidates)) THEN "wrong"
        ELSE "rendered"

-----------------------------------------------------------------------------
(* In a performance the pedal is up when the first attack of a harmony     *)
(* sounds, is put down after it, and is held to just the harmony's end.    *)
PedalFollowsHarmony(candidates) ==
    LET pedals == AwarePedals(candidates)
        Down(t) == \E span \in Pedalled(candidates) :
                      DownAt(candidates, span) <= t /\ t < Time(span.to)
    IN  /\ \A t \in 0..Target : IsDown(pedals, t) <=> Down(t)
        /\ \A span \in Pedalled(candidates) : ~ Down(Min(Attacks(candidates, span)))

(* A score that was accepted is played or refused as unplayable, with      *)
(* either timing: rendering never trips over its own checks.               *)
PlaysOrRefuses ==
    Renderable =>
        LET candidates == [n \in DOMAIN notes |-> Candidate(n)]
        IN  \A integrated \in BOOLEAN :
              LET outcome == Outcome(candidates, integrated)
              IN  /\ outcome # "wrong"
                  /\ outcome = "rendered" => PedalFollowsHarmony(candidates)

(* The pedal of older performances is down just while it is held, unless a *)
(* part is too short to be lifted before its end.                          *)
LegacyPedalIsLifted ==
    leaves # <<>> /\ notes = <<>> /\ (\A h \in LegacyHolds : h.down < h.up) =>
        \A t \in 0..Target :
            IsDown(LegacyPedals, t) <=> \E h \in LegacyHolds : h.down <= t /\ t < h.up
=============================================================================
