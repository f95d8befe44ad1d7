--------------------------- MODULE ScriptStructure ---------------------------
(***************************************************************************)
(* The section tree of a script: how it is normalised from the list a      *)
(* model answers with (proposal), what check accepts (validation), in      *)
(* which order its leaves are performed (validation, projection), and the  *)
(* order in which the scenes of a flow must name them (script_compilation).*)
(*                                                                         *)
(* A section is its place in the list; parent and order are its fields.    *)
(* Section 1 is the root_section_id; 0 stands for no parent.               *)
(***************************************************************************)
EXTENDS Naturals, Sequences, FiniteSets, SequencesExt

CONSTANTS
    MaxSections,    \* bound: sections of a script
    MaxEdits        \* bound: patches of orders afterwards

VARIABLES
    parent, order,  \* of each section
    edits

vars == <<parent, order, edits>>

Section == DOMAIN parent
Root == 1
NoParent == 0

-----------------------------------------------------------------------------
(* _sections: the order of a section among those with its parent.          *)
NextOrder(p) == Cardinality({s \in Section : parent[s] = p})

Init == parent = <<>> /\ order = <<>> /\ edits = 0

(* A parent may be named before its own section, or not exist at all.      *)
AddSection ==
    /\ Len(parent) < MaxSections /\ edits = 0
    /\ \E p \in 0..MaxSections :
          /\ parent' = Append(parent, p)
          /\ order' = Append(order, NextOrder(p))
    /\ UNCHANGED edits

(* A patch gives one or two sections another order (patch_document).       *)
EditOrder ==
    /\ edits < MaxEdits
    /\ \E s, t \in Section, o, q \in 0..(MaxSections - 2) :
          order' = [order EXCEPT ![s] = o, ![t] = q]
    /\ edits' = edits + 1
    /\ UNCHANGED parent

Next == AddSection \/ EditOrder

Spec == Init /\ [][Next]_vars

-----------------------------------------------------------------------------
(* _check_section_tree.                                                    *)
Children(s) ==
    SetToSortSeq({c \in Section : parent[c] = s},
                 LAMBDA c, d : order[c] < order[d] \/ (order[c] = order[d] /\ c < d))

Marks == [s \in Section |-> "new"]

(* visit: from a section upwards, until one seen before.                   *)
RECURSIVE Visit(_, _)
Visit(found, s) ==
    LET entered == [found EXCEPT !.mark[s] = "visiting"]
        up == parent[s]
        left == IF up \notin Section THEN entered
                ELSE CASE entered.mark[up] = "visiting" -> [entered EXCEPT !.cycle = TRUE]
                       [] entered.mark[up] = "new" -> Visit(entered, up)
                       [] entered.mark[up] = "done" -> entered
    IN  [left EXCEPT !.mark[s] = "done"]

HasSelfParent == \E s \in Section : parent[s] = s        \* faulty: only the smallest cycle

HasCycle ==
    FoldLeft(LAMBDA found, s : IF found.mark[s] = "new" THEN Visit(found, s) ELSE found,
             [mark |-> Marks, cycle |-> FALSE],
             [s \in Section |-> s]).cycle

OrdersFrom(s) ==
    LET listed == SetToSortSeq({c \in Section : parent[c] = s}, <)
    IN  SortSeq([i \in DOMAIN listed |-> order[listed[i]]], <)

CheckPasses ==
    /\ Root \in Section
    /\ \A s \in Section :
          /\ s = Root <=> parent[s] = NoParent
          /\ parent[s] \in Section \cup {NoParent}
          /\ \A i \in DOMAIN OrdersFrom(s) : OrdersFrom(s)[i] = i - 1
    /\ ~HasCycle

(* What a script is: an ordered tree under its root.                       *)
Up[n \in Nat] == [s \in Section |->
    IF n = 0 \/ parent[s] \notin Section THEN s ELSE Up[n - 1][parent[s]]]

IsOrderedTree ==
    /\ Root \in Section /\ parent[Root] = NoParent
    /\ \A s \in Section : Up[Len(parent)][s] = Root
    /\ \A s \in Section :
          LET among == {c \in Section : parent[c] = s}
          IN  {order[c] : c \in among} = 0..(Cardinality(among) - 1)

(* check accepts the ordered trees and nothing else.                       *)
CheckIsExact == CheckPasses <=> IsOrderedTree

(* A normalised answer can be wrong in its parents, never in its orders.   *)
NormalisedOrdersAgree ==
    edits = 0 => \A s \in Section : \A i \in DOMAIN OrdersFrom(s) : OrdersFrom(s)[i] = i - 1

-----------------------------------------------------------------------------
(* record_span, and visit of _prepare_nodes: depth first.                  *)
RECURSIVE Preorder(_)
Preorder(s) == <<s>> \o FlattenSeq([i \in DOMAIN Children(s) |-> Preorder(Children(s)[i])])

IsLeaf(s) == Children(s) = <<>>

Leaves(s) == SelectSeq(Preorder(s), IsLeaf)

LeafIndex(s) == CHOOSE i \in DOMAIN Leaves(Root) : Leaves(Root)[i] = s

Span(s) == [first |-> LeafIndex(Head(Leaves(s))), last |-> LeafIndex(Last(Leaves(s)))]

(* The sections above a section, and itself.                               *)
Above(s) == {Up[n][s] : n \in 0..Len(parent)}

(* One section is performed before another if, where their paths part, it  *)
(* belongs to the earlier sibling.                                         *)
Earlier(s, t) ==
    \E x \in Above(s), y \in Above(t) :
        x # y /\ parent[x] = parent[y] /\ order[x] < order[y]

(* The spans that variations, transitions and plans are checked against    *)
(* are the order of performance.                                           *)
SpansAreThePerformance ==
    CheckPasses =>
        \A s, t \in Section :
            /\ Earlier(s, t) <=> Span(s).last < Span(t).first
            /\ s \in Above(t) => Span(s).first <= Span(t).first /\ Span(t).last <= Span(s).last

(* Sources before targets (_check_temporal_variation_order): whatever is   *)
(* derived from one another this way can be composed in one pass.          *)
MayDerive(source, target) == Span(source).last < Span(target).first

DerivationsHaveNoCycle ==
    CheckPasses =>
        \A s, t \in Section :
            MayDerive(s, t) =>
                /\ ~MayDerive(t, s) /\ s \notin Above(t) /\ t \notin Above(s)
                /\ \A u \in Section : MayDerive(t, u) => MayDerive(s, u)

-----------------------------------------------------------------------------
(* _mapping_issues: the sections that the scenes must name, in this order. *)
OrderedLeaves ==
    SetToSortSeq({s \in Section : IsLeaf(s)},
                 LAMBDA s, t :
                    LET key(x) == <<IF parent[x] = NoParent THEN 0 ELSE 1, order[x], x>>
                    IN  \E i \in 1..3 :
                            /\ key(s)[i] < key(t)[i]
                            /\ \A j \in 1..(i - 1) : key(s)[j] = key(t)[j])

(* Leaves of one section are mapped in the order of performance; those of  *)
(* different sections need not be (_mapping_issues).                       *)
SiblingsAreMappedInOrder ==
    CheckPasses =>
        \A i, j \in DOMAIN OrderedLeaves :
            i < j /\ parent[OrderedLeaves[i]] = parent[OrderedLeaves[j]]
                => Earlier(OrderedLeaves[i], OrderedLeaves[j])
=============================================================================
