--------------------------- MODULE BoundedModelCall ---------------------------
(***************************************************************************)
(* What one finite model operation promises the stage that calls it,       *)
(* however often the program is stopped and started again: a model is      *)
(* asked once, once more only when it did answer and the answer was no     *)
(* good, and the result is the last answer and a valid one.  A question    *)
(* whose answer was lost, or whose end is unknown, is never repeated.      *)
(***************************************************************************)
EXTENDS Naturals, Sequences

CONSTANTS
    Response,   \* the answers a model may give
    Valid,      \* those that pass every check
    None        \* no result yet

VARIABLES
    replies,    \* one entry for each question, oldest first
    result      \* the answer the caller receives

(* "pending": no end is known; "lost": there is no usable answer;          *)
(* "refused": the runner itself rejected the content of the answer.        *)
Reply == Response \cup {"pending", "lost", "refused"}

TypeOK ==
    /\ replies \in Seq(Reply)
    /\ result \in Valid \cup {None}

Init ==
    /\ replies = <<>>
    /\ result = None

Poor == (Response \ Valid) \cup {"refused"}

Ask ==
    /\ result = None
    /\ \/ replies = <<>>
       \/ Len(replies) = 1 /\ replies[1] \in Poor
    /\ replies' = Append(replies, "pending")
    /\ UNCHANGED result

Answer ==
    /\ replies # <<>>
    /\ replies[Len(replies)] = "pending"
    /\ \E r \in Reply \ {"pending"} :
          replies' = [replies EXCEPT ![Len(replies)] = r]
    /\ UNCHANGED result

Take ==
    /\ result = None
    /\ replies # <<>>
    /\ replies[Len(replies)] \in Valid
    /\ result' = replies[Len(replies)]
    /\ UNCHANGED replies

Next == Ask \/ Answer \/ Take

Spec == Init /\ [][Next]_<<replies, result>>
=============================================================================
