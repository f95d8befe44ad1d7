-------------------------- MODULE MCDocumentStorage --------------------------
(***************************************************************************)
(* The documents beside each other: flows and scripts that are edited and  *)
(* saved (DocumentStorage), the runs that draft them (TwoCallRun) and the  *)
(* results that are renamed into place (RenamedBundle).  A behaviour is    *)
(* one of these.  Processes, files, identifiers, texts and temporary names *)
(* are interchangeable.                                                    *)
(***************************************************************************)
EXTENDS DocumentStorage, TLC

CONSTANT Temp

VARIABLES
    working,
    document, attempts, ticket, record, draft, final, entered, step, number, first, second,
    target, temporary, pcB, doingB, at, stopped

Drafts == INSTANCE TwoCallRun

Bundles == INSTANCE RenamedBundle WITH pc <- pcB, doing <- doingB

drafts == <<document, attempts, ticket, record, draft, final, entered, step, number, first, second>>

ASSUME AbsentResultAssumption == None \notin Bundles!Bundle

ASSUME AbsentAnswerAssumption ==
    None \notin Drafts!Response \cup Drafts!Replacements \cup Drafts!Ticket \cup Drafts!Final

results == <<target, temporary, pcB, doingB, at, stopped>>

WorkInit ==
    /\ working \in {"documents", "drafts", "results"}
    /\ Init /\ Drafts!TwoCallInit /\ Bundles!BundleInit
    /\ working # "drafts" => document = "flow"

WorkOnDocuments == working = "documents" /\ Next /\ UNCHANGED <<working, drafts, results>>

WorkOnDrafts ==
    working = "drafts" /\ Drafts!TwoCallNext /\ UNCHANGED <<working, vars, results>>

WorkOnResults ==
    working = "results" /\ Bundles!BundleNext /\ UNCHANGED <<working, vars, drafts>>

WorkNext == WorkOnDocuments \/ WorkOnDrafts \/ WorkOnResults

WorkSpec == WorkInit /\ [][WorkNext]_<<working, vars, drafts, results>>

Symmetry ==
    Permutations(Process) \cup Permutations(Path) \cup Permutations(Id)
        \cup Permutations(Text) \cup Permutations(Temp)

(* What is in place is complete and comes from a success that is in place, *)
(* and nobody reports what is not its own (RenamedBundle).                 *)
BundlesHold == Bundles!BundlesHold

(* A stored document is approved only as its content is (DocumentStorage); *)
(* a saved draft is what the model answered, repaired where it was asked to*)
(* be, and the final record agrees with it (TwoCallRun).                   *)
DocumentsFit == TypeOK /\ ApprovalsFit /\ Drafts!ProposalsHold

(* An approved document is never changed, and what a process has read and  *)
(* edited is never saved over the edit of another (DocumentStorage).       *)
EditsAreKept == ApprovedIsFinal /\ NoEditIsLost

(* No result in place is ever replaced (os.replace of a directory), and a  *)
(* run that was stopped, or has ended, gets nothing more.                  *)
ResultsStay == Bundles!BundlesAreFinal /\ Drafts!RunsAreLeft
=============================================================================
