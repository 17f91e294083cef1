-------------------------- MODULE CategoriserPages --------------------------
(***************************************************************************)
(* The pages of a categoriser: a categorisation is either a first one      *)
(* (InitialPages) or a recategorisation (RecatPages).  Both kinds have a   *)
(* record of the same shape, with the form and its status, and the same    *)
(* tabs; what only one kind has does not change with the other.            *)
(***************************************************************************)
EXTENDS Integers

CONSTANTS Tabs, Changes, Varied, MaxReturns

ASSUME MaxReturnsAssumption == MaxReturns \in Nat

VARIABLES
    catType,                                                  \* the kind
    person, doc, status, message, tabs, submitted, returns,   \* of both kinds
    live, profile, asked,                                     \* of a first one
    said, reviews                                             \* of a recategorisation

pageVars == <<catType, person, doc, status, message, tabs, submitted, returns,
              live, profile, asked, said, reviews>>

Initial == INSTANCE InitialPages
Recat == INSTANCE RecatPages

NotInitial == live = {} /\ profile = {} /\ asked = FALSE
NotRecat == said = "none" /\ reviews = FALSE

PagesInit ==
    \/ catType = "INITIAL" /\ Initial!Init /\ NotRecat
    \/ catType = "RECAT" /\ Recat!Init /\ NotInitial

PagesNext ==
    /\ \/ catType = "INITIAL" /\ Initial!Next /\ UNCHANGED <<said, reviews>>
       \/ catType = "RECAT" /\ Recat!Next /\ UNCHANGED <<live, profile, asked>>
    /\ UNCHANGED catType

PagesSpec == PagesInit /\ [][PagesNext]_pageVars
-----------------------------------------------------------------------------
PagesTypeOK ==
    /\ catType = "INITIAL" => Initial!TypeOK
    /\ catType = "RECAT" => Recat!TypeOK

\* There are no two tabs.
OneTab == \A t, u \in DOMAIN tabs : t = u

\* A categorisation is submitted with every page that its tasklist asks for: a
\* first one that was made in one tab, a recategorisation in any number
\* (tasklist.html, tasklistRecat.html, allSectionsCompleted).
SubmittedWhole ==
    /\ catType = "INITIAL" /\ OneTab => Initial!SubmittedWhole
    /\ catType = "RECAT" => Recat!RecatWhole

\* Nothing stays in it that its page has hidden, but for the text about other
\* relevant information in a recategorisation's risk assessment, which stays
\* under an answer No; and, in one tab, no higher security review whose decision
\* was changed (clearConditionalFields, recat.js).
NothingLeftOver ==
    /\ catType = "INITIAL" => Initial!HiddenDropped
    /\ catType = "RECAT" => Recat!RecatHidden /\ (OneTab => Recat!NoNeedlessReview)

\* Every page of a first categorisation can be answered so that it is saved.
Answerable == catType = "INITIAL" => Initial!Answerable

\* The suggested category follows from the answers and the facts that were
\* shown in the tab (computeSuggestedCat).
SuggestionFollows == catType = "INITIAL" /\ OneTab => Initial!SuggestionFollows

\* No recategorisation is submitted that security has not reviewed.
SecurityReviewed == catType = "RECAT" => Recat!SecurityReviewed
=============================================================================
