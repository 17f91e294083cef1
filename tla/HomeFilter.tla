------------------------------ MODULE HomeFilter ------------------------------
(***************************************************************************)
(* The home page of the recategoriser, asked for with filters: the list of *)
(* those due is made, and what the filters need is asked of other services *)
(* in batches, two services side by side.  The allocation manager's        *)
(* answers are kept in the memory of the server, those of the risks and    *)
(* needs service in redis, for some hours.                                 *)
(*                                                                         *)
(* Who is on the list before it is filtered is in ToDoLists.  What         *)
(* prisoner search says does not change while a page is made.              *)
(***************************************************************************)
EXTENDS Integers, FiniteSets

CONSTANTS
    Prisoners,    \* on the list
    Crns,         \* records of the probation service
    Offender,     \* the prisoner each of them is about
    Batch,        \* bound: calls of a kind in flight at once
    PomHours,     \* how long the allocation manager's answers are kept
    RiskHours     \* how long those of the risks and needs service are

ASSUME OffenderAssumption == Offender \in [Crns -> Prisoners]
ASSUME BatchAssumption == Batch \in Nat \ {0}
ASSUME HoursAssumption == PomHours \in Nat \ {0} /\ RiskHours \in Nat \ {0}

VARIABLES
    filters,      \* the filters of the page
    development,  \* it is the page that knows of recalls
    entry,        \* what the list and prisoner search say of each prisoner
    mine,         \* whether the user is the prisoner's offender manager
    charged,      \* whether the prisoner has recent adjudications
    low,          \* whether the risk of serious harm of a record is low
    steady,       \* history: for how many hours this has been so
    poms,         \* cache: answers of the allocation manager
    scores,       \* cache: answers of the risks and needs service
    page          \* the page being made

filterVars == <<filters, development, entry, mine, charged, low, steady,
                poms, scores, page>>
-----------------------------------------------------------------------------
SearchFilters == { "lowRiskOfEscape", "noCurrentTerrorismOffences",
    "noRotlRestrictionsOrSuspensions", "notMarkedAsNotForRelease",
    "standardOrEnhancedIncentiveLevel", "timeLeftToServeBetween12WeeksAnd3Years" }

Filters == SearchFilters \cup
    {"overdue", "reviewsAssignedToMe", "lowRosh", "noAdjudicationsInTheLastThreeMonths"}

Entry == [ fits      : SUBSET SearchFilters,  \* those the search data pass
           manual    : BOOLEAN,   \* a row of `form` only: NOMIS has it not due
           due       : BOOLEAN,   \* the next review is in the past
           recall    : {"none", "earlier", "later", "unknown"},
                       \* before or after the last assessment; no prison period
           recallDue : BOOLEAN ]  \* ten days after the recall are past

\* Calls of one kind: those in flight, those to come, what was found.
Chain(S) == [asked : SUBSET S, todo : SUBSET S, found : SUBSET S]
NoCalls == [asked |-> {}, todo |-> {}, found |-> {}]

Page == [ stage      : {"none", "poms", "filter", "further", "shown", "failed"},
          poms       : Chain(Prisoners),
          hearings   : Chain(Prisoners),
          matched    : BOOLEAN,            \* probation search has answered
          scores     : Chain(Crns),
          candidates : SUBSET Prisoners,   \* left by the first filters
          shown      : SUBSET Prisoners ]

NoPage == [ stage |-> "none", poms |-> NoCalls, hearings |-> NoCalls,
            matched |-> FALSE, scores |-> NoCalls, candidates |-> {}, shown |-> {} ]

Life(f) == CASE f = "reviewsAssignedToMe" -> PomHours
             [] f = "lowRosh"             -> RiskHours
             [] OTHER                     -> 1

Hours == 0..(IF PomHours > RiskHours THEN PomHours ELSE RiskHours)

\* What is said of p has been so for as long as answers are kept.
Lasted(p) == \A f \in filters : steady[p] >= Life(f)

FilterTypeOK ==
    /\ filters \in SUBSET Filters /\ development \in BOOLEAN
    /\ entry \in [Prisoners -> Entry]
    /\ mine \in [Prisoners -> BOOLEAN] /\ charged \in [Prisoners -> BOOLEAN]
    /\ low \in [Crns -> BOOLEAN]
    /\ steady \in [Prisoners -> Hours]
    /\ poms \in [Prisoners -> [mine : BOOLEAN, left : 0..PomHours]]
    /\ scores \in [Crns -> [low : BOOLEAN, left : 0..RiskHours]]
    /\ page \in Page

FilterInit ==
    /\ filters \in SUBSET Filters /\ development \in BOOLEAN
    /\ entry \in [Prisoners -> Entry]
    /\ mine = [p \in Prisoners |-> FALSE]
    /\ charged = [p \in Prisoners |-> FALSE]
    /\ low = [c \in Crns |-> FALSE]
    /\ steady = [p \in Prisoners |-> 0]
    /\ poms = [p \in Prisoners |-> [mine |-> FALSE, left |-> 0]]
    /\ scores = [c \in Crns |-> [low |-> FALSE, left |-> 0]]
    /\ page = NoPage
-----------------------------------------------------------------------------
(* Calls in batches: the next batch begins when the last has been answered. *)

Batches(S) == { b \in SUBSET S : IF Cardinality(S) <= Batch THEN b = S
                                 ELSE Cardinality(b) = Batch }

\* The calls for S, after `found` was found: the first batch is in flight.
Calls(S, found) == { [asked |-> b, todo |-> S \ b, found |-> found] : b \in Batches(S) }

\* A slip: those of the batch that are not answered yet are not waited for.
MutantAnswered(calls, x, found) == Calls(calls.todo, found)

\* After the answer to x.
Answered(calls, x, found) ==
    IF calls.asked = {x} THEN Calls(calls.todo, found)
    ELSE {[calls EXCEPT !.asked = @ \ {x}, !.found = found]}

With(found, x, holds) == IF holds THEN found \cup {x} ELSE found
-----------------------------------------------------------------------------
Loading == page.stage \in {"poms", "filter", "further"}

\* GET /recategoriserHome: everybody's offender manager is asked for first.
Ask ==
    /\ page.stage = "none"
    /\ \E calls \in Calls(Prisoners, {}) :
          page' = [NoPage EXCEPT !.stage = IF calls.asked = {} THEN "filter" ELSE "poms",
                                 !.poms = calls]
    /\ UNCHANGED <<filters, development, entry, mine, charged, low, steady, poms, scores>>

\* What the page is told of p, and what is kept: a kept answer; that of the
\* allocation manager; or "nobody" when that fails (status 500), which is kept
\* as well.
PomTold(p, told) ==
    \/ /\ poms[p].left > 0 /\ told = poms[p].mine
       /\ UNCHANGED <<poms, steady>>
    \/ /\ poms[p].left = 0
       /\ poms' = [poms EXCEPT ![p] = [mine |-> told, left |-> PomHours]]
       /\ \/ told = mine[p] /\ UNCHANGED steady
          \/ ~told /\ steady' = [steady EXCEPT ![p] = 0]

\* getPomByOffenderNo.
PomAnswer(p) ==
    /\ page.stage = "poms" /\ p \in page.poms.asked
    /\ \E told \in BOOLEAN :
          /\ PomTold(p, told)
          /\ \E calls \in Answered(page.poms, p, With(page.poms.found, p, told)) :
                page' = [page EXCEPT !.poms = calls,
                                     !.stage = IF calls.asked = {} THEN "filter" ELSE @]
    /\ UNCHANGED <<filters, development, entry, mine, charged, low, scores>>

\* The list of recalled prisoners has p, with the day of the recall.
Recalled(p) == development /\ entry[p].recall # "none"

\* The `overdue` filter: a recall counts, whenever it was; and a row of `form`
\* has no date of a review.
FilterOverdue(p) == IF Recalled(p) THEN entry[p].recallDue
                    ELSE entry[p].due /\ ~entry[p].manual

\* The mark on the list: only a recall after the last assessment counts.
MarkedOverdue(p) == IF Recalled(p) /\ entry[p].recall = "later"
                    THEN entry[p].recallDue ELSE entry[p].due

\* The filters that need nothing further, but the one above.
PassesOthers(p) ==
    /\ filters \cap SearchFilters \subseteq entry[p].fits
    /\ "reviewsAssignedToMe" \in filters => p \in page.poms.found

PassesFirst(p) == PassesOthers(p) /\ ("overdue" \in filters => FilterOverdue(p))

\* NOMIS had no prison period for the recall: reading its date is an error.
Unread(p) == "overdue" \in filters /\ Recalled(p) /\ entry[p].recall = "unknown"

\* filterListOfPrisoners, until it asks further.  Each prisoner meets the
\* filters in the order they were chosen, so that another filter may come
\* before the date that cannot be read.
FirstFilters ==
    /\ page.stage = "filter"
    /\ \A p \in Prisoners : Unread(p) => ~PassesOthers(p)
    /\ LET left == {p \in Prisoners : PassesFirst(p)}
       IN  \E hearings \in IF "noAdjudicationsInTheLastThreeMonths" \in filters
                           THEN Calls(left, {}) ELSE {NoCalls} :
              page' = [page EXCEPT !.stage = "further", !.candidates = left,
                                   !.hearings = hearings,
                                   !.matched = "lowRosh" \notin filters]
    /\ UNCHANGED <<filters, development, entry, mine, charged, low, steady, poms, scores>>

\* getAdjudications.
HearingsAnswer(p) ==
    /\ page.stage = "further" /\ p \in page.hearings.asked
    /\ \E calls \in Answered(page.hearings, p,
                             With(page.hearings.found, p, charged[p])) :
          page' = [page EXCEPT !.hearings = calls]
    /\ UNCHANGED <<filters, development, entry, mine, charged, low, steady, poms, scores>>

\* matchPrisoners: the records of those left (none, when it knows none).
Match ==
    /\ page.stage = "further" /\ ~page.matched
    /\ \E calls \in Calls({c \in Crns : Offender[c] \in page.candidates}, {}) :
          page' = [page EXCEPT !.matched = TRUE, !.scores = calls]
    /\ UNCHANGED <<filters, development, entry, mine, charged, low, steady, poms, scores>>

\* What the page is told of c: a kept answer, or the service's, which is kept;
\* no summary, and one that may not be seen, are answers too.
ScoreTold(c, told) ==
    \/ scores[c].left > 0 /\ told = scores[c].low /\ UNCHANGED scores
    \/ /\ scores[c].left = 0 /\ told = low[c]
       /\ scores' = [scores EXCEPT ![c] = [low |-> told, left |-> RiskHours]]

\* getRisksSummary.
ScoreAnswer(c) ==
    /\ page.stage = "further" /\ c \in page.scores.asked
    /\ \E told \in BOOLEAN :
          /\ ScoreTold(c, told)
          /\ \E calls \in Answered(page.scores, c, With(page.scores.found, c, told)) :
                page' = [page EXCEPT !.scores = calls]
    /\ UNCHANGED <<filters, development, entry, mine, charged, low, steady, poms>>

\* Both have been answered.
Show ==
    /\ page.stage = "further" /\ page.matched
    /\ page.hearings.asked = {} /\ page.scores.asked = {}
    /\ page' = [NoPage EXCEPT !.stage = "shown", !.shown =
          {p \in page.candidates :
              /\ p \notin page.hearings.found
              /\ "lowRosh" \in filters => \E c \in page.scores.found : Offender[c] = p}]
    /\ UNCHANGED <<filters, development, entry, mine, charged, low, steady, poms, scores>>

\* One call fails, in a way that is not an answer, or a date cannot be read:
\* the error page is shown instead.
CallFails ==
    /\ \/ page.poms.asked \cup page.hearings.asked \cup page.scores.asked # {}
       \/ page.stage = "further" /\ ~page.matched
       \/ page.stage = "filter" /\ \E p \in Prisoners : Unread(p)
    /\ page' = [NoPage EXCEPT !.stage = "failed"]
    /\ UNCHANGED <<filters, development, entry, mine, charged, low, steady, poms, scores>>

\* An hour passes, in which no page is made: kept answers grow older.
Hour ==
    /\ ~Loading
    /\ page' = NoPage
    /\ steady' = [p \in Prisoners |-> IF Lasted(p) THEN steady[p] ELSE steady[p] + 1]
    /\ poms' = [p \in Prisoners |-> [poms[p] EXCEPT !.left = IF @ = 0 THEN 0 ELSE @ - 1]]
    /\ scores' = [c \in Crns |-> [scores[c] EXCEPT !.left = IF @ = 0 THEN 0 ELSE @ - 1]]
    /\ UNCHANGED <<filters, development, entry, mine, charged, low>>

\* What the services would answer of p changes.
Change(p) ==
    /\ \/ /\ "reviewsAssignedToMe" \in filters
          /\ mine' = [mine EXCEPT ![p] = ~@] /\ UNCHANGED <<charged, low>>
       \/ /\ "noAdjudicationsInTheLastThreeMonths" \in filters
          /\ charged' = [charged EXCEPT ![p] = ~@] /\ UNCHANGED <<mine, low>>
       \/ /\ "lowRosh" \in filters
          /\ \E c \in Crns : Offender[c] = p /\ low' = [low EXCEPT ![c] = ~@]
          /\ UNCHANGED <<mine, charged>>
    /\ steady' = [steady EXCEPT ![p] = 0]
    /\ UNCHANGED <<filters, development, entry, poms, scores, page>>

FilterNext ==
    \/ Ask \/ FirstFilters \/ Match \/ Show \/ CallFails \/ Hour
    \/ \E p \in Prisoners : PomAnswer(p) \/ HearingsAnswer(p) \/ Change(p)
    \/ \E c \in Crns : ScoreAnswer(c)

FilterSpec == FilterInit /\ [][FilterNext]_filterVars
-----------------------------------------------------------------------------
\* What the services say of p, and whether p is to be shown.
Wanted(p) ==
    /\ filters \cap SearchFilters \subseteq entry[p].fits
    /\ "overdue" \in filters => MarkedOverdue(p)
    /\ "reviewsAssignedToMe" \in filters => mine[p]
    /\ "noAdjudicationsInTheLastThreeMonths" \in filters => ~charged[p]
    /\ "lowRosh" \in filters => \E c \in Crns : Offender[c] = p /\ low[c]

\* What is said of p has lasted, and the two readings of `overdue` do not differ.
Settled(p) ==
    /\ Lasted(p)
    /\ "overdue" \in filters => ~(entry[p].manual \/ entry[p].recall = "earlier")

\* A page that is shown lists exactly those who pass every filter chosen, as far
\* as what is said of them has been so for as long as answers are kept.
ShownAreWanted ==
    page.stage = "shown" => \A p \in Prisoners :
        Settled(p) => (p \in page.shown <=> Wanted(p))
=============================================================================
