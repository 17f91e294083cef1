--------------------------- MODULE HomeFilterProofs ---------------------------
(***************************************************************************)
(* Proofs about HomeFilter: a page that is shown lists exactly those who   *)
(* pass the filters chosen, for every number of prisoners, records, calls  *)
(* in flight and hours, as far as what is said of a prisoner has lasted.   *)
(*                                                                         *)
(* A kept answer may be old.  The hours it still has and those for which   *)
(* the truth has stood add up to more than its life only when the answer   *)
(* was asked for since: such an answer is the truth.                       *)
(***************************************************************************)
EXTENDS HomeFilter, FiniteSetTheorems, TLAPS

\* Those of whom what is said has lasted, and what is said of them.
Sure == {p \in Prisoners : Lasted(p)}
Mine == {p \in Prisoners : mine[p]}
Charged == {p \in Prisoners : charged[p]}
LowRecords == {c \in Crns : low[c]}
RecordsOf(S) == {c \in Crns : Offender[c] \in S}

\* An answer that was asked for since what it tells has been so.
PomsKept == \A p \in Prisoners :
    poms[p].left > 0 /\ steady[p] + poms[p].left > PomHours => poms[p].mine = mine[p]
ScoresKept == \A c \in Crns :
    scores[c].left > 0 /\ steady[Offender[c]] + scores[c].left > RiskHours
        => scores[c].low = low[c]

\* The calls for S: each is in flight, to come or answered; the answers found
\* are `true`, as far as those asked about are `sure`.
Answering(calls, S, true, sure) ==
    /\ calls.asked \subseteq S /\ calls.todo \subseteq S
    /\ calls.asked \cap calls.todo = {}
    /\ calls.found \subseteq S \ (calls.asked \cup calls.todo)
    /\ calls.asked = {} => calls.todo = {}
    /\ \A x \in S \ (calls.asked \cup calls.todo) :
          x \in sure => (x \in calls.found <=> x \in true)

\* The filters that need nothing further.
WantedFirst(p) ==
    /\ filters \cap SearchFilters \subseteq entry[p].fits
    /\ "overdue" \in filters => MarkedOverdue(p)
    /\ "reviewsAssignedToMe" \in filters => mine[p]

PomsRight == page.stage \in {"poms", "filter"} /\ "reviewsAssignedToMe" \in filters =>
    /\ Answering(page.poms, Prisoners, Mine, Sure)
    /\ page.stage = "filter" => page.poms.asked = {}

CandidatesRight == page.stage = "further" =>
    \A p \in Prisoners : Settled(p) => (p \in page.candidates <=> WantedFirst(p))

HearingsRight == page.stage = "further" =>
    IF "noAdjudicationsInTheLastThreeMonths" \in filters
    THEN Answering(page.hearings, page.candidates, Charged, Sure)
    ELSE page.hearings = NoCalls

ScoresRight == page.stage = "further" /\ page.matched /\ "lowRosh" \in filters =>
    Answering(page.scores, RecordsOf(page.candidates), LowRecords, RecordsOf(Sure))

PageRight == PomsRight /\ CandidatesRight /\ HearingsRight /\ ScoresRight /\ ShownAreWanted

FilterInv == PomsKept /\ ScoresKept /\ PageRight
-----------------------------------------------------------------------------
(* Calls in batches *)

LEMMA CallsFacts ==
    ASSUME NEW S, NEW found, NEW calls \in Calls(S, found)
    PROVE  /\ calls.asked \subseteq S /\ calls.todo = S \ calls.asked
           /\ calls.found = found
           /\ calls.asked = {} => S = {}
           /\ \A U : S \subseteq U /\ found \subseteq U => calls \in Chain(U)
<1>1. PICK b \in Batches(S) : calls = [asked |-> b, todo |-> S \ b, found |-> found]
  BY DEF Calls
<1>2. b \subseteq S /\ (b = {} => S = {})
  <2>1. Cardinality({}) = 0
    BY FS_EmptySet
  <2>2. Batch # 0
    BY BatchAssumption
  <2>3. b \in SUBSET S /\ (b = S \/ Cardinality(b) = Batch)
    BY DEF Batches
  <2>. QED
    BY <2>1, <2>2, <2>3
<1>3. ASSUME NEW U, S \subseteq U, found \subseteq U PROVE calls \in Chain(U)
  BY <1>1, <1>2, <1>3 DEF Chain
<1>. QED
  BY <1>1, <1>2, <1>3

\* Calls that begin.
LEMMA CallsBegin ==
    ASSUME NEW S, NEW calls \in Calls(S, {}), NEW true, NEW sure
    PROVE  Answering(calls, S, true, sure)
<1>1. /\ calls.asked \subseteq S /\ calls.todo = S \ calls.asked
      /\ calls.found = {} /\ (calls.asked = {} => S = {})
  BY CallsFacts
<1>2. S \ (calls.asked \cup calls.todo) = {}
  BY <1>1
<1>. QED
  BY <1>1, <1>2 DEF Answering

LEMMA AnsweredFacts ==
    ASSUME NEW U, NEW calls \in Chain(U), NEW x \in calls.asked, NEW found \in SUBSET U,
           NEW next \in Answered(calls, x, found)
    PROVE  /\ next.found = found
           /\ \/ /\ calls.asked = {x} /\ next.asked \subseteq calls.todo
                 /\ next.todo = calls.todo \ next.asked
                 /\ next.asked = {} => calls.todo = {}
              \/ /\ calls.asked # {x} /\ next.asked = calls.asked \ {x}
                 /\ next.todo = calls.todo
           /\ next \in Chain(U)
<1>1. CASE calls.asked = {x}
  <2>1. next \in Calls(calls.todo, found)
    BY <1>1 DEF Answered
  <2>2. calls.todo \subseteq U
    BY DEF Chain
  <2>. QED
    BY <1>1, <2>1, <2>2, CallsFacts
<1>2. CASE calls.asked # {x}
  <2>1. next = [calls EXCEPT !.asked = @ \ {x}, !.found = found]
    BY <1>2 DEF Answered
  <2>2. next = [asked |-> calls.asked \ {x}, todo |-> calls.todo, found |-> found]
    BY <2>1 DEF Chain
  <2>. QED
    BY <1>2, <2>2 DEF Chain
<1>. QED
  BY <1>1, <1>2

\* An answer, true of what is sure.
LEMMA AnswerComes ==
    ASSUME NEW U, NEW S, NEW true, NEW sure, NEW calls \in Chain(U),
           Answering(calls, S, true, sure),
           NEW x \in calls.asked, NEW told \in BOOLEAN,
           x \in sure => (told <=> x \in true),
           NEW next \in Answered(calls, x, With(calls.found, x, told))
    PROVE  Answering(next, S, true, sure)
<1>. DEFINE found == With(calls.found, x, told)
<1>0. found \in SUBSET U /\ found = IF told THEN calls.found \cup {x} ELSE calls.found
  BY DEF With, Chain
<1>. HIDE DEF found
<1>1. next.found = found
  BY <1>0, AnsweredFacts DEF found
<1>2. \/ /\ calls.asked = {x} /\ next.asked \subseteq calls.todo
         /\ next.todo = calls.todo \ next.asked
         /\ next.asked = {} => calls.todo = {}
      \/ /\ calls.asked # {x} /\ next.asked = calls.asked \ {x}
         /\ next.todo = calls.todo
  BY <1>0, AnsweredFacts DEF found
<1>3. next.asked \cup next.todo = (calls.asked \cup calls.todo) \ {x}
  BY <1>2 DEF Answering
<1>4. x \in S /\ x \notin calls.found
  BY DEF Answering
<1>5. /\ next.asked \subseteq S /\ next.todo \subseteq S
      /\ next.asked \cap next.todo = {}
      /\ next.asked = {} => next.todo = {}
  BY <1>2 DEF Answering
<1>6. next.found \subseteq S \ (next.asked \cup next.todo)
  <2>1. calls.found \subseteq S \ (calls.asked \cup calls.todo)
    BY DEF Answering
  <2>2. next.found \subseteq calls.found \cup {x}
    BY <1>0, <1>1
  <2>. QED
    BY <1>3, <1>4, <2>1, <2>2
<1>7. ASSUME NEW y \in S \ (next.asked \cup next.todo), y \in sure
      PROVE  y \in next.found <=> y \in true
  <2>1. CASE y = x
    BY <1>0, <1>1, <1>4, <1>7, <2>1
  <2>2. CASE y # x
    <3>1. y \in S \ (calls.asked \cup calls.todo)
      BY <1>3, <2>2
    <3>2. y \in calls.found <=> y \in true
      BY <1>7, <3>1 DEF Answering
    <3>. QED
      BY <1>0, <1>1, <2>2, <3>2
  <2>. QED
    BY <2>1, <2>2
<1>. QED
  BY <1>5, <1>6, <1>7 DEF Answering

\* What is no longer sure, or is no longer so, concerns no answer that counts.
LEMMA LessSure ==
    ASSUME NEW calls, NEW S, NEW true, NEW sure, Answering(calls, S, true, sure),
           NEW true2, NEW sure2, sure2 \subseteq sure,
           \A x \in sure2 : x \in true <=> x \in true2
    PROVE  Answering(calls, S, true2, sure2)
BY DEF Answering

\* The types of the calls.
LEMMA ChainFacts ==
    ASSUME NEW S
    PROVE  /\ NoCalls \in Chain(S)
           /\ \A T \in SUBSET S : \A calls \in Calls(T, {}) : calls \in Chain(S)
           /\ \A calls \in Chain(S) : \A x \in calls.asked : \A told \in BOOLEAN :
                 \A next \in Answered(calls, x, With(calls.found, x, told)) :
                    next \in Chain(S)
<1>1. NoCalls \in Chain(S)
  BY DEF NoCalls, Chain
<1>2. ASSUME NEW T \in SUBSET S, NEW calls \in Calls(T, {}) PROVE calls \in Chain(S)
  BY CallsFacts DEF Chain
<1>3. ASSUME NEW calls \in Chain(S), NEW x \in calls.asked, NEW told \in BOOLEAN,
             NEW next \in Answered(calls, x, With(calls.found, x, told))
      PROVE  next \in Chain(S)
  <2>1. With(calls.found, x, told) \in SUBSET S
    BY DEF With, Chain
  <2>. QED
    BY <2>1, AnsweredFacts
<1>. QED
  BY <1>1, <1>2, <1>3
-----------------------------------------------------------------------------
(* Types *)

\* A page, field by field.
LEMMA PageFields ==
    ASSUME page \in Page
    PROVE  /\ page.stage \in {"none", "poms", "filter", "further", "shown", "failed"}
           /\ page.poms \in Chain(Prisoners) /\ page.hearings \in Chain(Prisoners)
           /\ page.matched \in BOOLEAN /\ page.scores \in Chain(Crns)
           /\ page.candidates \in SUBSET Prisoners /\ page.shown \in SUBSET Prisoners
BY DEF Page

LEMMA NoPageFacts ==
    /\ NoPage \in Page /\ NoPage.stage = "none"
    /\ [NoPage EXCEPT !.stage = "failed"] \in Page
    /\ [NoPage EXCEPT !.stage = "failed"].stage = "failed"
<1>1. NoPage \in Page /\ NoPage.stage = "none"
  BY ChainFacts DEF NoPage, Page
<1>. QED
  BY <1>1 DEF Page

LEMMA AskedPage ==
    ASSUME NEW stage \in {"poms", "filter"}, NEW calls \in Chain(Prisoners),
           page' = [NoPage EXCEPT !.stage = stage, !.poms = calls]
    PROVE  page' \in Page /\ page'.stage = stage /\ page'.poms = calls
BY NoPageFacts DEF Page

LEMMA ShownPage ==
    ASSUME NEW S \in SUBSET Prisoners,
           page' = [NoPage EXCEPT !.stage = "shown", !.shown = S]
    PROVE  page' \in Page /\ page'.stage = "shown" /\ page'.shown = S
BY NoPageFacts DEF Page

LEMMA FilterTypeInit == FilterInit => FilterTypeOK
BY NoPageFacts, HoursAssumption DEF FilterInit, FilterTypeOK, Hours

\* Hours count up only as far as the longest life of an answer.
LEMMA HoursFacts ==
    /\ \A f : Life(f) \in Hours
    /\ \A f : Life(f) \in Nat \ {0}
    /\ Hours \subseteq Nat /\ 0 \in Hours
    /\ \A n \in Hours : \A f : n < Life(f) => n + 1 \in Hours
BY HoursAssumption DEF Hours, Life

LEMMA AskStep ==
    ASSUME FilterTypeOK, Ask
    PROVE  /\ page' \in Page /\ page'.stage \in {"poms", "filter"}
           /\ page'.poms \in Calls(Prisoners, {})
           /\ page'.stage = "filter" => page'.poms.asked = {}
<1>1. PICK calls \in Calls(Prisoners, {}) :
         page' = [NoPage EXCEPT !.stage = IF calls.asked = {} THEN "filter" ELSE "poms",
                                !.poms = calls]
  BY DEF Ask
<1>2. calls \in Chain(Prisoners)
  BY ChainFacts
<1>. DEFINE stage == IF calls.asked = {} THEN "filter" ELSE "poms"
<1>3. stage \in {"poms", "filter"}
  OBVIOUS
<1>4. page' \in Page /\ page'.stage = stage /\ page'.poms = calls
  <2>1. page' = [NoPage EXCEPT !.stage = stage, !.poms = calls]
    BY <1>1
  <2>. HIDE DEF stage
  <2>. QED
    BY <1>2, <1>3, <2>1, AskedPage
<1>. QED
  BY <1>4

LEMMA PomStep ==
    ASSUME FilterTypeOK, NEW p \in Prisoners, PomAnswer(p)
    PROVE  \E told \in BOOLEAN :
             /\ PomTold(p, told)
             /\ page' \in Page /\ page'.stage \in {"poms", "filter"}
             /\ page'.poms \in Answered(page.poms, p, With(page.poms.found, p, told))
             /\ page'.stage = "filter" => page'.poms.asked = {}
<1>1. page \in Page /\ page.stage = "poms" /\ p \in page.poms.asked
  BY DEF PomAnswer, FilterTypeOK
<1>2. PICK told \in BOOLEAN :
         /\ PomTold(p, told)
         /\ \E calls \in Answered(page.poms, p, With(page.poms.found, p, told)) :
               page' = [page EXCEPT !.poms = calls,
                                    !.stage = IF calls.asked = {} THEN "filter" ELSE @]
  BY DEF PomAnswer
<1>3. PICK calls \in Answered(page.poms, p, With(page.poms.found, p, told)) :
         page' = [page EXCEPT !.poms = calls,
                              !.stage = IF calls.asked = {} THEN "filter" ELSE @]
  BY <1>2
<1>4. calls \in Chain(Prisoners)
  BY <1>1, ChainFacts, PageFields
<1>5. /\ page'.stage = IF calls.asked = {} THEN "filter" ELSE "poms"
      /\ page'.poms = calls /\ page' \in Page
  BY <1>1, <1>3, <1>4 DEF Page
<1>. QED
  BY <1>2, <1>5

LEMMA FirstFiltersStep ==
    ASSUME FilterTypeOK, FirstFilters
    PROVE  /\ page' \in Page /\ page'.stage = "further"
           /\ page'.candidates = {p \in Prisoners : PassesFirst(p)}
           /\ page'.matched <=> "lowRosh" \notin filters
           /\ IF "noAdjudicationsInTheLastThreeMonths" \in filters
              THEN page'.hearings \in Calls(page'.candidates, {})
              ELSE page'.hearings = NoCalls
<1>. DEFINE left == {p \in Prisoners : PassesFirst(p)}
<1>1. PICK hearings \in IF "noAdjudicationsInTheLastThreeMonths" \in filters
                        THEN Calls(left, {}) ELSE {NoCalls} :
         page' = [page EXCEPT !.stage = "further", !.candidates = left,
                              !.hearings = hearings,
                              !.matched = "lowRosh" \notin filters]
  BY DEF FirstFilters
<1>2. hearings \in Chain(Prisoners)
  BY <1>1, ChainFacts
<1>3. left \in SUBSET Prisoners
  OBVIOUS
<1>. HIDE DEF left
<1>4. /\ page' \in Page /\ page'.stage = "further" /\ page'.candidates = left
      /\ page'.hearings = hearings /\ page'.matched = ("lowRosh" \notin filters)
  BY <1>1, <1>2, <1>3 DEF FilterTypeOK, Page
<1>. QED
  BY <1>1, <1>4 DEF left

LEMMA HearingsStep ==
    ASSUME FilterTypeOK, NEW p \in Prisoners, HearingsAnswer(p)
    PROVE  /\ page' \in Page /\ page'.stage = "further" /\ page.stage = "further"
           /\ page'.hearings \in Answered(page.hearings, p,
                                          With(page.hearings.found, p, charged[p]))
           /\ page'.candidates = page.candidates /\ page'.matched = page.matched
           /\ page'.scores = page.scores
<1>1. page \in Page /\ page.stage = "further" /\ p \in page.hearings.asked
      /\ charged[p] \in BOOLEAN
  BY DEF HearingsAnswer, FilterTypeOK
<1>2. PICK calls \in Answered(page.hearings, p,
                              With(page.hearings.found, p, charged[p])) :
         page' = [page EXCEPT !.hearings = calls]
  BY DEF HearingsAnswer
<1>3. calls \in Chain(Prisoners)
  BY <1>1, ChainFacts, PageFields
<1>. QED
  BY <1>1, <1>2, <1>3 DEF Page

LEMMA MatchStep ==
    ASSUME FilterTypeOK, Match
    PROVE  /\ page' \in Page /\ page'.stage = "further" /\ page.stage = "further"
           /\ page'.scores \in Calls(RecordsOf(page.candidates), {})
           /\ page'.candidates = page.candidates /\ page'.matched
           /\ page'.hearings = page.hearings
<1>1. PICK calls \in Calls(RecordsOf(page.candidates), {}) :
         page' = [page EXCEPT !.matched = TRUE, !.scores = calls]
  BY DEF Match, RecordsOf
<1>2. calls \in Chain(Crns)
  BY ChainFacts DEF RecordsOf
<1>. QED
  BY <1>1, <1>2 DEF FilterTypeOK, Page, Match

LEMMA ScoreStep ==
    ASSUME FilterTypeOK, NEW c \in Crns, ScoreAnswer(c)
    PROVE  /\ page' \in Page /\ page'.stage = "further" /\ page.stage = "further"
           /\ \E told \in BOOLEAN : /\ ScoreTold(c, told)
                                    /\ page'.scores \in Answered(page.scores, c,
                                          With(page.scores.found, c, told))
           /\ page'.candidates = page.candidates /\ page'.matched = page.matched
           /\ page'.hearings = page.hearings
<1>1. page \in Page /\ page.stage = "further" /\ c \in page.scores.asked
  BY DEF ScoreAnswer, FilterTypeOK
<1>2. PICK told \in BOOLEAN :
         /\ ScoreTold(c, told)
         /\ \E calls \in Answered(page.scores, c, With(page.scores.found, c, told)) :
               page' = [page EXCEPT !.scores = calls]
  BY DEF ScoreAnswer
<1>3. PICK calls \in Answered(page.scores, c, With(page.scores.found, c, told)) :
         page' = [page EXCEPT !.scores = calls]
  BY <1>2
<1>4. calls \in Chain(Crns)
  BY <1>1, ChainFacts, PageFields
<1>5. /\ page' \in Page /\ page'.stage = "further" /\ page'.scores = calls
      /\ page'.candidates = page.candidates /\ page'.matched = page.matched
      /\ page'.hearings = page.hearings
  BY <1>1, <1>3, <1>4 DEF Page
<1>. QED
  BY <1>1, <1>2, <1>5

LEMMA ShowStep ==
    ASSUME FilterTypeOK, Show
    PROVE  /\ page' \in Page /\ page'.stage = "shown"
           /\ page'.shown =
                {p \in page.candidates :
                    /\ p \notin page.hearings.found
                    /\ "lowRosh" \in filters =>
                          \E c \in page.scores.found : Offender[c] = p}
<1>. DEFINE S == {p \in page.candidates :
                    /\ p \notin page.hearings.found
                    /\ "lowRosh" \in filters =>
                          \E c \in page.scores.found : Offender[c] = p}
<1>1. page' = [NoPage EXCEPT !.stage = "shown", !.shown = S]
  BY DEF Show
<1>2. S \in SUBSET Prisoners
  BY PageFields DEF FilterTypeOK
<1>. HIDE DEF S
<1>3. page' \in Page /\ page'.stage = "shown" /\ page'.shown = S
  BY <1>1, <1>2, ShownPage
<1>. QED
  BY <1>3 DEF S

LEMMA FilterTypeNext ==
    ASSUME FilterTypeOK, [FilterNext]_filterVars
    PROVE  FilterTypeOK'
<1>. USE DEF FilterTypeOK
<1>1. ASSUME Ask PROVE FilterTypeOK'
  BY <1>1, AskStep DEF Ask
<1>2. ASSUME FirstFilters PROVE FilterTypeOK'
  BY <1>2, FirstFiltersStep DEF FirstFilters
<1>3. ASSUME Match PROVE FilterTypeOK'
  BY <1>3, MatchStep DEF Match
<1>4. ASSUME Show PROVE FilterTypeOK'
  <2>1. page' \in Page
    BY <1>4, ShowStep
  <2>. QED
    BY <1>4, <2>1 DEF Show
<1>5. ASSUME CallFails PROVE FilterTypeOK'
  BY <1>5, NoPageFacts DEF CallFails
<1>6. ASSUME Hour PROVE FilterTypeOK'
  <2>1. steady' \in [Prisoners -> Hours]
    <3>1. ASSUME NEW p \in Prisoners, ~Lasted(p) PROVE steady[p] + 1 \in Hours
      <4>1. PICK f \in filters : ~(steady[p] >= Life(f))
        BY <3>1 DEF Lasted
      <4>2. steady[p] \in Hours /\ steady[p] \in Nat /\ Life(f) \in Nat
        BY HoursFacts
      <4>3. steady[p] < Life(f)
        BY <4>1, <4>2
      <4>. QED
        BY <4>2, <4>3, HoursFacts
    <3>. QED
      BY <1>6, <3>1 DEF Hour
  <2>2. poms' \in [Prisoners -> [mine : BOOLEAN, left : 0..PomHours]]
    <3>1. poms' = [p \in Prisoners |->
                     [poms[p] EXCEPT !.left = IF @ = 0 THEN 0 ELSE @ - 1]]
      BY <1>6 DEF Hour
    <3>2. ASSUME NEW a \in [mine : BOOLEAN, left : 0..PomHours]
          PROVE  [a EXCEPT !.left = IF @ = 0 THEN 0 ELSE @ - 1]
                   \in [mine : BOOLEAN, left : 0..PomHours]
      BY HoursAssumption
    <3>. QED
      BY <3>1, <3>2
  <2>3. scores' \in [Crns -> [low : BOOLEAN, left : 0..RiskHours]]
    <3>1. scores' = [c \in Crns |->
                       [scores[c] EXCEPT !.left = IF @ = 0 THEN 0 ELSE @ - 1]]
      BY <1>6 DEF Hour
    <3>2. ASSUME NEW a \in [low : BOOLEAN, left : 0..RiskHours]
          PROVE  [a EXCEPT !.left = IF @ = 0 THEN 0 ELSE @ - 1]
                   \in [low : BOOLEAN, left : 0..RiskHours]
      BY HoursAssumption
    <3>. QED
      BY <3>1, <3>2
  <2>4. page' \in Page
    BY <1>6, NoPageFacts DEF Hour
  <2>. QED
    BY <1>6, <2>1, <2>2, <2>3, <2>4 DEF Hour
<1>7. ASSUME NEW p \in Prisoners, PomAnswer(p) PROVE FilterTypeOK'
  <2>1. PICK told \in BOOLEAN : PomTold(p, told) /\ page' \in Page
    BY <1>7, PomStep
  <2>2. poms' \in [Prisoners -> [mine : BOOLEAN, left : 0..PomHours]]
    BY <2>1, HoursAssumption DEF PomTold
  <2>3. steady' \in [Prisoners -> Hours]
    BY <2>1, HoursFacts DEF PomTold
  <2>. QED
    BY <1>7, <2>1, <2>2, <2>3 DEF PomAnswer
<1>8. ASSUME NEW p \in Prisoners, HearingsAnswer(p) PROVE FilterTypeOK'
  BY <1>8, HearingsStep DEF HearingsAnswer
<1>9. ASSUME NEW p \in Prisoners, Change(p) PROVE FilterTypeOK'
  <2>1. /\ mine' \in [Prisoners -> BOOLEAN] /\ charged' \in [Prisoners -> BOOLEAN]
        /\ low' \in [Crns -> BOOLEAN]
    BY <1>9 DEF Change
  <2>. QED
    BY <1>9, <2>1, HoursFacts DEF Change
<1>10. ASSUME NEW c \in Crns, ScoreAnswer(c) PROVE FilterTypeOK'
  <2>1. page' \in Page /\ \E told \in BOOLEAN : ScoreTold(c, told)
    BY <1>10, ScoreStep
  <2>2. scores' \in [Crns -> [low : BOOLEAN, left : 0..RiskHours]]
    BY <2>1, HoursAssumption DEF ScoreTold
  <2>. QED
    BY <1>10, <2>1, <2>2 DEF ScoreAnswer
<1>11. ASSUME UNCHANGED filterVars PROVE FilterTypeOK'
  BY <1>11 DEF filterVars
<1>. QED
  BY <1>1, <1>2, <1>3, <1>4, <1>5, <1>6, <1>7, <1>8, <1>9, <1>10, <1>11 DEF FilterNext

\* Every variable keeps its type.
THEOREM FiltersTyped == FilterSpec => []FilterTypeOK
<1>. QED
  BY FilterTypeInit, FilterTypeNext, PTL DEF FilterSpec
-----------------------------------------------------------------------------
(* What lasts, and answers that are kept *)

\* What is said of a prisoner has lasted no longer after a change of it.
LEMMA SureShrinks ==
    ASSUME FilterTypeOK, NEW p \in Prisoners, UNCHANGED filters,
           steady' = steady \/ steady' = [steady EXCEPT ![p] = 0]
    PROVE  /\ Sure' \subseteq Sure
           /\ steady' # steady /\ filters # {} => p \notin Sure'
<1>1. CASE steady' = steady
  BY <1>1 DEF Sure, Lasted
<1>2. CASE steady' = [steady EXCEPT ![p] = 0]
  <2>1. ASSUME NEW q \in Prisoners, q # p PROVE Lasted(q)' <=> Lasted(q)
    BY <1>2, <2>1 DEF Lasted, FilterTypeOK
  <2>2. ASSUME NEW f \in filters PROVE ~Lasted(p)'
    BY <1>2, HoursFacts DEF Lasted, FilterTypeOK
  <2>3. ASSUME filters = {} PROVE Sure' = Prisoners /\ Sure = Prisoners
    BY <2>3 DEF Sure, Lasted
  <2>4. CASE filters = {}
    BY <2>3, <2>4
  <2>5. CASE filters # {}
    BY <2>1, <2>2, <2>5 DEF Sure
  <2>. QED
    BY <2>4, <2>5
<1>. QED
  BY <1>1, <1>2

LEMMA HoursAreNumbers ==
    ASSUME FilterTypeOK
    PROVE  /\ PomHours \in Nat /\ RiskHours \in Nat
           /\ \A p \in Prisoners : steady[p] \in Nat /\ poms[p].left \in Nat
           /\ \A c \in Crns : scores[c].left \in Nat
<1>1. PomHours \in Nat /\ RiskHours \in Nat
  BY HoursAssumption
<1>2. ASSUME NEW p \in Prisoners PROVE steady[p] \in Nat
  BY HoursFacts DEF FilterTypeOK
<1>3. ASSUME NEW p \in Prisoners PROVE poms[p].left \in Nat
  BY <1>1 DEF FilterTypeOK
<1>4. ASSUME NEW c \in Crns PROVE scores[c].left \in Nat
  BY <1>1 DEF FilterTypeOK
<1>. QED
  BY <1>1, <1>2, <1>3, <1>4

\* How long what is said has lasted, where an answer of it is kept.
LEMMA SureFacts ==
    ASSUME FilterTypeOK, NEW p \in Sure
    PROVE  /\ "reviewsAssignedToMe" \in filters => steady[p] >= PomHours
           /\ "lowRosh" \in filters => steady[p] >= RiskHours
BY DEF Sure, Lasted, Life

\* A kept answer is the truth, once that has stood as long as it may be kept.
LEMMA KeptAnswers ==
    ASSUME FilterTypeOK, PomsKept, ScoresKept
    PROVE  /\ \A p \in Sure : "reviewsAssignedToMe" \in filters /\ poms[p].left > 0
                => poms[p].mine = mine[p]
           /\ \A c \in RecordsOf(Sure) : "lowRosh" \in filters /\ scores[c].left > 0
                => scores[c].low = low[c]
<1>1. ASSUME NEW p \in Sure, "reviewsAssignedToMe" \in filters, poms[p].left > 0
      PROVE  poms[p].mine = mine[p]
  <2>1. p \in Prisoners /\ steady[p] >= PomHours
    BY <1>1, SureFacts DEF Sure
  <2>2. poms[p].left \in Nat /\ steady[p] \in Nat /\ PomHours \in Nat
    BY <2>1, HoursAreNumbers
  <2>3. steady[p] + poms[p].left > PomHours
    BY <1>1, <2>1, <2>2
  <2>. QED
    BY <1>1, <2>1, <2>3 DEF PomsKept
<1>2. ASSUME NEW c \in RecordsOf(Sure), "lowRosh" \in filters, scores[c].left > 0
      PROVE  scores[c].low = low[c]
  <2>1. c \in Crns /\ Offender[c] \in Sure /\ Offender[c] \in Prisoners
    BY OffenderAssumption DEF RecordsOf
  <2>2. steady[Offender[c]] >= RiskHours
    BY <1>2, <2>1, SureFacts
  <2>3. scores[c].left \in Nat /\ steady[Offender[c]] \in Nat /\ RiskHours \in Nat
    BY <2>1, HoursAreNumbers
  <2>4. steady[Offender[c]] + scores[c].left > RiskHours
    BY <1>2, <2>2, <2>3
  <2>. QED
    BY <1>2, <2>1, <2>4 DEF ScoresKept
<1>. QED
  BY <1>1, <1>2

\* An hour gives a truth at most as much as it takes from an answer.
LEMMA HourFacts ==
    ASSUME FilterTypeOK, Hour
    PROVE  /\ \A p \in Prisoners : poms'[p].left > 0 =>
                /\ poms[p].left > 0 /\ poms'[p].mine = poms[p].mine
                /\ steady'[p] + poms'[p].left <= steady[p] + poms[p].left
           /\ \A c \in Crns : scores'[c].left > 0 =>
                /\ scores[c].left > 0 /\ scores'[c].low = scores[c].low
                /\ steady'[Offender[c]] + scores'[c].left
                     <= steady[Offender[c]] + scores[c].left
<1>1. ASSUME NEW p \in Prisoners
      PROVE  steady'[p] \in {steady[p], steady[p] + 1} /\ steady[p] \in Nat
  BY HoursFacts DEF Hour, FilterTypeOK
<1>2. ASSUME NEW p \in Prisoners, poms'[p].left > 0
      PROVE  /\ poms[p].left > 0 /\ poms'[p].mine = poms[p].mine
             /\ poms'[p].left = poms[p].left - 1 /\ poms[p].left \in Nat
  BY <1>2, HoursAssumption DEF Hour, FilterTypeOK
<1>3. ASSUME NEW c \in Crns, scores'[c].left > 0
      PROVE  /\ scores[c].left > 0 /\ scores'[c].low = scores[c].low
             /\ scores'[c].left = scores[c].left - 1 /\ scores[c].left \in Nat
  BY <1>3, HoursAssumption DEF Hour, FilterTypeOK
<1>4. \A c \in Crns : Offender[c] \in Prisoners
  BY OffenderAssumption
<1>5. ASSUME NEW p \in Prisoners, poms'[p].left > 0
      PROVE  steady'[p] + poms'[p].left <= steady[p] + poms[p].left
  BY <1>1, <1>2, <1>5
<1>6. ASSUME NEW c \in Crns, scores'[c].left > 0
      PROVE  steady'[Offender[c]] + scores'[c].left
               <= steady[Offender[c]] + scores[c].left
  <2>1. /\ steady'[Offender[c]] \in {steady[Offender[c]], steady[Offender[c]] + 1}
        /\ steady[Offender[c]] \in Nat
    BY <1>1, <1>4
  <2>. QED
    BY <1>3, <1>6, <2>1
<1>. QED
  BY <1>2, <1>3, <1>5, <1>6

LEMMA PomsStayKept ==
    ASSUME FilterTypeOK, PomsKept, [FilterNext]_filterVars
    PROVE  PomsKept'
<1>1. ASSUME UNCHANGED <<mine, poms, steady>> PROVE PomsKept'
  BY <1>1 DEF PomsKept
<1>2. ASSUME Hour PROVE PomsKept'
  <2>. SUFFICES ASSUME NEW p \in Prisoners, poms'[p].left > 0,
                       steady'[p] + poms'[p].left > PomHours
                PROVE  poms'[p].mine = mine'[p]
    BY DEF PomsKept
  <2>1. /\ poms[p].left > 0 /\ poms'[p].mine = poms[p].mine
        /\ steady'[p] + poms'[p].left <= steady[p] + poms[p].left
    BY <1>2, HourFacts
  <2>2. /\ steady'[p] + poms'[p].left \in Int /\ steady[p] + poms[p].left \in Int
        /\ PomHours \in Int
    <3>1. steady[p] \in Int /\ poms[p].left \in Int /\ PomHours \in Int
      BY HoursAreNumbers
    <3>2. steady'[p] \in {steady[p], steady[p] + 1}
      BY <1>2 DEF Hour
    <3>3. poms'[p].left \in {0, poms[p].left - 1}
      BY <1>2 DEF Hour, FilterTypeOK
    <3>. QED
      BY <3>1, <3>2, <3>3
  <2>3. steady[p] + poms[p].left > PomHours
    BY <2>1, <2>2
  <2>4. mine' = mine
    BY <1>2 DEF Hour
  <2>. QED
    BY <2>1, <2>3, <2>4 DEF PomsKept
<1>3. ASSUME NEW p \in Prisoners, PomAnswer(p) PROVE PomsKept'
  <2>1. PICK told \in BOOLEAN : PomTold(p, told)
    BY <1>3 DEF PomAnswer
  <2>2. mine' = mine
    BY <1>3 DEF PomAnswer
  <2>3. CASE UNCHANGED <<poms, steady>>
    BY <1>1, <2>2, <2>3
  <2>4. CASE ~UNCHANGED <<poms, steady>>
    <3>1. /\ poms' = [poms EXCEPT ![p] = [mine |-> told, left |-> PomHours]]
          /\ \/ told = mine[p] /\ UNCHANGED steady
             \/ steady' = [steady EXCEPT ![p] = 0]
      BY <2>1, <2>4 DEF PomTold
    <3>2. ASSUME NEW q \in Prisoners, q # p
          PROVE  poms'[q] = poms[q] /\ steady'[q] = steady[q]
      BY <3>1, <3>2 DEF FilterTypeOK
    <3>3. poms'[p].mine = told /\ poms'[p].left = PomHours
      BY <3>1 DEF FilterTypeOK
    <3>4. told = mine[p] \/ ~(steady'[p] + PomHours > PomHours)
      BY <3>1, HoursAssumption DEF FilterTypeOK
    <3>. QED
      BY <2>2, <3>2, <3>3, <3>4 DEF PomsKept
  <2>. QED
    BY <2>3, <2>4
<1>4. ASSUME NEW p \in Prisoners, Change(p) PROVE PomsKept'
  <2>1. steady' = [steady EXCEPT ![p] = 0] /\ poms' = poms
    BY <1>4 DEF Change
  <2>2. ASSUME NEW q \in Prisoners, q # p PROVE mine'[q] = mine[q] /\ steady'[q] = steady[q]
    BY <1>4, <2>1, <2>2 DEF Change, FilterTypeOK
  <2>3. ~(steady'[p] + poms'[p].left > PomHours)
    BY <2>1, HoursAssumption DEF FilterTypeOK
  <2>. QED
    BY <2>1, <2>2, <2>3 DEF PomsKept
<1>. QED
  BY <1>1, <1>2, <1>3, <1>4 DEF FilterNext, filterVars, Ask, FirstFilters, Match,
     Show, CallFails, HearingsAnswer, ScoreAnswer

LEMMA ScoresStayKept ==
    ASSUME FilterTypeOK, ScoresKept, [FilterNext]_filterVars
    PROVE  ScoresKept'
<1>0. \A c \in Crns : Offender[c] \in Prisoners
  BY OffenderAssumption
<1>1. ASSUME UNCHANGED <<low, scores, steady>> PROVE ScoresKept'
  BY <1>1 DEF ScoresKept
<1>2. ASSUME Hour PROVE ScoresKept'
  <2>. SUFFICES ASSUME NEW c \in Crns, scores'[c].left > 0,
                       steady'[Offender[c]] + scores'[c].left > RiskHours
                PROVE  scores'[c].low = low'[c]
    BY DEF ScoresKept
  <2>. DEFINE p == Offender[c]
  <2>1. /\ scores[c].left > 0 /\ scores'[c].low = scores[c].low
        /\ steady'[p] + scores'[c].left <= steady[p] + scores[c].left
    BY <1>2, HourFacts
  <2>2. /\ steady'[p] + scores'[c].left \in Int /\ steady[p] + scores[c].left \in Int
        /\ RiskHours \in Int
    <3>1. steady[p] \in Int /\ scores[c].left \in Int /\ RiskHours \in Int
      BY <1>0, HoursAreNumbers
    <3>2. steady'[p] \in {steady[p], steady[p] + 1}
      BY <1>0, <1>2 DEF Hour
    <3>3. scores'[c].left \in {0, scores[c].left - 1}
      BY <1>2 DEF Hour, FilterTypeOK
    <3>. QED
      BY <3>1, <3>2, <3>3
  <2>3. steady[p] + scores[c].left > RiskHours
    BY <2>1, <2>2
  <2>4. low' = low
    BY <1>2 DEF Hour
  <2>. QED
    BY <2>1, <2>3, <2>4 DEF ScoresKept
\* What is said of one prisoner no longer lasts: of him an answer that is kept
\* has not the hours.
<1>3. ASSUME NEW p \in Prisoners, steady' = [steady EXCEPT ![p] = 0], scores' = scores,
             \A c \in Crns : Offender[c] # p => low'[c] = low[c]
      PROVE  ScoresKept'
  <2>1. ASSUME NEW c \in Crns, Offender[c] = p
        PROVE  ~(steady'[Offender[c]] + scores'[c].left > RiskHours)
    BY <1>3, <2>1, HoursAssumption DEF FilterTypeOK
  <2>2. ASSUME NEW c \in Crns, Offender[c] # p
        PROVE  steady'[Offender[c]] = steady[Offender[c]] /\ low'[c] = low[c]
    BY <1>0, <1>3, <2>2 DEF FilterTypeOK
  <2>. QED
    BY <1>3, <2>1, <2>2 DEF ScoresKept
<1>4. ASSUME NEW p \in Prisoners, PomAnswer(p) PROVE ScoresKept'
  <2>1. steady' = steady \/ steady' = [steady EXCEPT ![p] = 0]
    BY <1>4 DEF PomAnswer, PomTold
  <2>. QED
    BY <1>1, <1>3, <1>4, <2>1 DEF PomAnswer
<1>5. ASSUME NEW p \in Prisoners, Change(p) PROVE ScoresKept'
  <2>1. \A c \in Crns : Offender[c] # p => low'[c] = low[c]
    BY <1>5 DEF Change, FilterTypeOK
  <2>. QED
    BY <1>3, <1>5, <2>1 DEF Change
<1>6. ASSUME NEW c \in Crns, ScoreAnswer(c) PROVE ScoresKept'
  <2>1. PICK told \in BOOLEAN : ScoreTold(c, told)
    BY <1>6 DEF ScoreAnswer
  <2>2. low' = low /\ steady' = steady
    BY <1>6 DEF ScoreAnswer
  <2>3. CASE scores' = scores
    BY <1>1, <2>2, <2>3
  <2>4. CASE scores' = [scores EXCEPT ![c] = [low |-> told, left |-> RiskHours]] /\ told = low[c]
    BY <2>2, <2>4 DEF ScoresKept, FilterTypeOK
  <2>. QED
    BY <2>1, <2>3, <2>4 DEF ScoreTold
<1>. QED
  BY <1>1, <1>2, <1>4, <1>5, <1>6 DEF FilterNext, filterVars, Ask, FirstFilters, Match,
     Show, CallFails, HearingsAnswer
-----------------------------------------------------------------------------
(* The page *)

\* What does not change while the page goes on.
LEMMA SameServices ==
    ASSUME UNCHANGED <<filters, development, entry, mine, charged, low, steady>>
    PROVE  /\ Sure' = Sure /\ Mine' = Mine /\ Charged' = Charged /\ LowRecords' = LowRecords
           /\ \A p : /\ Settled(p)' <=> Settled(p)
                     /\ WantedFirst(p)' <=> WantedFirst(p)
                     /\ Wanted(p)' <=> Wanted(p)
BY DEF Sure, Mine, Charged, LowRecords, Settled, Lasted, WantedFirst, Wanted, MarkedOverdue,
   Recalled

\* A page that is not being made promises nothing.
LEMMA Idle ==
    ASSUME page'.stage \in {"none", "failed"}
    PROVE  PageRight'
BY DEF PageRight, PomsRight, CandidatesRight, HearingsRight, ScoresRight, ShownAreWanted

LEMMA AskRight ==
    ASSUME FilterTypeOK, Ask
    PROVE  PageRight'
<1>1. /\ page'.stage \in {"poms", "filter"}
      /\ page'.poms \in Calls(Prisoners, {})
      /\ page'.stage = "filter" => page'.poms.asked = {}
  BY AskStep
<1>2. PomsRight'
  BY <1>1, CallsBegin DEF PomsRight
<1>. QED
  BY <1>1, <1>2 DEF PageRight, CandidatesRight, HearingsRight, ScoresRight, ShownAreWanted

LEMMA PomAnswerRight ==
    ASSUME FilterTypeOK, FilterInv, NEW p \in Prisoners, PomAnswer(p)
    PROVE  PageRight'
<1>1. PICK told \in BOOLEAN :
        /\ PomTold(p, told)
        /\ page' \in Page /\ page'.stage \in {"poms", "filter"}
        /\ page'.poms \in Answered(page.poms, p, With(page.poms.found, p, told))
        /\ page'.stage = "filter" => page'.poms.asked = {}
  BY PomStep
<1>2. /\ page.stage = "poms" /\ p \in page.poms.asked
      /\ UNCHANGED <<filters, mine>> /\ Mine' = Mine
  BY DEF PomAnswer, Mine
<1>3. page.poms \in Chain(Prisoners)
  BY PageFields DEF FilterTypeOK
<1>4. steady' = steady \/ steady' = [steady EXCEPT ![p] = 0]
  BY <1>1 DEF PomTold
<1>5. PomsRight'
  <2>. SUFFICES ASSUME "reviewsAssignedToMe" \in filters
                PROVE  Answering(page'.poms, Prisoners, Mine, Sure')
    BY <1>1, <1>2 DEF PomsRight
  <2>1. Answering(page.poms, Prisoners, Mine, Sure)
    BY <1>2 DEF FilterInv, PageRight, PomsRight
  <2>2. Answering(page.poms, Prisoners, Mine, Sure')
    BY <1>2, <1>4, <2>1, SureShrinks, LessSure
  <2>3. p \in Sure' => (told <=> p \in Mine)
    <3>1. SUFFICES ASSUME p \in Sure' PROVE told = mine[p]
      BY DEF Mine
    <3>2. p \in Sure /\ steady' = steady
      BY <1>2, <1>4, <3>1, SureShrinks
    <3>3. CASE poms[p].left > 0 /\ told = poms[p].mine
      BY <3>2, <3>3, KeptAnswers DEF FilterInv
    <3>4. CASE told = mine[p]
      BY <3>4
    <3>5. CASE steady' = [steady EXCEPT ![p] = 0]
      <4>1. steady[p] = 0 /\ Life("reviewsAssignedToMe") > 0
        BY <3>2, <3>5, HoursFacts DEF FilterTypeOK
      <4>. QED
        BY <3>2, <4>1, HoursFacts DEF Sure, Lasted
    <3>. QED
      BY <1>1, <3>3, <3>4, <3>5 DEF PomTold
  <2>. QED
    BY <1>1, <1>2, <1>3, <2>2, <2>3, AnswerComes
<1>. QED
  BY <1>1, <1>5 DEF PageRight, CandidatesRight, HearingsRight, ScoresRight, ShownAreWanted

\* The first filters keep those wanted by them, where the two readings of
\* `overdue` do not differ.
LEMMA FirstFiltersRight ==
    ASSUME FilterTypeOK, FilterInv, FirstFilters
    PROVE  PageRight'
<1>1. /\ page'.stage = "further"
      /\ page'.candidates = {p \in Prisoners : PassesFirst(p)}
      /\ page'.matched <=> "lowRosh" \notin filters
      /\ IF "noAdjudicationsInTheLastThreeMonths" \in filters
         THEN page'.hearings \in Calls(page'.candidates, {})
         ELSE page'.hearings = NoCalls
  BY FirstFiltersStep
<1>2. UNCHANGED <<filters, development, entry, mine, charged, low, steady>>
  BY DEF FirstFilters
<1>3. ASSUME NEW p \in Prisoners, Settled(p) PROVE PassesFirst(p) <=> WantedFirst(p)
  <2>1. "reviewsAssignedToMe" \in filters => (p \in page.poms.found <=> mine[p])
    BY <1>3 DEF FilterInv, PageRight, PomsRight, Answering, FirstFilters, Settled, Sure, Mine
  <2>2. PassesOthers(p) <=> /\ filters \cap SearchFilters \subseteq entry[p].fits
                            /\ "reviewsAssignedToMe" \in filters => mine[p]
    BY <2>1 DEF PassesOthers
  <2>3. Unread(p) => ~PassesOthers(p)
    BY DEF FirstFilters
  <2>4. CASE "overdue" \notin filters
    BY <2>2, <2>4 DEF PassesFirst, WantedFirst
  <2>5. CASE "overdue" \in filters /\ ~Recalled(p)
    BY <1>3, <2>2, <2>5 DEF PassesFirst, WantedFirst, Settled, FilterOverdue, MarkedOverdue
  <2>6. CASE "overdue" \in filters /\ Recalled(p)
    <3>1. entry[p].recall \in {"later", "unknown"}
      BY <1>3, <2>6 DEF Settled, Recalled, FilterTypeOK, Entry
    <3>2. CASE entry[p].recall = "unknown"
      BY <2>2, <2>3, <2>6, <3>2 DEF Unread, PassesFirst, WantedFirst
    <3>3. CASE entry[p].recall = "later"
      BY <2>2, <2>6, <3>3 DEF PassesFirst, WantedFirst, FilterOverdue, MarkedOverdue
    <3>. QED
      BY <3>1, <3>2, <3>3
  <2>. QED
    BY <2>4, <2>5, <2>6
<1>4. CandidatesRight'
  BY <1>1, <1>2, <1>3, SameServices DEF CandidatesRight
<1>5. HearingsRight'
  BY <1>1, <1>2, CallsBegin DEF HearingsRight
<1>. QED
  BY <1>1, <1>2, <1>4, <1>5 DEF PageRight, PomsRight, ScoresRight, ShownAreWanted

LEMMA HearingsAnswerRight ==
    ASSUME FilterTypeOK, FilterInv, NEW p \in Prisoners, HearingsAnswer(p)
    PROVE  PageRight'
<1>1. /\ page'.stage = "further" /\ page.stage = "further"
      /\ page'.hearings \in Answered(page.hearings, p,
                                     With(page.hearings.found, p, charged[p]))
      /\ page'.candidates = page.candidates /\ page'.matched = page.matched
      /\ page'.scores = page.scores
  BY HearingsStep
<1>2. UNCHANGED <<filters, development, entry, mine, charged, low, steady>>
  BY DEF HearingsAnswer
<1>3. CandidatesRight' /\ ScoresRight'
  BY <1>1, <1>2, SameServices DEF FilterInv, PageRight, CandidatesRight, ScoresRight, RecordsOf
<1>4. HearingsRight'
  <2>1. p \in page.hearings.asked /\ charged[p] \in BOOLEAN
    BY DEF HearingsAnswer, FilterTypeOK
  <2>2. CASE "noAdjudicationsInTheLastThreeMonths" \in filters
    <3>1. Answering(page.hearings, page.candidates, Charged, Sure)
      BY <1>1, <2>2 DEF FilterInv, PageRight, HearingsRight
    <3>2. page.hearings \in Chain(Prisoners) /\ (charged[p] <=> p \in Charged)
      BY PageFields DEF FilterTypeOK, Charged
    <3>3. Answering(page'.hearings, page.candidates, Charged, Sure)
      BY <1>1, <2>1, <3>1, <3>2, AnswerComes
    <3>. QED
      BY <1>1, <1>2, <2>2, <3>3, SameServices DEF HearingsRight
  <2>3. CASE "noAdjudicationsInTheLastThreeMonths" \notin filters
    BY <1>1, <2>1, <2>3 DEF FilterInv, PageRight, HearingsRight, NoCalls
  <2>. QED
    BY <2>2, <2>3
<1>. QED
  BY <1>1, <1>3, <1>4 DEF PageRight, PomsRight, ShownAreWanted

LEMMA MatchRight ==
    ASSUME FilterTypeOK, FilterInv, Match
    PROVE  PageRight'
<1>1. /\ page'.stage = "further" /\ page.stage = "further"
      /\ page'.scores \in Calls(RecordsOf(page.candidates), {})
      /\ page'.candidates = page.candidates /\ page'.hearings = page.hearings
  BY MatchStep
<1>2. UNCHANGED <<filters, development, entry, mine, charged, low, steady>>
  BY DEF Match
<1>3. CandidatesRight' /\ HearingsRight'
  BY <1>1, <1>2, SameServices DEF FilterInv, PageRight, CandidatesRight, HearingsRight
<1>4. Answering(page'.scores, RecordsOf(page.candidates), LowRecords', RecordsOf(Sure)')
  BY <1>1, CallsBegin
<1>5. ScoresRight'
  BY <1>1, <1>4 DEF ScoresRight, RecordsOf
<1>. QED
  BY <1>1, <1>3, <1>5 DEF PageRight, PomsRight, ShownAreWanted

LEMMA ScoreAnswerRight ==
    ASSUME FilterTypeOK, FilterInv, NEW c \in Crns, ScoreAnswer(c)
    PROVE  PageRight'
<1>1. /\ page'.stage = "further" /\ page.stage = "further"
      /\ page'.candidates = page.candidates /\ page'.matched = page.matched
      /\ page'.hearings = page.hearings
  BY ScoreStep
<1>2. PICK told \in BOOLEAN :
        /\ ScoreTold(c, told)
        /\ page'.scores \in Answered(page.scores, c, With(page.scores.found, c, told))
  BY ScoreStep
<1>3. UNCHANGED <<filters, development, entry, mine, charged, low, steady>>
  BY DEF ScoreAnswer
<1>4. CandidatesRight' /\ HearingsRight'
  BY <1>1, <1>3, SameServices DEF FilterInv, PageRight, CandidatesRight, HearingsRight
<1>5. ScoresRight'
  <2>. SUFFICES ASSUME page.matched, "lowRosh" \in filters
                PROVE  Answering(page'.scores, RecordsOf(page.candidates), LowRecords,
                                 RecordsOf(Sure))
    BY <1>1, <1>3, SameServices DEF ScoresRight, RecordsOf
  <2>1. Answering(page.scores, RecordsOf(page.candidates), LowRecords, RecordsOf(Sure))
    BY <1>1 DEF FilterInv, PageRight, ScoresRight
  <2>2. page.scores \in Chain(Crns) /\ c \in page.scores.asked
    BY PageFields DEF FilterTypeOK, ScoreAnswer
  <2>3. c \in RecordsOf(Sure) => (told <=> c \in LowRecords)
    BY <1>2, KeptAnswers DEF ScoreTold, LowRecords, FilterInv
  <2>. QED
    BY <1>2, <2>1, <2>2, <2>3, AnswerComes
<1>. QED
  BY <1>1, <1>4, <1>5 DEF PageRight, PomsRight, ShownAreWanted

LEMMA ShowRight ==
    ASSUME FilterTypeOK, FilterInv, Show
    PROVE  PageRight'
<1>1. /\ page'.stage = "shown"
      /\ page'.shown = {p \in page.candidates :
                           /\ p \notin page.hearings.found
                           /\ "lowRosh" \in filters =>
                                 \E c \in page.scores.found : Offender[c] = p}
  BY ShowStep
<1>2. /\ UNCHANGED <<filters, development, entry, mine, charged, low, steady>>
      /\ page.stage = "further" /\ page.matched
      /\ page.hearings.asked = {} /\ page.scores.asked = {}
  BY DEF Show
<1>3. ASSUME NEW p \in Prisoners, Settled(p) PROVE p \in page'.shown <=> Wanted(p)
  <2>1. p \in Sure
    BY <1>3 DEF Sure, Settled
  <2>2. p \in page.candidates <=> WantedFirst(p)
    BY <1>2, <1>3 DEF FilterInv, PageRight, CandidatesRight
  <2>3. ASSUME p \in page.candidates
        PROVE  p \notin page.hearings.found
                 <=> ("noAdjudicationsInTheLastThreeMonths" \in filters => ~charged[p])
    <3>1. CASE "noAdjudicationsInTheLastThreeMonths" \in filters
      BY <1>2, <2>1, <2>3, <3>1 DEF FilterInv, PageRight, HearingsRight, Answering, Charged
    <3>2. CASE "noAdjudicationsInTheLastThreeMonths" \notin filters
      BY <1>2, <3>2 DEF FilterInv, PageRight, HearingsRight, NoCalls
    <3>. QED
      BY <3>1, <3>2
  <2>4. ASSUME p \in page.candidates, "lowRosh" \in filters
        PROVE  (\E c \in page.scores.found : Offender[c] = p)
                 <=> (\E c \in Crns : Offender[c] = p /\ low[c])
    <3>1. Answering(page.scores, RecordsOf(page.candidates), LowRecords, RecordsOf(Sure))
      BY <1>2, <2>4 DEF FilterInv, PageRight, ScoresRight
    <3>2. page.scores.found \subseteq Crns
      BY <3>1 DEF Answering, RecordsOf
    <3>3. ASSUME NEW c \in Crns, Offender[c] = p
          PROVE  c \in page.scores.found <=> low[c]
      <4>1. c \in RecordsOf(page.candidates) /\ c \in RecordsOf(Sure)
        BY <2>1, <2>4, <3>3 DEF RecordsOf
      <4>2. c \in page.scores.found <=> c \in LowRecords
        BY <1>2, <3>1, <4>1 DEF Answering
      <4>. QED
        BY <4>2 DEF LowRecords
    <3>. QED
      BY <3>2, <3>3
  <2>5. Wanted(p) <=> /\ WantedFirst(p)
                      /\ "noAdjudicationsInTheLastThreeMonths" \in filters => ~charged[p]
                      /\ "lowRosh" \in filters => \E c \in Crns : Offender[c] = p /\ low[c]
    BY DEF Wanted, WantedFirst
  <2>. QED
    BY <1>1, <2>2, <2>3, <2>4, <2>5
<1>4. ShownAreWanted'
  BY <1>2, <1>3, SameServices DEF ShownAreWanted
<1>. QED
  BY <1>1, <1>4 DEF PageRight, PomsRight, CandidatesRight, HearingsRight, ScoresRight

\* What changes of a prisoner no longer counts.
LEMMA ChangeRight ==
    ASSUME FilterTypeOK, FilterInv, NEW p \in Prisoners, Change(p)
    PROVE  PageRight'
<1>1. /\ UNCHANGED <<filters, development, entry, page>>
      /\ steady' = [steady EXCEPT ![p] = 0]
  BY DEF Change
<1>2. Sure' \subseteq Sure /\ p \notin Sure'
  <2>1. filters # {} /\ Life("reviewsAssignedToMe") > 0
    BY HoursFacts DEF Change
  <2>2. ASSUME steady' = steady PROVE ~Lasted(p)'
    <3>1. PICK f \in filters : TRUE
      BY <2>1
    <3>2. steady'[p] = 0 /\ Life(f) \in Nat \ {0}
      BY <1>1, HoursFacts DEF FilterTypeOK
    <3>. QED
      BY <1>1, <3>1, <3>2 DEF Lasted
  <2>. QED
    BY <1>1, <2>1, <2>2, SureShrinks DEF Sure
<1>3. ASSUME NEW q \in Prisoners, q \in Sure'
      PROVE  /\ mine'[q] = mine[q] /\ charged'[q] = charged[q]
             /\ \A c \in Crns : Offender[c] = q => low'[c] = low[c]
  <2>1. q # p
    BY <1>2, <1>3
  <2>. QED
    BY <2>1 DEF Change, FilterTypeOK
<1>4. /\ \A q \in Sure' : (q \in Mine <=> q \in Mine') /\ (q \in Charged <=> q \in Charged')
      /\ \A c \in RecordsOf(Sure') : c \in LowRecords <=> c \in LowRecords'
      /\ RecordsOf(Sure') \subseteq RecordsOf(Sure)
  BY <1>2, <1>3 DEF Sure, Mine, Charged, LowRecords, RecordsOf
<1>5. ASSUME NEW q \in Prisoners, Settled(q)'
      PROVE  /\ Settled(q) /\ (WantedFirst(q)' <=> WantedFirst(q))
             /\ Wanted(q)' <=> Wanted(q)
  <2>1. q \in Sure' /\ q \in Sure
    BY <1>2, <1>5 DEF Settled, Sure
  <2>2. Settled(q)
    BY <1>1, <1>5, <2>1 DEF Settled, Sure
  <2>3. /\ mine'[q] = mine[q] /\ charged'[q] = charged[q]
        /\ \A c \in Crns : Offender[c] = q => low'[c] = low[c]
    BY <1>3, <2>1
  <2>. QED
    BY <1>1, <2>2, <2>3 DEF WantedFirst, Wanted, MarkedOverdue, Recalled
<1>6. PomsRight'
  BY <1>1, <1>2, <1>4, LessSure DEF FilterInv, PageRight, PomsRight
<1>7. CandidatesRight'
  BY <1>1, <1>5 DEF FilterInv, PageRight, CandidatesRight
<1>8. HearingsRight'
  BY <1>1, <1>2, <1>4, LessSure DEF FilterInv, PageRight, HearingsRight
<1>9. ScoresRight'
  <2>. SUFFICES ASSUME page.stage = "further", page.matched, "lowRosh" \in filters
                PROVE  Answering(page.scores, RecordsOf(page.candidates), LowRecords',
                                 RecordsOf(Sure'))
    BY <1>1 DEF ScoresRight, RecordsOf
  <2>1. Answering(page.scores, RecordsOf(page.candidates), LowRecords, RecordsOf(Sure))
    BY DEF FilterInv, PageRight, ScoresRight
  <2>. QED
    BY <1>4, <2>1, LessSure
<1>10. ShownAreWanted'
  BY <1>1, <1>5 DEF FilterInv, PageRight, ShownAreWanted
<1>. QED
  BY <1>6, <1>7, <1>8, <1>9, <1>10 DEF PageRight

LEMMA FilterInvNext ==
    ASSUME FilterTypeOK, FilterInv, [FilterNext]_filterVars
    PROVE  FilterInv'
<1>1. PomsKept' /\ ScoresKept'
  BY PomsStayKept, ScoresStayKept DEF FilterInv
<1>2. ASSUME CallFails \/ Hour PROVE PageRight'
  <2>1. page'.stage \in {"none", "failed"}
    BY <1>2, NoPageFacts DEF CallFails, Hour
  <2>. QED
    BY <2>1, Idle
<1>3. ASSUME UNCHANGED filterVars PROVE PageRight'
  <2>1. UNCHANGED <<filters, development, entry, mine, charged, low, steady, page>>
    BY <1>3 DEF filterVars
  <2>. QED
    BY <2>1, SameServices DEF FilterInv, PageRight, PomsRight, CandidatesRight,
       HearingsRight, ScoresRight, ShownAreWanted, RecordsOf
<1>4. PageRight'
  BY <1>2, <1>3, AskRight, PomAnswerRight, FirstFiltersRight, HearingsAnswerRight,
     MatchRight, ScoreAnswerRight, ShowRight, ChangeRight DEF FilterNext
<1>. QED
  BY <1>1, <1>4 DEF FilterInv

\* A page that is shown lists exactly those who pass every filter chosen, as far
\* as what is said of them has lasted.
THEOREM FiltersShowTheWanted == FilterSpec => []ShownAreWanted
<1>1. ASSUME FilterInit PROVE FilterInv
  <2>1. PomsKept /\ ScoresKept
    BY <1>1 DEF FilterInit, PomsKept, ScoresKept
  <2>2. page.stage = "none"
    BY <1>1, NoPageFacts DEF FilterInit
  <2>. QED
    BY <2>1, <2>2 DEF FilterInv, PageRight, PomsRight, CandidatesRight, HearingsRight, ScoresRight,
       ShownAreWanted
<1>2. FilterInv => ShownAreWanted
  BY DEF FilterInv, PageRight
<1>. QED
  BY <1>1, <1>2, FilterInvNext, FiltersTyped, PTL DEF FilterSpec
=============================================================================
