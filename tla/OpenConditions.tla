--------------------------- MODULE OpenConditions ---------------------------
(***************************************************************************)
(* The open conditions pages of one categorisation: which page leads to    *)
(* which, what is kept of what a browser posts, when the prisoner is found *)
(* unsuitable or not recommended, and what remains of it.                  *)
(*                                                                         *)
(* The questions of a page are answered Yes or No, and form a chain: each  *)
(* is shown, and required, when the one before it is answered Yes.  A      *)
(* browser posts the hidden ones too, with what they held.  The texts that *)
(* go with the answers are left out.                                       *)
(***************************************************************************)
EXTENDS Integers, Sequences

VARIABLES
    leaves,       \* whether this user may leave a page for the tasklist unanswered
    catType,      \* form.cat_type
    women,        \* whether the prison is of the women's estate
    requested,    \* form_response.openConditionsRequested
    doc,          \* form_response.openConditions: the pages with their answers
    page,         \* what the browser shows
    posted        \* what it had shown when the prisoner was found unsuitable

vars == <<leaves, catType, women, requested, doc, page, posted>>
-----------------------------------------------------------------------------
\* The fields of each page: those that may rule open conditions out, and those
\* about risks, with the pages that follow from the answers.
Eligibility ==
    [ tprs                |-> <<"tprsSelected">>,
      earliestReleaseDate |-> <<"fiveOrMoreYears", "justify">>,
      previousSentences   |-> <<"releasedLastFiveYears", "sevenOrMoreYears">>,
      victimContactScheme |-> <<"vcsOptedFor">>,
      sexualOffences      |-> <<"haveTheyBeenEverConvicted", "canTheRiskBeManaged">>,
      foreignNational     |-> <<"isForeignNational", "formCompleted",
                                "dueDeported", "exhaustedAppeal">> ]
Risks ==
    [ riskOfHarm               |-> <<"seriousHarm", "harmManaged">>,
      furtherCharges           |-> <<"furtherCharges", "increasedRisk">>,
      riskLevels               |-> <<"likelyToAbscond">>,
      notRecommended           |-> <<"stillRefer">>,
      openConditionsNotSuitable |-> <<>> ]

Pages == DOMAIN Eligibility \cup DOMAIN Risks

Questions == [p \in Pages |-> IF p \in DOMAIN Eligibility THEN Eligibility[p]
                                                         ELSE Risks[p]]

\* The pages in their order: a recategorisation skips two, the women's
\* tasklist links to the second.
Order == <<"tprs", "earliestReleaseDate", "previousSentences",
           "victimContactScheme", "sexualOffences", "foreignNational",
           "riskOfHarm", "furtherCharges", "riskLevels">>
Skipped == [INITIAL |-> {}, RECAT |-> {"previousSentences", "sexualOffences"}]
First == IF women THEN "earliestReleaseDate" ELSE "tprs"

\* q follows p when some pages are skipped.
Follows(p, q, skipped) == \E i, j \in 1..Len(Order) :
    /\ i < j /\ Order[i] = p /\ Order[j] = q
    /\ q \notin skipped
    /\ \A k \in i + 1..j - 1 : Order[k] \in skipped

\* A slip: the path of a recategorisation for everybody.
MutantNextPages == [t \in {"INITIAL", "RECAT"} |->
    [p \in {Order[i] : i \in 1..8} |->
        CHOOSE q \in Pages : Follows(p, q, Skipped["RECAT"])]]

\* nextPath of each page, for the type of the categorisation.
NextPages == [t \in {"INITIAL", "RECAT"} |->
    [p \in {Order[i] : i \in 1..8} |->
        CHOOSE q \in Pages : Follows(p, q, Skipped[t])]]

\* What a browser may post for a page, and what is kept of a page: "none" for a
\* question whose field is empty.
Inputs(p) == [1..Len(Questions[p]) -> {"Yes", "No", "none"}]

\* A slip: only the question next to a No is cleared.
MutantClearedNext(input) ==
    [i \in DOMAIN input |->
        IF i > 1 /\ input[i - 1] = "No" THEN "none" ELSE input[i]]

\* clearConditionalFields: what is behind a No is dropped.
Cleared(input) ==
    [i \in DOMAIN input |->
        IF \E j \in 1..i - 1 : input[j] = "No" THEN "none" ELSE input[i]]

\* isValid: the first question is required, and each other one when the one
\* before it is answered Yes.
Valid(input) ==
    \A i \in DOMAIN input : i = 1 \/ input[i - 1] = "Yes" => input[i] # "none"

\* The questions that the page shows, and that the user so has answered.
Shown(input, i) == \A j \in 1..i - 1 : input[j] = "Yes"

\* The answer to a question, when its page has been answered.
Answer(d, p, i) == IF p \in DOMAIN d THEN d[p][i] ELSE "none"

\* The answers that end it, in the order of their reasons.
Refusing == { <<"earliestReleaseDate", 2, "No">>,
              <<"foreignNational", 2, "No">>,
              <<"foreignNational", 4, "Yes">>,
              <<"previousSentences", 2, "Yes">> }

Refused(p, answers) == \E r \in Refusing : r[1] = p /\ answers[r[2]] = r[3]

\* The reasons for which open conditions are not recommended.
Reasons(d) ==
    { q \in { <<"sexualOffences", 2, "No">>, <<"riskOfHarm", 2, "No">>,
              <<"furtherCharges", 2, "Yes">>, <<"riskLevels", 1, "Yes">> } :
        /\ Answer(d, q[1], q[2]) = q[3]
        /\ q[1] = "sexualOffences" => Answer(d, q[1], 1) = "Yes" }

Empty == [p \in {} |-> <<>>]
With(p, answers) == [q \in DOMAIN doc \cup {p} |-> IF q = p THEN answers ELSE doc[q]]

\* tasklist.html: openConditionsCompleted.
Completed == "riskLevels" \in DOMAIN doc

TypeOK ==
    /\ leaves \in BOOLEAN
    /\ catType \in {"INITIAL", "RECAT"}
    /\ women \in BOOLEAN /\ requested \in BOOLEAN
    /\ DOMAIN doc \subseteq Pages
    /\ \A p \in DOMAIN doc : /\ doc[p] \in Inputs(p)
                             /\ \A i \in DOMAIN doc[p] :
                                   doc[p][i] # "none" <=> Shown(doc[p], i)
    /\ page \in Pages \cup {"tasklist", "review", "submitted"}
    /\ posted = <<>> \/ \E p \in Pages : posted[1] = p /\ posted[2] \in Inputs(p)

Init ==
    /\ leaves \in BOOLEAN
    /\ catType \in {"INITIAL", "RECAT"}
    /\ women \in BOOLEAN
    /\ requested = FALSE
    /\ doc = Empty
    /\ page = "tasklist"
    /\ posted = <<>>
-----------------------------------------------------------------------------
(* The posts of the pages. *)

\* cancelOpenConditions.
MutantCancel == requested' = FALSE /\ UNCHANGED doc
Cancel == requested' = FALSE /\ doc' = Empty

\* isValid and update, with what clearConditionalFields has left.
Saved(input) == /\ Valid(Cleared(input))
                /\ doc' = With(page, Cleared(input))

\* POST /form/openConditions/:form.
PostPage ==
    /\ page \in Pages \ {"riskLevels", "notRecommended", "openConditionsNotSuitable"}
    /\ \E input \in Inputs(page) :
          \/ /\ ~Refused(page, Cleared(input))
             /\ Saved(input)
             /\ page' = NextPages[catType][page]
             /\ UNCHANGED <<requested, posted>>
          \/ /\ Valid(Cleared(input))
             /\ Refused(page, Cleared(input))
             /\ Cancel
             /\ page' = "openConditionsNotSuitable"
             /\ posted' = <<page, input>>
    /\ UNCHANGED <<leaves, catType, women>>

\* The button of openConditionsNotSuitable, "Back to task list": a post like
\* that of any page, of a page that has no questions.
BackToTaskList ==
    /\ page = "openConditionsNotSuitable"
    /\ doc' = With(page, <<>>)
    /\ page' = "tasklist"
    /\ posted' = <<>>
    /\ UNCHANGED <<leaves, catType, women, requested>>

\* POST /form/openConditions/riskLevels.
MutantPostRiskLevels ==
    /\ page = "riskLevels"
    /\ \E input \in Inputs(page) : Saved(input)
    /\ page' = IF Answer(doc', "riskLevels", 1) = "Yes" THEN "notRecommended"
                                                        ELSE "tasklist"
    /\ UNCHANGED <<leaves, catType, women, requested, posted>>
PostRiskLevels ==
    /\ page = "riskLevels"
    /\ \E input \in Inputs(page) : Saved(input)
    /\ page' = IF Reasons(doc') # {} THEN "notRecommended" ELSE "tasklist"
    /\ UNCHANGED <<leaves, catType, women, requested, posted>>

\* POST /form/openConditions/notRecommended: saved, and taken back on a No.
PostNotRecommended ==
    /\ page = "notRecommended"
    /\ \/ Saved(<<"Yes">>) /\ UNCHANGED requested
       \/ Cancel
    /\ page' = "tasklist"
    /\ UNCHANGED <<leaves, catType, women, posted>>
-----------------------------------------------------------------------------
(* The links between the pages, and the rest of the categorisation. *)

Goto(p) == page' = p /\ UNCHANGED <<leaves, catType, women, requested, doc>>

\* The link of the tasklist.
OpenTask == /\ page = "tasklist" /\ requested
            /\ Goto(First) /\ UNCHANGED posted

\* The browser's button, back to a page that has been answered.
Back == /\ page \in Pages \ {"openConditionsNotSuitable"}
        /\ \E p \in DOMAIN doc \cap {Order[i] : i \in 1..Len(Order)} :
              Goto(p) /\ UNCHANGED posted

\* The tasklist link at the top of every page.
Leave == /\ page \in Pages
         /\ leaves \/ page = "openConditionsNotSuitable"
         /\ Goto("tasklist") /\ posted' = <<>>

\* The review page, once the tasklist has everything, and its Change links.
Review == /\ page = "tasklist" /\ (requested => Completed)
          /\ Goto("review") /\ UNCHANGED posted
Change == /\ page = "review" /\ requested
          /\ \E p \in {Order[i] : i \in 1..Len(Order)} \ Skipped[catType] :
                /\ p = "tprs" => "tprs" \in DOMAIN doc
                /\ Goto(p)
          /\ UNCHANGED posted
Submit == page = "review" /\ Goto("submitted") /\ UNCHANGED posted

\* The supervisor sends it back.
SendBack == page = "submitted" /\ Goto("tasklist") /\ UNCHANGED posted

\* A decision for an open category, and the supervisor who asks for one.
RequireOpenConditions ==
    /\ page \in {"tasklist", "review", "submitted"}
    /\ requested' = TRUE
    /\ page' = "tasklist"
    /\ UNCHANGED <<leaves, catType, women, doc, posted>>

\* A decision for another category.
DecideOtherwise ==
    /\ page \in {"tasklist", "review"}
    /\ Cancel
    /\ page' = "tasklist"
    /\ UNCHANGED <<leaves, catType, women, posted>>

Next == \/ PostPage \/ BackToTaskList \/ PostRiskLevels \/ PostNotRecommended
        \/ OpenTask \/ Back \/ Leave \/ Review \/ Change \/ Submit \/ SendBack
        \/ RequireOpenConditions \/ DecideOtherwise

Spec == Init /\ [][Next]_vars
-----------------------------------------------------------------------------
\* No answer that rules open conditions out is ever kept: it takes everything
\* back at once, also when it replaces another one later on
\* (POST /form/openConditions/:form).
NoRefusingAnswer ==
    \A r \in Refusing : Answer(doc, r[1], r[2]) # r[3]

\* A prisoner is found unsuitable by an answer that the page showed, not by
\* one that the browser posted of a hidden question: clearConditionalFields
\* and the conditions in the pages' configuration are kept apart.
UnsuitableByShownAnswer ==
    posted # <<>> => \E r \in Refusing : /\ r[1] = posted[1]
                                         /\ Shown(posted[2], r[2])
                                         /\ posted[2][r[2]] = r[3]

\* So the answers and the verdict agree, both ways (openConditions.js).
AnswersRuleOut == NoRefusingAnswer /\ UnsuitableByShownAnswer

\* The tasklist takes the last page for all of them: when that is answered,
\* so is every page of this type of categorisation, whatever the way back and
\* the changes were.
CompletedIsWhole ==
    Completed => \A i \in 1..Len(Order) :
        Order[i] \in DOMAIN doc \cup Skipped[catType] \cup {"tprs"}

\* Who does not leave the pages half way submits open conditions that are not
\* recommended only after saying that they are still wanted.
ReferredKnowingly ==
    ~leaves /\ page = "submitted" /\ requested /\ Reasons(doc) # {}
        => Answer(doc, "notRecommended", 1) = "Yes"

\* What is taken back leaves nothing behind, so that views that look for
\* openConditions show none.
NothingLeftBehind == ~requested => doc = Empty

\* The pages keep to the stages that the rest of the categorisation sees.
Stage == IF Completed THEN "COMPLETED"
         ELSE IF DOMAIN doc \subseteq {"openConditionsNotSuitable"} THEN "NONE"
         ELSE "STARTED"
Stages == INSTANCE ConditionsStages WITH conditions <- Stage
StagesSpec == Stages!Spec
=============================================================================
