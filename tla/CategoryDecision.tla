--------------------------- MODULE CategoryDecision ---------------------------
(***************************************************************************)
(* The category itself, on its way through the pages of one categorisation *)
(* (table `form`, column form_response): suggested or chosen by the        *)
(* categoriser, taken through the open conditions pages when it is an open *)
(* one, sent to NOMIS, reviewed, overridden or given back by a supervisor, *)
(* and approved.  The routes of an initial categorisation of a man, of a   *)
(* woman, and of a recategorisation differ.                                *)
(*                                                                         *)
(* A page is fetched and posted in one step: two people do not work on one *)
(* form at once here (CategorisationFlow and FormUpdate say what may then  *)
(* happen), and a page is reached the way the tasklist and the redirects   *)
(* lead to it.  The pages that do not bear on the category are taken as    *)
(* completed.                                                              *)
(***************************************************************************)
CONSTANT
    Kinds        \* the categorisations considered, of the four below

VARIABLES
    kind,        \* initial or recategorisation, of a man or a woman
    ageing,      \* whether the prisoner may turn 21 while it is under way
    young,       \* under 21: isYoungOffender
    current,     \* recat: the category the prisoner has
    status,      \* form.status
    doc,         \* form.form_response: the parts that bear on the category
    nomis,       \* the category of the pending, and of the approved assessment
    screen       \* the supervisor's page

vars == <<kind, ageing, young, current, status, doc, nomis, screen>>
-----------------------------------------------------------------------------
Category == {"B", "C", "D", "I", "J", "R", "T"}
Open == {"D", "J", "T"}             \* OPEN_CONDITIONS_CATEGORIES
Maybe == Category \cup {"NONE"}
Recat == kind \in {"recatMan", "recatWoman"}
Woman == kind \in {"woman", "recatWoman"}

\* catMap: the moves to a more secure category.
Higher == { <<"D", "B">>, <<"D", "C">>, <<"D", "I">>, <<"C", "B">>,
            <<"J", "I">>, <<"J", "C">>, <<"J", "B">>, <<"J", "D">>,
            <<"J", "T">>, <<"J", "R">>, <<"T", "R">>, <<"T", "I">> }

Document ==
    [ suggested  : Maybe,              \* categoriser.provisionalCategory
      overridden : Maybe,              \*   (both of them)
      decision   : Maybe,              \* ratings.decision, or recat.decision
      requested  : BOOLEAN,            \* openConditionsRequested
      conditions : {"NONE", "STARTED", "COMPLETED"},       \* openConditions
      higher     : SUBSET {"full", "mini"},  \* recat.(mini)higherSecurityReview
      review     : Maybe \cup {"AGREE", "MORE"}, \* supervisorDecision
      override   : Maybe,              \* supervisorOverriddenCategory
      message    : {"NONE", "UNREAD", "READ"} ] \* supervisor.confirmBack

Empty == [ suggested |-> "NONE", overridden |-> "NONE", decision |-> "NONE",
           requested |-> FALSE, conditions |-> "NONE", higher |-> {},
           review |-> "NONE", override |-> "NONE", message |-> "NONE" ]

TypeOK ==
    /\ kind \in Kinds
    /\ ageing \in BOOLEAN
    /\ young \in BOOLEAN
    /\ current \in Maybe
    /\ status \in {"STARTED", "AWAITING_APPROVAL", "SUPERVISOR_BACK", "APPROVED"}
    /\ doc \in Document
    /\ nomis \in [pending : Maybe, approved : Maybe]
    /\ screen \in {"review", "changeCategory", "confirmBack", "furtherInformation"}

Init ==
    /\ kind \in Kinds
    /\ ageing \in BOOLEAN
    /\ young \in BOOLEAN
    /\ current \in CASE kind = "recatMan"   -> {"C", "D", "I", "J"}
                    [] kind = "recatWoman" -> {"I", "J", "T"}
                    [] OTHER               -> {"NONE"}
    /\ status = "STARTED"
    /\ doc = Empty
    /\ nomis = [pending |-> "NONE", approved |-> "NONE"]
    /\ screen = "review"
-----------------------------------------------------------------------------
(* The categoriser's pages. *)

\* Editable pages: the tasklist offers them while the form is with the
\* categoriser.
Editing == status \in {"STARTED", "SUPERVISOR_BACK"}

\* allSectionsCompleted, as far as these pages go.
AllSectionsCompleted ==
    /\ Editing
    /\ doc.message # "UNREAD"
    /\ kind # "man" => doc.decision # "NONE"
    /\ doc.requested => doc.conditions = "COMPLETED"

\* A slip: a recategorisation keeps its open decision.
MutantCancelKeepsDecision(d) ==
    LET forgotten == IF Recat THEN d
                     ELSE [d EXCEPT !.suggested = "NONE", !.overridden = "NONE"]
    IN  [forgotten EXCEPT !.requested = FALSE, !.conditions = "NONE"]

\* formService.cancelOpenConditions.
CancelOpenConditions(d) ==
    LET forgotten ==
            IF Recat
            THEN IF d.decision \in Open THEN [d EXCEPT !.decision = "NONE"] ELSE d
            ELSE [d EXCEPT !.suggested = "NONE", !.overridden = "NONE"]
    IN  [forgotten EXCEPT !.requested = FALSE, !.conditions = "NONE"]

\* formService.requiresOpenConditions.
RequiresOpenConditions(d) == [d EXCEPT !.requested = TRUE]

\* What a decision asks of the open conditions.
AfterDecision(d) == IF d.decision \in Open THEN RequiresOpenConditions(d)
                                           ELSE CancelOpenConditions(d)

\* POST /form/ratings/decision (women).
Decision == \E category \in IF young THEN {"I", "J", "R"} ELSE {"R", "T"} :
    /\ kind = "woman" /\ Editing
    /\ doc' = AfterDecision([doc EXCEPT !.decision = category])
    /\ UNCHANGED <<kind, young, current, status, nomis, screen>>

\* A decision for a category that is not higher deletes the security reviews
\* that a higher one had called for.
WithoutReviews(d) ==
    IF \/ <<current, d.decision>> \in Higher
       \/ current = "I" /\ d.decision = "B"
    THEN d ELSE [d EXCEPT !.higher = {}]

\* POST /form/recat/decision.
RecatDecision == \E category \in (IF Woman THEN {"R", "T"} ELSE {"B", "C", "D"})
                                 \cup (IF young THEN {"I", "J"} ELSE {}) :
    /\ Recat /\ Editing
    /\ doc' = WithoutReviews(AfterDecision([doc EXCEPT !.decision = category]))
    /\ UNCHANGED <<kind, young, current, status, nomis, screen>>

\* POST /form/recat/higherSecurityReview and miniHigherSecurityReview, where
\* the decision redirects to them: each deletes the other.
HigherSecurityReview ==
    /\ Recat /\ Editing
    /\ \/ current = "I" /\ doc.decision = "B" /\ doc' = [doc EXCEPT !.higher = {"mini"}]
       \/ <<current, doc.decision>> \in Higher /\ doc' = [doc EXCEPT !.higher = {"full"}]
    /\ UNCHANGED <<kind, young, current, status, nomis, screen>>

\* POST /form/openConditions/:form, answered so that open conditions remain
\* possible, or so that they do not.
OpenConditionsPage ==
    /\ Editing /\ doc.requested
    /\ LET saved == [doc EXCEPT !.conditions = IF @ = "NONE" THEN "STARTED" ELSE @]
       IN  doc' \in {saved, CancelOpenConditions(saved)}
    /\ UNCHANGED <<kind, young, current, status, nomis, screen>>

\* POST /form/openConditions/riskLevels, the last of the pages.  When it leads
\* to notRecommended, that page is answered too: the open conditions stand, or
\* are cancelled.
RiskLevels ==
    /\ Editing /\ doc.requested /\ doc.conditions # "NONE"
    /\ LET saved == [doc EXCEPT !.conditions = "COMPLETED"]
       IN  doc' \in {saved, CancelOpenConditions(saved)}
    /\ UNCHANGED <<kind, young, current, status, nomis, screen>>

\* createOrUpdateCategorisation: the category NOMIS is sent.
NomisCategory(overridden, suggested) ==
    IF overridden # "NONE" THEN overridden ELSE suggested

\* The form goes to the supervisor, who will start at the review page.
Submitted(d, category) ==
    /\ status' = "AWAITING_APPROVAL"
    /\ doc' = d
    /\ nomis' = [nomis EXCEPT !.pending = category]
    /\ screen' = "review"
    /\ UNCHANGED <<kind, young, current>>

\* categoriserDecisionWithFormResponse: what the supervisor had decided is
\* forgotten, though not the category it was changed to.
WithProvisional(suggested, overridden) ==
    [doc EXCEPT !.suggested = suggested, !.overridden = overridden,
                !.review = "NONE"]

\* POST /form/categoriser/provisionalCategory (men).  The suggestion is I for
\* the young, and else follows from answers not modelled here.
ProvisionalCategory ==
    /\ kind = "man" /\ AllSectionsCompleted /\ ~doc.requested
    /\ \E suggested \in IF young THEN {"I"} ELSE {"B", "C"},
          overridden \in {"NONE"} \cup (IF young THEN {"J"} ELSE {"B", "C", "D"}) :
          /\ overridden # suggested
          /\ IF overridden \in Open
             THEN /\ doc' = RequiresOpenConditions(
                       [doc EXCEPT !.suggested = suggested, !.overridden = overridden])
                  /\ UNCHANGED <<kind, young, current, status, nomis, screen>>
             ELSE Submitted(WithProvisional(suggested, overridden),
                            NomisCategory(overridden, suggested))

\* POST /form/openConditions/provisionalCategory (men): the page suggests the
\* open category of the prisoner's age, and carries the rest in hidden fields.
OpenProvisionalCategory ==
    LET category == IF young THEN "J" ELSE "D"
        suggested == IF doc.suggested # "NONE" THEN doc.suggested ELSE category
    IN  /\ kind = "man" /\ AllSectionsCompleted /\ doc.requested
        /\ \/ Submitted(WithProvisional(suggested, doc.overridden),
                        NomisCategory("NONE", category))
           \/ /\ doc' = CancelOpenConditions(doc)
              /\ UNCHANGED <<kind, young, current, status, nomis, screen>>

\* POST /form/categoriser/review (women).
Review ==
    /\ kind = "woman" /\ AllSectionsCompleted
    /\ Submitted(WithProvisional(doc.decision, "NONE"), NomisCategory("NONE", doc.decision))

\* POST /form/recat/review: a recategorisation keeps its decision where it is,
\* and what the supervisor had decided.
RecatReview ==
    /\ Recat /\ AllSectionsCompleted
    /\ Submitted(doc, NomisCategory("NONE", doc.decision))

\* POST /form/supervisor/supervisorMessage: the categoriser reads the message.
MessageRead ==
    /\ Editing /\ doc.message = "UNREAD"
    /\ doc' = [doc EXCEPT !.message = "READ"]
    /\ UNCHANGED <<kind, young, current, status, nomis, screen>>
-----------------------------------------------------------------------------
(* The supervisor's pages. *)

\* The categoriser's category, as the pages of the supervisor show it.
Recommended(d) == IF Recat THEN d.decision
                  ELSE IF d.overridden # "NONE" THEN d.overridden ELSE d.suggested

\* The decisions offered, besides agreeing and asking for more.
Offered ==
    ( (IF young THEN {"I", "J"} ELSE {})
      \cup (IF Woman THEN {"T", "R"} ELSE {"B", "C", "D"}) )
    \ {Recommended(doc)}

\* A slip: the fields of an earlier decision are kept.
MutantReviewMerged(d, decision) ==
    [d EXCEPT !.review = decision,
              !.override = IF decision \in Category THEN decision ELSE @]

\* A slip: any decision is taken down as a category.
MutantOverrideUnchecked(d, decision) ==
    [d EXCEPT !.review = decision, !.override = decision]

\* The supervisor's decision replaces the one before.
WithReview(d, decision) ==
    [d EXCEPT !.review = decision,
              !.override = IF decision \in Category THEN decision ELSE "NONE"]

\* POST /form/supervisor/review.
SupervisorReview == \E decision \in {"AGREE", "MORE"} \cup Offered :
    /\ status = "AWAITING_APPROVAL"
    /\ doc' = WithReview(doc, decision)
    /\ screen' = CASE decision = "AGREE"                    -> "furtherInformation"
                   [] decision = "MORE" \/ decision \in Open -> "confirmBack"
                   [] OTHER                                  -> "changeCategory"
    /\ UNCHANGED <<kind, young, current, status, nomis>>

\* POST /form/supervisor/change-category: give it back, or not.
ChangeCategory ==
    /\ status = "AWAITING_APPROVAL" /\ screen = "changeCategory"
    /\ screen' \in {"confirmBack", "furtherInformation"}
    /\ UNCHANGED <<kind, young, current, status, doc, nomis>>

\* What giving the form back for an open category makes of it: the categoriser
\* decides again, with the open conditions.
ForOpenConditions(d) ==
    IF d.override \notin Open THEN d
    ELSE RequiresOpenConditions(
           IF Recat THEN [d EXCEPT !.decision = "NONE"]
           ELSE [d EXCEPT !.suggested = "NONE", !.overridden = "NONE",
                          !.decision = "NONE"])

\* POST /form/supervisor/confirmBack: back to the categoriser with a message.
ConfirmBack ==
    /\ status = "AWAITING_APPROVAL" /\ screen = "confirmBack"
    /\ doc' = ForOpenConditions([doc EXCEPT !.message = "UNREAD"])
    /\ status' = "SUPERVISOR_BACK"
    /\ UNCHANGED <<kind, young, current, nomis, screen>>

\* POST /form/supervisor/further-information: NOMIS is told to approve the
\* category the supervisor changed to, or else the one proposed.
FurtherInformation ==
    /\ status = "AWAITING_APPROVAL" /\ screen = "furtherInformation"
    /\ status' = "APPROVED"
    /\ nomis' = [nomis EXCEPT !.approved = IF doc.review \in Category THEN doc.review
                                           ELSE Recommended(doc)]
    /\ UNCHANGED <<kind, young, current, doc, screen>>

\* The prisoner turns 21.
Birthday ==
    /\ ageing /\ young
    /\ young' = FALSE
    /\ UNCHANGED <<kind, current, status, doc, nomis, screen>>
-----------------------------------------------------------------------------
Next ==
    /\ \/ Decision \/ RecatDecision \/ HigherSecurityReview
       \/ OpenConditionsPage \/ RiskLevels
       \/ ProvisionalCategory \/ OpenProvisionalCategory
       \/ Review \/ RecatReview \/ MessageRead
       \/ SupervisorReview \/ ChangeCategory \/ ConfirmBack \/ FurtherInformation
       \/ Birthday
    /\ UNCHANGED ageing

Spec == Init /\ [][Next]_vars
-----------------------------------------------------------------------------
\* The category the supervisor is asked to approve is the one NOMIS was sent:
\* the form and NOMIS keep it separately, on every route.
AwaitingMatchesNomis ==
    status = "AWAITING_APPROVAL" => nomis.pending = Recommended(doc)

\* The category that approvedView shows as the outcome.
Outcome == IF doc.override # "NONE" THEN doc.override ELSE Recommended(doc)

\* The outcome that the form goes on to show is the category NOMIS approved,
\* whatever the supervisor had decided, and withdrawn, before.
ApprovedMatchesForm == status = "APPROVED" => nomis.approved = Outcome

\* An open category reaches the supervisor, or is approved, only with the open
\* conditions asked for and completed: not after they were cancelled because
\* the prisoner was found unsuitable, and not by an override.
OpenNeedsConditions ==
    \/ /\ status = "AWAITING_APPROVAL" /\ Recommended(doc) \in Open
    \/ /\ status = "APPROVED" /\ Outcome \in Open
    => doc.requested /\ doc.conditions = "COMPLETED"

\* A higher security review accompanies a recategorisation only if the category
\* is a higher one, and is then the one that the move calls for.
HigherReviewMatches ==
    status = "AWAITING_APPROVAL" =>
        /\ "full" \in doc.higher => <<current, doc.decision>> \in Higher
        /\ "mini" \in doc.higher => current = "I" /\ doc.decision = "B"

\* So the three places in which the category is kept agree, on every route, and
\* the security review with them: the category that is proposed is the one
\* NOMIS was sent unless the prisoner turns 21 (form.js, recat.js).
CategoryInStep ==
    /\ ApprovedMatchesForm /\ HigherReviewMatches
    /\ ~ageing => AwaitingMatchesNomis

\* An open category is submitted or approved only with the open conditions
\* completed, also of one who turns 21 meanwhile; an initial categorisation of
\* a woman is the exception (formService.cancelOpenConditions).
OpenHasConditions == kind # "woman" => OpenNeedsConditions
=============================================================================
