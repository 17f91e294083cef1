--------------------------- MODULE CategoryProofs ---------------------------
(***************************************************************************)
(* Proofs about the categories of prisoners: what CategoryDecision         *)
(* promises of the one that a form decides, and LiteCategory of the one    *)
(* that the short form does.                                               *)
(***************************************************************************)
EXTENDS CategoryDecision, LiteCategory, FiniteSetTheorems,
        WellFoundedInduction, TLAPS
-----------------------------------------------------------------------------
(***************************************************************************)
(* Proofs of what CategoryDecision promises, for the kinds of              *)
(* categorisation each promise holds of.  The form and NOMIS keep the      *)
(* category separately, and the supervisor's page a third time: the        *)
(* invariants say what each of the document's fields then still stands     *)
(* for, in the states between.                                             *)
(***************************************************************************)

\* The open category of the prisoner's age.
OpenOfAge == IF young THEN "J" ELSE "D"

\* On his way through the open conditions a man's category, where the form
\* holds one, is the open one of his age.
ProvisionalOfAge ==
    kind = "man" /\ doc.requested =>
        /\ doc.overridden \in {"NONE", OpenOfAge}
        /\ doc.overridden = "NONE" => doc.suggested \in {"NONE", OpenOfAge}

\* A recategorisation decides for an open category only by asking for the
\* open conditions.
DecisionAsks == Recat /\ doc.decision \in Open => doc.requested

\* Past the page of the decision, the supervisor's category is the one decided
\* there, and not an open one.
OverrideInStep ==
    status = "AWAITING_APPROVAL" /\ screen \in {"changeCategory", "furtherInformation"} =>
        /\ doc.override = IF doc.review \in Category THEN doc.review ELSE "NONE"
        /\ doc.override \notin Open

\* A security review is that of a recategorisation, and of the move decided
\* for, unless that is to be decided again.
ReviewsInStep ==
    /\ ~Recat => doc.higher = {}
    /\ "full" \in doc.higher =>
           /\ current # "I"
           /\ doc.decision = "NONE" \/ <<current, doc.decision>> \in Higher
    /\ "mini" \in doc.higher =>
           current = "I" /\ doc.decision \in {"NONE", "B"}
-----------------------------------------------------------------------------
(* What the edits of the document leave in it. *)

\* Open conditions cancelled: nothing asks for them any more, and the category
\* is to be decided again.
LEMMA Cancelled ==
    ASSUME NEW d \in Document, NEW c, c = CancelOpenConditions(d)
    PROVE  /\ c \in Document
           /\ ~c.requested /\ c.higher = d.higher
           /\ c.review = d.review /\ c.override = d.override
           /\ c.message = d.message
           /\ Recat => /\ c.suggested = d.suggested
                       /\ c.overridden = d.overridden
                       /\ c.decision = IF d.decision \in Open THEN "NONE"
                                       ELSE d.decision
           /\ ~Recat => /\ c.suggested = "NONE" /\ c.overridden = "NONE"
                        /\ c.decision = d.decision
<1>1. CASE Recat /\ d.decision \in Open
  <2>1. c = [d EXCEPT !.decision = "NONE", !.requested = FALSE,
                      !.conditions = "NONE"]
    BY <1>1 DEF CancelOpenConditions, Document
  <2>. QED
    BY <1>1, <2>1 DEF Document, Maybe
<1>2. CASE Recat /\ d.decision \notin Open
  <2>1. c = [d EXCEPT !.requested = FALSE, !.conditions = "NONE"]
    BY <1>2 DEF CancelOpenConditions
  <2>. QED
    BY <1>2, <2>1 DEF Document
<1>3. CASE ~Recat
  BY <1>3 DEF CancelOpenConditions, Document, Maybe
<1>. QED
  BY <1>1, <1>2, <1>3

\* Open conditions required: nothing else changes.
LEMMA Required ==
    ASSUME NEW d \in Document, NEW c, c = RequiresOpenConditions(d)
    PROVE  /\ c \in Document /\ c.requested
           /\ c.suggested = d.suggested /\ c.overridden = d.overridden
           /\ c.decision = d.decision /\ c.higher = d.higher
           /\ c.review = d.review /\ c.override = d.override
           /\ c.conditions = d.conditions
  BY DEF RequiresOpenConditions, Document

\* The category that the categoriser recommends goes to NOMIS as a member of
\* its categories.
LEMMA RecommendedMaybe ==
    ASSUME NEW d \in Document PROVE Recommended(d) \in Maybe
  BY DEF Recommended, Document

LEMMA AfterDecisionDoc ==
    ASSUME NEW d \in Document
    PROVE  AfterDecision(d) \in Document /\ WithoutReviews(d) \in Document
<1>1. AfterDecision(d) \in Document
  BY Cancelled, Required DEF AfterDecision
<1>2. WithoutReviews(d) \in Document
  BY DEF WithoutReviews, Document
<1>. QED
  BY <1>1, <1>2

LEMMA InitTypeOK == Init => TypeOK
<1>. SUFFICES ASSUME Init PROVE TypeOK
  OBVIOUS
<1>1. current \in Maybe
  BY DEF Init, Maybe, Category
<1>2. doc \in Document
  BY DEF Init, Empty, Document, Maybe
<1>. QED
  BY <1>1, <1>2 DEF Init, TypeOK, Maybe

LEMMA SubmittedType ==
    ASSUME TypeOK, NEW d \in Document, NEW category \in Maybe,
           Submitted(d, category), UNCHANGED ageing
    PROVE  TypeOK'
  BY DEF TypeOK, Submitted

\* Whether the prisoner may turn 21 is settled from the beginning.
LEMMA SameAgeing ==
    ASSUME [Next]_vars
    PROVE  UNCHANGED ageing
  BY DEF Next, vars

\* The document with a provisional category keeps its other fields.
LEMMA Provisional ==
    ASSUME doc \in Document, NEW s \in Maybe, NEW o \in Maybe
    PROVE  LET d == WithProvisional(s, o)
           IN  /\ d \in Document
               /\ d.decision = doc.decision /\ d.higher = doc.higher
               /\ d.requested = doc.requested /\ d.conditions = doc.conditions
<1>. DEFINE d == [ suggested |-> s, overridden |-> o, decision |-> doc.decision,
                   requested |-> doc.requested, conditions |-> doc.conditions,
                   higher |-> doc.higher, review |-> "NONE",
                   override |-> doc.override, message |-> doc.message ]
<1>1. WithProvisional(s, o) = d
  <2>1. [doc EXCEPT !.suggested = s] =
           [ suggested |-> s, overridden |-> doc.overridden, decision |-> doc.decision,
             requested |-> doc.requested, conditions |-> doc.conditions,
             higher |-> doc.higher, review |-> doc.review,
             override |-> doc.override, message |-> doc.message ]
    BY DEF Document
  <2>2. WithProvisional(s, o) = [ [ [doc EXCEPT !.suggested = s]
                                   EXCEPT !.overridden = o] EXCEPT !.review = "NONE"]
    BY DEF WithProvisional
  <2>. QED
    BY <2>1, <2>2
<1>2. "NONE" \in Maybe
  BY DEF Maybe
<1>3. d \in Document
  BY <1>2 DEF Document
<1>. QED
  BY <1>1, <1>3

\* So does the document with the supervisor's decision.
LEMMA Decided ==
    ASSUME doc \in Document, NEW decision \in {"AGREE", "MORE"} \cup Category
    PROVE  WithReview(doc, decision) \in Document
<1>. DEFINE chosen == IF decision \in Category THEN decision ELSE "NONE"
<1>1. chosen \in Maybe /\ decision \in Maybe \cup {"AGREE", "MORE"}
  BY DEF Maybe
<1>2. WithReview(doc, decision) = [doc EXCEPT !.review = decision, !.override = chosen]
  BY DEF WithReview
<1>. HIDE DEF chosen
<1>3. [doc EXCEPT !.review = decision] \in Document
  BY <1>1 DEF Document
<1>. QED
  BY <1>1, <1>2, <1>3 DEF Document

LEMMA NextTypeOK ==
    ASSUME TypeOK, [Next]_vars
    PROVE  TypeOK'
<1>. UNCHANGED ageing
  BY SameAgeing
<1>0. doc \in Document
  BY DEF TypeOK
<1>1. CASE Decision
  <2>1. PICK category \in {"I", "J", "R", "T"} :
           doc' = AfterDecision([doc EXCEPT !.decision = category])
    BY <1>1 DEF Decision
  <2>2. [doc EXCEPT !.decision = category] \in Document
    BY <1>0 DEF Document, Maybe, Category
  <2>. QED
    BY <1>1, <2>1, <2>2, AfterDecisionDoc DEF Decision, TypeOK
<1>2. CASE RecatDecision
  <2>1. PICK category \in Category :
           doc' = WithoutReviews(AfterDecision([doc EXCEPT !.decision = category]))
    BY <1>2 DEF RecatDecision, Category
  <2>2. [doc EXCEPT !.decision = category] \in Document
    BY <1>0 DEF Document, Maybe
  <2>. QED
    BY <1>2, <2>1, <2>2, AfterDecisionDoc DEF RecatDecision, TypeOK
<1>3. CASE HigherSecurityReview
  BY <1>0, <1>3 DEF HigherSecurityReview, TypeOK, Document
<1>4. CASE OpenConditionsPage
  <2>. DEFINE saved == [doc EXCEPT !.conditions = IF @ = "NONE" THEN "STARTED" ELSE @]
  <2>1. saved \in Document
    BY <1>0 DEF Document
  <2>. QED
    BY <1>4, <2>1, Cancelled DEF OpenConditionsPage, TypeOK
<1>5. CASE RiskLevels
  <2>. DEFINE saved == [doc EXCEPT !.conditions = "COMPLETED"]
  <2>1. saved \in Document
    BY <1>0 DEF Document
  <2>. QED
    BY <1>5, <2>1, Cancelled DEF RiskLevels, TypeOK
<1>6. CASE ProvisionalCategory
  <2>1. PICK suggested \in Category, overridden \in Maybe :
           IF overridden \in Open
           THEN /\ doc' = RequiresOpenConditions(
                     [doc EXCEPT !.suggested = suggested, !.overridden = overridden])
                /\ UNCHANGED <<kind, young, current, status, nomis, screen>>
           ELSE Submitted(WithProvisional(suggested, overridden),
                          NomisCategory(overridden, suggested))
    BY <1>6 DEF ProvisionalCategory, Category, Maybe
  <2>2. [doc EXCEPT !.suggested = suggested, !.overridden = overridden] \in Document
    BY <1>0 DEF Document, Maybe
  <2>3. WithProvisional(suggested, overridden) \in Document
    BY <1>0, Provisional DEF Maybe
  <2>4. NomisCategory(overridden, suggested) \in Maybe
    BY DEF NomisCategory, Maybe
  <2>. QED
    BY <2>1, <2>2, <2>3, <2>4, Required, SubmittedType DEF TypeOK
<1>7. CASE OpenProvisionalCategory
  <2>. DEFINE category == IF young THEN "J" ELSE "D"
              suggested == IF doc.suggested # "NONE" THEN doc.suggested ELSE category
  <2>1. suggested \in Maybe /\ doc.overridden \in Maybe
    BY <1>0 DEF Document, Maybe, Category
  <2>. HIDE DEF suggested
  <2>2. WithProvisional(suggested, doc.overridden) \in Document
    BY <1>0, <2>1, Provisional
  <2>3. NomisCategory("NONE", category) \in Maybe
    BY DEF NomisCategory, Maybe, Category
  <2>4. CASE Submitted(WithProvisional(suggested, doc.overridden),
                       NomisCategory("NONE", category))
    BY <2>2, <2>3, <2>4, SubmittedType
  <2>5. CASE doc' = CancelOpenConditions(doc)
             /\ UNCHANGED <<kind, young, current, status, nomis, screen>>
    BY <1>0, <2>5, Cancelled DEF TypeOK
  <2>. QED
    BY <1>7, <2>4, <2>5 DEF OpenProvisionalCategory, suggested
<1>8. CASE Review
  <2>1. doc.decision \in Maybe
    BY <1>0 DEF Document
  <2>2. WithProvisional(doc.decision, "NONE") \in Document
    BY <1>0, <2>1, Provisional DEF Maybe
  <2>. QED
    BY <1>8, <2>1, <2>2, SubmittedType DEF Review, NomisCategory
<1>9. CASE RecatReview
  <2>1. doc.decision \in Maybe
    BY <1>0 DEF Document
  <2>. QED
    BY <1>0, <1>9, <2>1, SubmittedType DEF RecatReview, NomisCategory
<1>10. CASE MessageRead
  BY <1>0, <1>10 DEF MessageRead, TypeOK, Document
<1>11. CASE SupervisorReview
  <2>1. PICK decision \in {"AGREE", "MORE"} \cup Category :
           /\ doc' = WithReview(doc, decision)
           /\ screen' \in {"furtherInformation", "confirmBack", "changeCategory"}
    BY <1>11 DEF SupervisorReview, Offered, Category
  <2>2. doc' \in Document
    BY <1>0, <2>1, Decided
  <2>. QED
    BY <1>11, <2>1, <2>2 DEF SupervisorReview, TypeOK
<1>12. CASE ChangeCategory
  BY <1>12 DEF ChangeCategory, TypeOK
<1>13. CASE ConfirmBack
  <2>. DEFINE d == [doc EXCEPT !.message = "UNREAD"]
              e == IF Recat THEN [d EXCEPT !.decision = "NONE"]
                   ELSE [d EXCEPT !.suggested = "NONE", !.overridden = "NONE",
                                  !.decision = "NONE"]
  <2>1. d \in Document
    BY <1>0 DEF Document
  <2>2. e \in Document
    BY <2>1 DEF Document, Maybe
  <2>3. ForOpenConditions(d) \in Document
    BY <2>1, <2>2, Required DEF ForOpenConditions
  <2>. QED
    BY <1>13, <2>3 DEF ConfirmBack, TypeOK
<1>14. CASE FurtherInformation
  <2>1. (IF doc.review \in Category THEN doc.review ELSE Recommended(doc)) \in Maybe
    BY <1>0, RecommendedMaybe DEF Maybe
  <2>. QED
    BY <1>14, <2>1 DEF FurtherInformation, TypeOK
<1>15. CASE Birthday
  BY <1>15 DEF Birthday, TypeOK
<1>16. CASE UNCHANGED vars
  BY <1>16 DEF vars, TypeOK
<1>. QED
  BY <1>1, <1>2, <1>3, <1>4, <1>5, <1>6, <1>7, <1>8, <1>9, <1>10, <1>11,
     <1>12, <1>13, <1>14, <1>15, <1>16 DEF Next

\* The document, NOMIS's categories and the supervisor's page keep their types.
THEOREM TypeCorrect == Spec => []TypeOK
<1>. QED
  BY InitTypeOK, NextTypeOK, PTL DEF Spec
-----------------------------------------------------------------------------
(* The steps. *)

\* The form is submitted with document d, of which the fields that say what
\* leads to its category are as they were.
Submission(d) ==
    /\ AllSectionsCompleted /\ d \in Document
    /\ \E category \in Maybe : Submitted(d, category)
    /\ d.decision = doc.decision /\ d.higher = doc.higher
    /\ d.requested = doc.requested /\ d.conditions = doc.conditions

\* A page of the categoriser's that leaves the form in his hands.
Kept == Editing /\ UNCHANGED <<kind, young, current, status, nomis, screen>>

LEMMA Submissions ==
    ASSUME TypeOK,
           ProvisionalCategory \/ OpenProvisionalCategory \/ Review \/ RecatReview
    PROVE  \/ \E d \in Document : Submission(d)
           \/ /\ Kept /\ ~Recat /\ doc' \in Document
              /\ doc'.higher = doc.higher
<1>0. doc \in Document
  BY DEF TypeOK
<1>1. CASE ProvisionalCategory
  <2>1. PICK suggested \in Category, overridden \in Maybe :
           IF overridden \in Open
           THEN /\ doc' = RequiresOpenConditions(
                     [doc EXCEPT !.suggested = suggested, !.overridden = overridden])
                /\ UNCHANGED <<kind, young, current, status, nomis, screen>>
           ELSE Submitted(WithProvisional(suggested, overridden),
                          NomisCategory(overridden, suggested))
    BY <1>1 DEF ProvisionalCategory, Category, Maybe
  <2>. DEFINE e == [doc EXCEPT !.suggested = suggested, !.overridden = overridden]
              d == WithProvisional(suggested, overridden)
  <2>2. e \in Document /\ e.higher = doc.higher
    BY <1>0 DEF Document, Maybe
  <2>3. /\ d \in Document
        /\ d.decision = doc.decision /\ d.higher = doc.higher
        /\ d.requested = doc.requested /\ d.conditions = doc.conditions
    BY <1>0, Provisional DEF Maybe
  <2>4. NomisCategory(overridden, suggested) \in Maybe
    BY DEF NomisCategory, Maybe
  <2>5. AllSectionsCompleted /\ Editing /\ ~Recat
    BY <1>1 DEF ProvisionalCategory, AllSectionsCompleted, Recat
  <2>. HIDE DEF e, d
  <2>6. CASE overridden \in Open
    <3>1. doc' = RequiresOpenConditions(e)
      BY <2>1, <2>6 DEF e
    <3>. QED
      BY <2>1, <2>2, <2>5, <2>6, <3>1, Required DEF Kept
  <2>7. CASE overridden \notin Open
    BY <2>1, <2>3, <2>4, <2>5, <2>7 DEF Submission, d
  <2>. QED
    BY <2>6, <2>7
<1>2. CASE OpenProvisionalCategory
  <2>. DEFINE category == IF young THEN "J" ELSE "D"
              suggested == IF doc.suggested # "NONE" THEN doc.suggested ELSE category
              d == WithProvisional(suggested, doc.overridden)
  <2>1. suggested \in Maybe /\ doc.overridden \in Maybe
    BY <1>0 DEF Document, Maybe, Category
  <2>2. /\ d \in Document
        /\ d.decision = doc.decision /\ d.higher = doc.higher
        /\ d.requested = doc.requested /\ d.conditions = doc.conditions
    <3>. HIDE DEF suggested
    <3>. QED
      BY <1>0, <2>1, Provisional
  <2>3. NomisCategory("NONE", category) \in Maybe
    BY DEF NomisCategory, Maybe, Category
  <2>4. AllSectionsCompleted /\ Editing /\ ~Recat
    BY <1>2 DEF OpenProvisionalCategory, AllSectionsCompleted, Recat
  <2>5. CASE Submitted(d, NomisCategory("NONE", category))
    BY <2>2, <2>3, <2>4, <2>5 DEF Submission
  <2>6. CASE doc' = CancelOpenConditions(doc)
             /\ UNCHANGED <<kind, young, current, status, nomis, screen>>
    BY <1>0, <2>4, <2>6, Cancelled DEF Kept
  <2>. QED
    BY <1>2, <2>5, <2>6 DEF OpenProvisionalCategory
<1>3. CASE Review
  <2>. DEFINE d == WithProvisional(doc.decision, "NONE")
  <2>1. doc.decision \in Maybe
    BY <1>0 DEF Document
  <2>2. /\ d \in Document
        /\ d.decision = doc.decision /\ d.higher = doc.higher
        /\ d.requested = doc.requested /\ d.conditions = doc.conditions
    BY <1>0, <2>1, Provisional DEF Maybe
  <2>. QED
    BY <1>3, <2>1, <2>2 DEF Review, NomisCategory, Submission
<1>4. CASE RecatReview
  <2>1. doc.decision \in Maybe
    BY <1>0 DEF Document
  <2>. QED
    BY <1>0, <1>4, <2>1 DEF RecatReview, NomisCategory, Submission
<1>. QED
  BY <1>1, <1>2, <1>3, <1>4

LEMMA CategoriserPages ==
    ASSUME Decision \/ RecatDecision \/ HigherSecurityReview \/ OpenConditionsPage
           \/ RiskLevels \/ MessageRead
    PROVE  Kept
BY DEF Kept, Decision, RecatDecision, HigherSecurityReview, OpenConditionsPage,
       RiskLevels, MessageRead

\* What the supervisor decides is what the next pages go on with, and what is
\* approved is what the form then shows.
LEMMA OverrideStep ==
    ASSUME TypeOK, OverrideInStep, ApprovedMatchesForm, [Next]_vars
    PROVE  OverrideInStep' /\ ApprovedMatchesForm'
<1>0. doc \in Document /\ nomis \in [pending : Maybe, approved : Maybe]
  BY DEF TypeOK
<1>1. ASSUME Kept PROVE OverrideInStep' /\ ApprovedMatchesForm'
  BY <1>1 DEF Kept, Editing, OverrideInStep, ApprovedMatchesForm
<1>2. ASSUME NEW d \in Document, Submission(d)
      PROVE  OverrideInStep' /\ ApprovedMatchesForm'
  BY <1>2 DEF Submission, Submitted, OverrideInStep, ApprovedMatchesForm
<1>3. CASE SupervisorReview
  <2>1. PICK decision \in {"AGREE", "MORE"} \cup Category :
           /\ doc' = WithReview(doc, decision)
           /\ screen' = CASE decision = "AGREE" -> "furtherInformation"
                          [] decision = "MORE" \/ decision \in Open -> "confirmBack"
                          [] OTHER -> "changeCategory"
    BY <1>3 DEF SupervisorReview, Offered, Category
  <2>2. /\ doc'.review = decision
        /\ doc'.override = IF decision \in Category THEN decision ELSE "NONE"
    BY <1>0, <2>1 DEF WithReview, Document
  <2>3. decision \in Open => screen' = "confirmBack"
    BY <2>1 DEF Open
  <2>4. OverrideInStep'
    BY <2>2, <2>3 DEF OverrideInStep, Open
  <2>. QED
    BY <1>3, <2>4 DEF SupervisorReview, ApprovedMatchesForm
<1>4. CASE ChangeCategory
  BY <1>4 DEF ChangeCategory, OverrideInStep, ApprovedMatchesForm
<1>5. CASE ConfirmBack
  BY <1>5 DEF ConfirmBack, OverrideInStep, ApprovedMatchesForm
<1>6. CASE FurtherInformation
  <2>1. doc.override = IF doc.review \in Category THEN doc.review ELSE "NONE"
    BY <1>6 DEF FurtherInformation, OverrideInStep
  <2>2. nomis'.approved = IF doc.review \in Category THEN doc.review
                          ELSE Recommended(doc)
    BY <1>0, <1>6 DEF FurtherInformation
  <2>3. Outcome' = Outcome
    BY <1>6 DEF FurtherInformation, Outcome, Recommended, Recat
  <2>. QED
    BY <1>6, <2>1, <2>2, <2>3
       DEF FurtherInformation, OverrideInStep, ApprovedMatchesForm, Outcome,
           Category
<1>7. CASE Birthday \/ UNCHANGED vars
  BY <1>7 DEF Birthday, vars, OverrideInStep, ApprovedMatchesForm, Outcome,
              Recommended, Recat
<1>. QED
  BY <1>1, <1>2, <1>3, <1>4, <1>5, <1>6, <1>7, CategoriserPages, Submissions
     DEF Next

\* A decision for another category deletes the review it no longer calls for.
LEMMA ReviewsStep ==
    ASSUME TypeOK, ReviewsInStep, HigherReviewMatches, [Next]_vars
    PROVE  ReviewsInStep' /\ HigherReviewMatches'
<1>0. doc \in Document
  BY DEF TypeOK
<1>1. ASSUME Kept, ReviewsInStep' PROVE HigherReviewMatches'
  BY <1>1 DEF Kept, Editing, HigherReviewMatches
<1>2. CASE Decision
  <2>1. PICK category \in Category :
           doc' = AfterDecision([doc EXCEPT !.decision = category])
    BY <1>2 DEF Decision, Category
  <2>. DEFINE d == [doc EXCEPT !.decision = category]
  <2>2. d \in Document /\ d.higher = doc.higher
    BY <1>0 DEF Document, Maybe
  <2>3. AfterDecision(d).higher = d.higher
    BY <2>2, Cancelled, Required DEF AfterDecision
  <2>4. Kept /\ ~Recat
    BY <1>2, CategoriserPages DEF Decision, Recat
  <2>5. ReviewsInStep'
    BY <2>1, <2>2, <2>3, <2>4 DEF ReviewsInStep, Kept, Recat
  <2>. QED
    BY <1>1, <2>4, <2>5
<1>3. CASE RecatDecision
  <2>1. PICK category \in Category :
           doc' = WithoutReviews(AfterDecision([doc EXCEPT !.decision = category]))
    BY <1>3 DEF RecatDecision, Category
  <2>. DEFINE d == [doc EXCEPT !.decision = category]
              e == AfterDecision(d)
  <2>2. d \in Document /\ d.higher = doc.higher /\ d.decision = category
    BY <1>0 DEF Document, Maybe
  <2>3. e \in Document /\ e.higher = d.higher /\ e.decision = category
    <3>1. CASE category \in Open
      BY <2>2, <3>1, Required DEF AfterDecision
    <3>2. CASE category \notin Open
      <4>1. e = CancelOpenConditions(d)
        BY <2>2, <3>2 DEF AfterDecision
      <4>2. d.decision = category
        BY <2>2
      <4>. HIDE DEF d, e
      <4>. QED
        BY <2>2, <3>2, <4>1, <4>2, Cancelled
    <3>. QED
      BY <3>1, <3>2
  <2>4. Kept /\ Recat
    BY <1>3, CategoriserPages DEF RecatDecision
  <2>. HIDE DEF d, e
  <2>5. CASE \/ <<current, e.decision>> \in Higher
             \/ current = "I" /\ e.decision = "B"
    <3>1. doc' = e
      BY <2>1, <2>5 DEF WithoutReviews, e, d
    <3>2. current = "I" => <<current, e.decision>> \notin Higher
      BY DEF Higher
    <3>. QED
      BY <1>1, <2>2, <2>3, <2>4, <2>5, <3>1, <3>2 DEF ReviewsInStep, Kept, Recat
  <2>6. CASE ~(\/ <<current, e.decision>> \in Higher
               \/ current = "I" /\ e.decision = "B")
    <3>1. doc' = [e EXCEPT !.higher = {}]
      BY <2>1, <2>6 DEF WithoutReviews, e, d
    <3>2. doc'.higher = {}
      BY <2>3, <3>1 DEF Document
    <3>. QED
      BY <1>1, <2>4, <3>2 DEF ReviewsInStep
  <2>. QED
    BY <1>1, <2>4, <2>5, <2>6
<1>4. CASE HigherSecurityReview
  <2>1. Kept /\ Recat
    BY <1>4, CategoriserPages DEF HigherSecurityReview
  <2>2. CASE current = "I" /\ doc.decision = "B"
             /\ doc' = [doc EXCEPT !.higher = {"mini"}]
    <3>1. doc'.higher = {"mini"} /\ doc'.decision = doc.decision
      BY <1>0, <2>2 DEF Document
    <3>. QED
      BY <1>1, <2>1, <2>2, <3>1 DEF ReviewsInStep, Kept, Recat
  <2>3. CASE <<current, doc.decision>> \in Higher
             /\ doc' = [doc EXCEPT !.higher = {"full"}]
    <3>1. doc'.higher = {"full"} /\ doc'.decision = doc.decision
      BY <1>0, <2>3 DEF Document
    <3>2. current # "I"
      BY <2>3 DEF Higher
    <3>. QED
      BY <1>1, <2>1, <2>3, <3>1, <3>2 DEF ReviewsInStep, Kept, Recat
  <2>. QED
    BY <1>4, <2>2, <2>3 DEF HigherSecurityReview
<1>5. CASE OpenConditionsPage \/ RiskLevels
  <2>1. PICK conditions \in {"STARTED", "COMPLETED"} :
           LET saved == [doc EXCEPT !.conditions = conditions]
           IN  doc' \in {saved, CancelOpenConditions(saved)}
    <3>1. CASE OpenConditionsPage
      <4>1. (IF doc.conditions = "NONE" THEN "STARTED" ELSE doc.conditions)
                \in {"STARTED", "COMPLETED"}
        BY <1>0 DEF Document
      <4>. QED
        BY <3>1, <4>1 DEF OpenConditionsPage
    <3>2. CASE RiskLevels
      BY <3>2 DEF RiskLevels
    <3>. QED
      BY <1>5, <3>1, <3>2
  <2>. DEFINE saved == [doc EXCEPT !.conditions = conditions]
  <2>2. /\ saved \in Document
        /\ saved.higher = doc.higher /\ saved.decision = doc.decision
    BY <1>0 DEF Document
  <2>3. Kept
    BY <1>5, CategoriserPages
  <2>. HIDE DEF saved
  <2>4. doc' \in {saved, CancelOpenConditions(saved)}
    BY <2>1 DEF saved
  <2>5. /\ doc'.higher = doc.higher
        /\ doc'.decision # doc.decision => Recat /\ doc'.decision = "NONE"
    BY <2>2, <2>4, Cancelled
  <2>. QED
    BY <1>1, <2>3, <2>5 DEF ReviewsInStep, Kept, Recat
<1>6. CASE MessageRead
  <2>1. doc'.higher = doc.higher /\ doc'.decision = doc.decision
    BY <1>0, <1>6 DEF MessageRead, Document
  <2>2. Kept
    BY <1>6, CategoriserPages
  <2>. QED
    BY <1>1, <2>1, <2>2 DEF ReviewsInStep, Kept, Recat
<1>7. ASSUME NEW d \in Document, Submission(d)
      PROVE  ReviewsInStep' /\ HigherReviewMatches'
  <2>1. /\ doc'.higher = doc.higher /\ doc'.decision = doc.decision
        /\ UNCHANGED <<kind, current>>
    BY <1>7 DEF Submission, Submitted
  <2>2. ReviewsInStep'
    BY <2>1 DEF ReviewsInStep, Recat
  <2>3. Recat => doc.decision # "NONE"
    BY <1>7 DEF Submission, AllSectionsCompleted, Recat
  <2>. QED
    BY <2>1, <2>2, <2>3 DEF ReviewsInStep, HigherReviewMatches
<1>8. ASSUME Kept, ~Recat, doc'.higher = doc.higher
      PROVE  ReviewsInStep' /\ HigherReviewMatches'
  BY <1>1, <1>8 DEF ReviewsInStep, Kept, Recat
<1>9. CASE SupervisorReview
  <2>1. /\ doc'.higher = doc.higher /\ doc'.decision = doc.decision
        /\ UNCHANGED <<kind, current, status>>
    BY <1>0, <1>9 DEF SupervisorReview, WithReview, Document
  <2>. QED
    BY <2>1 DEF ReviewsInStep, HigherReviewMatches, Recat
<1>10. CASE ConfirmBack
  <2>. DEFINE d == [doc EXCEPT !.message = "UNREAD"]
              e == IF Recat THEN [d EXCEPT !.decision = "NONE"]
                   ELSE [d EXCEPT !.suggested = "NONE", !.overridden = "NONE",
                                  !.decision = "NONE"]
  <2>1. d \in Document /\ d.higher = doc.higher /\ d.decision = doc.decision
    BY <1>0 DEF Document
  <2>2. e \in Document /\ e.higher = doc.higher /\ e.decision = "NONE"
    BY <2>1 DEF Document, Maybe
  <2>. HIDE DEF d
  <2>3. doc' = d \/ doc' = RequiresOpenConditions(e)
    BY <1>10 DEF ConfirmBack, ForOpenConditions, d
  <2>. HIDE DEF e
  <2>4. doc'.higher = doc.higher /\ doc'.decision \in {doc.decision, "NONE"}
    BY <2>1, <2>2, <2>3, Required
  <2>. QED
    BY <1>10, <2>4 DEF ConfirmBack, ReviewsInStep, HigherReviewMatches, Recat
<1>11. CASE ChangeCategory \/ FurtherInformation \/ Birthday \/ UNCHANGED vars
  BY <1>11 DEF ChangeCategory, FurtherInformation, Birthday, vars,
               ReviewsInStep, HigherReviewMatches, Recat
<1>. QED
  BY <1>2, <1>3, <1>4, <1>5, <1>6, <1>7, <1>8, <1>9, <1>10, <1>11, Submissions
     DEF Next

\* NOMIS is sent what the form recommends: also on the page that suggests the
\* open category of the prisoner's age, and takes the rest from the form.
LEMMA ProvisionalStep ==
    ASSUME TypeOK, ProvisionalOfAge, AwaitingMatchesNomis, ~ageing, [Next]_vars
    PROVE  ProvisionalOfAge' /\ AwaitingMatchesNomis'
<1>0. doc \in Document /\ nomis \in [pending : Maybe, approved : Maybe]
  BY DEF TypeOK
<1>1. ASSUME Kept, ProvisionalOfAge' PROVE AwaitingMatchesNomis'
  BY <1>1 DEF Kept, Editing, AwaitingMatchesNomis
<1>2. ASSUME UNCHANGED <<kind, young>>,
             \/ ~doc'.requested
             \/ /\ doc'.requested = doc.requested
                /\ doc'.suggested = doc.suggested /\ doc'.overridden = doc.overridden
             \/ doc'.suggested = "NONE" /\ doc'.overridden = "NONE"
      PROVE  ProvisionalOfAge'
  BY <1>2 DEF ProvisionalOfAge, OpenOfAge
<1>3. CASE Decision \/ RecatDecision \/ HigherSecurityReview
  <2>1. Kept /\ kind # "man"
    BY <1>3, CategoriserPages DEF Decision, RecatDecision, HigherSecurityReview, Recat
  <2>2. ProvisionalOfAge'
    BY <2>1 DEF Kept, ProvisionalOfAge
  <2>. QED
    BY <1>1, <2>1, <2>2
<1>4. CASE OpenConditionsPage \/ RiskLevels
  <2>1. PICK conditions :
           LET saved == [doc EXCEPT !.conditions = conditions]
           IN  /\ saved \in Document
               /\ doc' \in {saved, CancelOpenConditions(saved)}
    <3>1. CASE OpenConditionsPage
      <4>. DEFINE conditions == IF doc.conditions = "NONE" THEN "STARTED"
                                ELSE doc.conditions
      <4>1. [doc EXCEPT !.conditions = conditions] \in Document
        BY <1>0 DEF Document
      <4>. QED
        BY <3>1, <4>1 DEF OpenConditionsPage
    <3>2. CASE RiskLevels
      <4>1. [doc EXCEPT !.conditions = "COMPLETED"] \in Document
        BY <1>0 DEF Document
      <4>. QED
        BY <3>2, <4>1 DEF RiskLevels
    <3>. QED
      BY <1>4, <3>1, <3>2
  <2>. DEFINE saved == [doc EXCEPT !.conditions = conditions]
  <2>2. /\ saved.requested = doc.requested
        /\ saved.suggested = doc.suggested /\ saved.overridden = doc.overridden
    BY <1>0 DEF Document
  <2>. HIDE DEF saved
  <2>3. saved \in Document /\ doc' \in {saved, CancelOpenConditions(saved)}
    BY <2>1 DEF saved
  <2>4. Kept
    BY <1>4, CategoriserPages
  <2>5. CASE doc' = saved
    BY <1>1, <1>2, <2>2, <2>4, <2>5 DEF Kept
  <2>6. CASE doc' = CancelOpenConditions(saved)
    BY <1>1, <1>2, <2>3, <2>4, <2>6, Cancelled DEF Kept
  <2>. QED
    BY <2>3, <2>5, <2>6
<1>5. CASE MessageRead
  <2>1. /\ doc'.requested = doc.requested
        /\ doc'.suggested = doc.suggested /\ doc'.overridden = doc.overridden
    BY <1>0, <1>5 DEF MessageRead, Document
  <2>. QED
    BY <1>1, <1>2, <1>5, <2>1, CategoriserPages DEF Kept
<1>6. CASE ProvisionalCategory
  <2>1. PICK suggested \in Category,
             overridden \in {"NONE"} \cup (IF young THEN {"J"} ELSE {"B", "C", "D"}) :
           IF overridden \in Open
           THEN /\ doc' = RequiresOpenConditions(
                     [doc EXCEPT !.suggested = suggested, !.overridden = overridden])
                /\ UNCHANGED <<kind, young, current, status, nomis, screen>>
           ELSE Submitted(WithProvisional(suggested, overridden),
                          NomisCategory(overridden, suggested))
    BY <1>6 DEF ProvisionalCategory, Category
  <2>. DEFINE e == [doc EXCEPT !.suggested = suggested, !.overridden = overridden]
              d == WithProvisional(suggested, overridden)
  <2>2. /\ e \in Document
        /\ e.suggested = suggested /\ e.overridden = overridden
    <3>1. suggested \in Maybe /\ overridden \in Maybe
      BY DEF Maybe, Category
    <3>. QED
      BY <1>0, <3>1 DEF Document
  <2>3. /\ d.suggested = suggested /\ d.overridden = overridden
        /\ d.requested = doc.requested
    BY <1>0 DEF WithProvisional, Document
  <2>4. kind = "man" /\ Editing /\ ~doc.requested
    BY <1>6 DEF ProvisionalCategory, AllSectionsCompleted
  <2>5. CASE overridden \in Open
    <3>1. overridden = OpenOfAge
      BY <2>5 DEF OpenOfAge, Open
    <3>2. /\ doc' = RequiresOpenConditions(e)
          /\ UNCHANGED <<kind, young, current, status, nomis, screen>>
      BY <2>1, <2>5
    <3>. HIDE DEF e
    <3>3. doc'.overridden = OpenOfAge' /\ doc'.suggested = suggested
      BY <2>2, <3>1, <3>2, Required DEF OpenOfAge
    <3>4. ProvisionalOfAge'
      BY <3>3 DEF ProvisionalOfAge, OpenOfAge
    <3>. QED
      BY <1>1, <2>4, <3>2, <3>4 DEF Kept
  <2>6. CASE overridden \notin Open
    <3>1. Submitted(d, NomisCategory(overridden, suggested))
      BY <2>1, <2>6
    <3>2. /\ doc'.suggested = suggested /\ doc'.overridden = overridden
          /\ ~doc'.requested /\ kind' = kind /\ young' = young
      BY <2>3, <2>4, <3>1 DEF Submitted
    <3>3. nomis'.pending = NomisCategory(overridden, suggested)
      BY <1>0, <3>1 DEF Submitted
    <3>. QED
      BY <1>2, <2>4, <3>2, <3>3
         DEF AwaitingMatchesNomis, Recommended, Recat, NomisCategory
  <2>. QED
    BY <2>5, <2>6
<1>7. CASE OpenProvisionalCategory
  <2>. DEFINE category == IF young THEN "J" ELSE "D"
              suggested == IF doc.suggested # "NONE" THEN doc.suggested ELSE category
              d == WithProvisional(suggested, doc.overridden)
  <2>1. kind = "man" /\ Editing /\ doc.requested
    BY <1>7 DEF OpenProvisionalCategory, AllSectionsCompleted
  <2>2. CASE Submitted(d, NomisCategory("NONE", category))
    <3>1. /\ d.suggested = suggested /\ d.overridden = doc.overridden
      BY <1>0 DEF WithProvisional, Document
    <3>2. /\ doc.overridden \in {"NONE", category}
          /\ doc.overridden = "NONE" => suggested = category
      BY <2>1 DEF ProvisionalOfAge, OpenOfAge
    <3>3. /\ doc'.suggested = suggested /\ doc'.overridden = doc.overridden
          /\ kind' = kind /\ young' = young
      BY <2>2, <3>1 DEF Submitted
    <3>4. nomis'.pending = category
      BY <1>0, <2>2 DEF Submitted, NomisCategory
    <3>5. ProvisionalOfAge'
      BY <3>2, <3>3 DEF ProvisionalOfAge, OpenOfAge
    <3>. QED
      BY <2>1, <3>2, <3>3, <3>4, <3>5
         DEF AwaitingMatchesNomis, Recommended, Recat
  <2>3. CASE doc' = CancelOpenConditions(doc)
             /\ UNCHANGED <<kind, young, current, status, nomis, screen>>
    BY <1>0, <1>1, <1>2, <2>1, <2>3, Cancelled DEF Kept
  <2>. QED
    BY <1>7, <2>2, <2>3 DEF OpenProvisionalCategory
<1>8. CASE Review
  <2>. DEFINE d == WithProvisional(doc.decision, "NONE")
  <2>1. /\ d.suggested = doc.decision /\ d.overridden = "NONE"
    BY <1>0 DEF WithProvisional, Document
  <2>2. Submitted(d, doc.decision) /\ kind = "woman"
    BY <1>8 DEF Review, NomisCategory
  <2>3. doc' = d /\ kind' = kind /\ nomis'.pending = doc.decision
    BY <1>0, <2>2 DEF Submitted
  <2>. QED
    BY <2>1, <2>2, <2>3
       DEF ProvisionalOfAge, AwaitingMatchesNomis, Recommended, Recat
<1>9. CASE RecatReview
  <2>1. /\ doc' = doc /\ kind' = kind /\ Recat
        /\ nomis'.pending = doc.decision
    BY <1>0, <1>9 DEF RecatReview, Submitted, NomisCategory
  <2>. QED
    BY <2>1 DEF ProvisionalOfAge, AwaitingMatchesNomis, Recommended, Recat
<1>10. CASE SupervisorReview
  <2>1. /\ doc'.requested = doc.requested /\ doc'.decision = doc.decision
        /\ doc'.suggested = doc.suggested /\ doc'.overridden = doc.overridden
        /\ UNCHANGED <<kind, young, status, nomis>>
    BY <1>0, <1>10 DEF SupervisorReview, WithReview, Document
  <2>. QED
    BY <1>2, <2>1 DEF AwaitingMatchesNomis, Recommended, Recat
<1>11. CASE ConfirmBack
  <2>. DEFINE d == [doc EXCEPT !.message = "UNREAD"]
              e == IF Recat THEN [d EXCEPT !.decision = "NONE"]
                   ELSE [d EXCEPT !.suggested = "NONE", !.overridden = "NONE",
                                  !.decision = "NONE"]
  <2>1. /\ d \in Document /\ d.requested = doc.requested
        /\ d.suggested = doc.suggested /\ d.overridden = doc.overridden
    BY <1>0 DEF Document
  <2>2. e \in Document /\ (~Recat => e.suggested = "NONE" /\ e.overridden = "NONE")
    BY <2>1 DEF Document, Maybe
  <2>. HIDE DEF d
  <2>3. doc' = d \/ doc' = RequiresOpenConditions(e)
    BY <1>11 DEF ConfirmBack, ForOpenConditions, d
  <2>. HIDE DEF e
  <2>4. UNCHANGED <<kind, young>> /\ status' = "SUPERVISOR_BACK"
    BY <1>11 DEF ConfirmBack
  <2>5. ProvisionalOfAge'
    <3>1. CASE doc' = d
      BY <1>2, <2>1, <2>4, <3>1
    <3>2. CASE doc' = RequiresOpenConditions(e)
      BY <1>2, <2>2, <2>4, <3>2, Required DEF ProvisionalOfAge, Recat
    <3>. QED
      BY <2>3, <3>1, <3>2
  <2>. QED
    BY <2>4, <2>5 DEF AwaitingMatchesNomis
<1>12. CASE ChangeCategory \/ FurtherInformation \/ UNCHANGED vars
  BY <1>2, <1>12 DEF ChangeCategory, FurtherInformation, vars,
                     AwaitingMatchesNomis, Recommended, Recat
<1>13. ~Birthday
  BY DEF Birthday
<1>. QED
  BY <1>3, <1>4, <1>5, <1>6, <1>7, <1>8, <1>9, <1>10, <1>11, <1>12, <1>13
     DEF Next

\* Where the decision and the open conditions are asked for in one document,
\* the decision goes when they do; a woman's initial decision does not.
LEMMA ConditionsStep ==
    ASSUME TypeOK, OverrideInStep, DecisionAsks, OpenNeedsConditions,
           kind # "woman", [Next]_vars
    PROVE  DecisionAsks' /\ OpenNeedsConditions'
<1>0. doc \in Document
  BY DEF TypeOK
<1>1. ASSUME Kept, DecisionAsks' PROVE OpenNeedsConditions'
  BY <1>1 DEF Kept, Editing, OpenNeedsConditions
<1>2. ~Decision /\ ~Review
  BY DEF Decision, Review
<1>3. CASE RecatDecision
  <2>1. PICK category \in Category :
           doc' = WithoutReviews(AfterDecision([doc EXCEPT !.decision = category]))
    BY <1>3 DEF RecatDecision, Category
  <2>. DEFINE d == [doc EXCEPT !.decision = category]
              e == AfterDecision(d)
  <2>2. d \in Document
    BY <1>0 DEF Document, Maybe
  <2>3. Kept /\ Recat
    BY <1>3, CategoriserPages DEF RecatDecision
  <2>. HIDE DEF d
  <2>4. e \in Document /\ (e.decision \in Open => e.requested)
    BY <2>2, <2>3, Cancelled, Required DEF AfterDecision, Open
  <2>. HIDE DEF e
  <2>5. doc' = WithoutReviews(e)
    BY <2>1 DEF d, e
  <2>6. doc'.decision = e.decision /\ doc'.requested = e.requested
    BY <2>4, <2>5 DEF WithoutReviews, Document
  <2>7. DecisionAsks'
    BY <2>4, <2>6 DEF DecisionAsks
  <2>. QED
    BY <1>1, <2>3, <2>7
<1>4. CASE HigherSecurityReview \/ MessageRead
  <2>1. doc'.decision = doc.decision /\ doc'.requested = doc.requested
    BY <1>0, <1>4 DEF HigherSecurityReview, MessageRead, Document
  <2>2. Kept
    BY <1>4, CategoriserPages
  <2>. QED
    BY <1>1, <2>1, <2>2 DEF DecisionAsks, Kept, Recat
<1>5. CASE OpenConditionsPage \/ RiskLevels
  <2>1. PICK saved \in Document :
           /\ saved.decision = doc.decision /\ saved.requested = doc.requested
           /\ doc' \in {saved, CancelOpenConditions(saved)}
    <3>1. CASE OpenConditionsPage
      <4>. DEFINE s == [doc EXCEPT !.conditions = IF @ = "NONE" THEN "STARTED" ELSE @]
      <4>1. /\ s \in Document
            /\ s.decision = doc.decision /\ s.requested = doc.requested
        BY <1>0 DEF Document
      <4>. QED
        BY <3>1, <4>1 DEF OpenConditionsPage
    <3>2. CASE RiskLevels
      <4>. DEFINE s == [doc EXCEPT !.conditions = "COMPLETED"]
      <4>1. /\ s \in Document
            /\ s.decision = doc.decision /\ s.requested = doc.requested
        BY <1>0 DEF Document
      <4>. QED
        BY <3>2, <4>1 DEF RiskLevels
    <3>. QED
      BY <1>5, <3>1, <3>2
  <2>2. Kept
    BY <1>5, CategoriserPages
  <2>3. DecisionAsks'
    BY <2>1, <2>2, Cancelled DEF DecisionAsks, Kept, Recat, Open
  <2>. QED
    BY <1>1, <2>2, <2>3
<1>6. CASE ProvisionalCategory
  <2>1. PICK suggested \in {"I", "B", "C"}, overridden \in Maybe :
           IF overridden \in Open
           THEN UNCHANGED <<kind, young, current, status, nomis, screen>>
           ELSE Submitted(WithProvisional(suggested, overridden),
                          NomisCategory(overridden, suggested))
    BY <1>6 DEF ProvisionalCategory, Maybe, Category
  <2>. DEFINE d == WithProvisional(suggested, overridden)
  <2>2. kind = "man" /\ Editing
    BY <1>6 DEF ProvisionalCategory, AllSectionsCompleted
  <2>3. CASE overridden \in Open
    BY <1>1, <2>1, <2>2, <2>3 DEF Kept, DecisionAsks, Recat
  <2>4. CASE overridden \notin Open
    <3>1. d.suggested = suggested /\ d.overridden = overridden
      BY <1>0 DEF WithProvisional, Document
    <3>2. doc' = d /\ kind' = "man" /\ status' = "AWAITING_APPROVAL"
      BY <2>1, <2>2, <2>4 DEF Submitted
    <3>3. Recommended(doc)' \notin Open
      BY <2>4, <3>1, <3>2 DEF Recommended, Recat, Open
    <3>. QED
      BY <3>2, <3>3 DEF OpenNeedsConditions, DecisionAsks, Recat
  <2>. QED
    BY <2>3, <2>4
<1>7. CASE OpenProvisionalCategory
  <2>1. kind = "man" /\ Editing /\ doc.requested /\ doc.conditions = "COMPLETED"
    BY <1>7 DEF OpenProvisionalCategory, AllSectionsCompleted
  <2>2. ASSUME NEW d \in Document, Submission(d)
        PROVE  DecisionAsks' /\ OpenNeedsConditions'
    BY <2>1, <2>2 DEF Submission, Submitted, DecisionAsks, OpenNeedsConditions, Recat
  <2>3. CASE Kept
    BY <1>1, <2>1, <2>3 DEF Kept, DecisionAsks, Recat
  <2>. QED
    BY <1>7, <2>2, <2>3, Submissions
<1>8. CASE RecatReview
  <2>1. /\ Recat /\ doc' = doc /\ kind' = kind /\ status' = "AWAITING_APPROVAL"
        /\ doc.requested => doc.conditions = "COMPLETED"
    BY <1>8 DEF RecatReview, AllSectionsCompleted, Submitted
  <2>. QED
    BY <2>1 DEF DecisionAsks, OpenNeedsConditions, Recommended, Recat
<1>9. CASE SupervisorReview
  <2>1. /\ doc'.requested = doc.requested /\ doc'.decision = doc.decision
        /\ doc'.suggested = doc.suggested /\ doc'.overridden = doc.overridden
        /\ doc'.conditions = doc.conditions
        /\ kind' = kind /\ status = "AWAITING_APPROVAL" /\ status' = status
    BY <1>0, <1>9 DEF SupervisorReview, WithReview, Document
  <2>. QED
    BY <2>1 DEF DecisionAsks, OpenNeedsConditions, Recommended, Recat
<1>10. CASE ConfirmBack
  <2>. DEFINE d == [doc EXCEPT !.message = "UNREAD"]
              e == IF Recat THEN [d EXCEPT !.decision = "NONE"]
                   ELSE [d EXCEPT !.suggested = "NONE", !.overridden = "NONE",
                                  !.decision = "NONE"]
  <2>1. /\ d \in Document /\ d.requested = doc.requested /\ d.decision = doc.decision
    BY <1>0 DEF Document
  <2>2. e \in Document
    BY <2>1 DEF Document, Maybe
  <2>. HIDE DEF d
  <2>3. doc' = d \/ doc' = RequiresOpenConditions(e)
    BY <1>10 DEF ConfirmBack, ForOpenConditions, d
  <2>. HIDE DEF e
  <2>4. kind' = kind /\ status' = "SUPERVISOR_BACK"
    BY <1>10 DEF ConfirmBack
  <2>. QED
    BY <2>1, <2>2, <2>3, <2>4, Required DEF DecisionAsks, OpenNeedsConditions, Recat
<1>11. CASE FurtherInformation
  <2>1. doc.override = "NONE" \/ doc.override \notin Open
    BY <1>11 DEF FurtherInformation, OverrideInStep
  <2>2. doc' = doc /\ kind' = kind
    BY <1>11 DEF FurtherInformation
  <2>. QED
    BY <1>11, <2>1, <2>2
       DEF FurtherInformation, DecisionAsks, OpenNeedsConditions, Outcome,
           Recommended, Recat
<1>12. CASE ChangeCategory \/ Birthday \/ UNCHANGED vars
  BY <1>12 DEF ChangeCategory, Birthday, vars, DecisionAsks, OpenNeedsConditions,
               Outcome, Recommended, Recat
<1>. QED
  BY <1>2, <1>3, <1>4, <1>5, <1>6, <1>7, <1>8, <1>9, <1>10, <1>11, <1>12 DEF Next
-----------------------------------------------------------------------------
(* The theorems. *)

\* The outcome that an approved form shows is the category NOMIS approved,
\* whatever the supervisor had decided before, and whoever turns 21 meanwhile
\* (approvedView, further-information).
THEOREM ApprovedIsShown == Spec => []ApprovedMatchesForm
<1>1. Init => OverrideInStep /\ ApprovedMatchesForm
  BY DEF Init, OverrideInStep, ApprovedMatchesForm
<1>2. TypeOK /\ OverrideInStep /\ ApprovedMatchesForm /\ [Next]_vars
          => (OverrideInStep /\ ApprovedMatchesForm)'
  BY OverrideStep
<1>. QED
  BY <1>1, <1>2, TypeCorrect, PTL DEF Spec

\* The form, NOMIS and the security review stay in step on every route; what
\* NOMIS was sent is what the supervisor is asked to approve unless the
\* prisoner turns 21 meanwhile.
THEOREM CategoryKeptInStep == Spec => []CategoryInStep
<1>. DEFINE Inv == /\ ReviewsInStep /\ HigherReviewMatches
                   /\ ~ageing => ProvisionalOfAge /\ AwaitingMatchesNomis
<1>1. Init => Inv
  BY DEF Init, Empty, ProvisionalOfAge, AwaitingMatchesNomis, ReviewsInStep,
         HigherReviewMatches
<1>2. TypeOK /\ Inv /\ [Next]_vars => Inv'
  <2>. SUFFICES ASSUME TypeOK, Inv, [Next]_vars PROVE Inv'
    OBVIOUS
  <2>1. (ReviewsInStep /\ HigherReviewMatches)'
    BY ReviewsStep
  <2>2. ASSUME ~ageing PROVE (ProvisionalOfAge /\ AwaitingMatchesNomis)'
    BY <2>2, ProvisionalStep
  <2>. QED
    BY <2>1, <2>2, SameAgeing
<1>3. Inv /\ ApprovedMatchesForm => CategoryInStep
  BY DEF CategoryInStep
<1>. QED
  BY <1>1, <1>2, <1>3, TypeCorrect, ApprovedIsShown, PTL DEF Spec

\* An open category reaches the supervisor, or is approved, only with the open
\* conditions asked for and completed; an initial categorisation of a woman is
\* the exception (cancelOpenConditions leaves her decision).
THEOREM OpenCategoriesHaveConditions == Spec => []OpenHasConditions
<1>. DEFINE Inv == /\ OverrideInStep /\ ApprovedMatchesForm
                   /\ kind # "woman" => DecisionAsks /\ OpenNeedsConditions
<1>1. Init => Inv
  BY DEF Init, Empty, OverrideInStep, ApprovedMatchesForm, DecisionAsks,
         OpenNeedsConditions, Open
<1>2. TypeOK /\ Inv /\ [Next]_vars => Inv'
  <2>. SUFFICES ASSUME TypeOK, Inv, [Next]_vars PROVE Inv'
    OBVIOUS
  <2>1. (OverrideInStep /\ ApprovedMatchesForm)'
    BY OverrideStep
  <2>2. kind' = kind
    BY DEF Next, vars, Decision, RecatDecision, HigherSecurityReview,
           OpenConditionsPage, RiskLevels, ProvisionalCategory,
           OpenProvisionalCategory, Review, RecatReview, Submitted, MessageRead,
           SupervisorReview, ChangeCategory, ConfirmBack, FurtherInformation, Birthday
  <2>3. ASSUME kind # "woman" PROVE (DecisionAsks /\ OpenNeedsConditions)'
    BY <2>3, ConditionsStep
  <2>. QED
    BY <2>1, <2>2, <2>3
<1>3. Inv => OpenHasConditions
  BY DEF OpenHasConditions
<1>. QED
  BY <1>1, <1>2, <1>3, TypeCorrect, PTL DEF Spec
-----------------------------------------------------------------------------
(***************************************************************************)
(* Proofs of what LiteCategory promises, for any number of users, chosen   *)
(* categories and assessments.  The table and NOMIS number a proposal      *)
(* alike; what the proofs need to say is which assessments may still be    *)
(* pending, and for whom.                                                  *)
(***************************************************************************)

\* A row of the table has an assessment of its number, and what has been
\* approved is not pending.
Numbered == \A s \in Seqs : lite[s] # NoRow => s \in DOMAIN assessments
Approvals == \A s \in DOMAIN assessments :
                assessments[s].approvedIn # "" => assessments[s].status # "PENDING"
Shaped == assessments \in Seq(Assessment) /\ Numbered /\ Approvals

\* One thing is in progress, and it alone has a pending assessment.
Alone ==
    /\ ToApprove \subseteq {LatestSeq}
    /\ FormInProgress => ToApprove = {}
    /\ \A s \in PendingSeqs : \/ s \in ToApprove
                              \/ form.status = "AWAITING_APPROVAL" /\ s = form.seq

\* A proposal on the list is pending, or has been approved on P-Nomis.
Listed == \A s \in ToApprove :
    assessments[s].status = "PENDING" \/ assessments[s].approvedIn = "P-Nomis"

FormInNomis ==
    form.status \in {"AWAITING_APPROVAL", "APPROVED"} => form.seq \in DOMAIN assessments
ToldInNomis == told \subseteq DOMAIN assessments

FreshInv == /\ Alone /\ Listed /\ FormInNomis /\ ToldInNomis
            /\ FormApprovesItsOwn /\ ToldTruth /\ FourEyes
-----------------------------------------------------------------------------
(* Sets of numbers. *)

\* A finite set of numbers that is not empty has a greatest element, and that
\* is its Max.
LEMMA MaxIsGreatest ==
    ASSUME NEW S \in SUBSET Int, IsFiniteSet(S), S # {}
    PROVE  Max(S) \in S /\ \A x \in S : x <= Max(S)
<1>. DEFINE Above(x) == {y \in S : y > x}
            T == {Above(x) : x \in S}
<1>1. IsWellFoundedOn(StrictSubsetOrdering(S), SUBSET S)
  BY FS_StrictSubsetOrderingWellFounded, FS_FiniteSubsetsOfFinite
<1>2. T \subseteq SUBSET S /\ T # {}
  OBVIOUS
<1>. HIDE DEF T
<1>3. PICK t \in T : \A u \in T : ~(<<u, t>> \in StrictSubsetOrdering(S))
  BY <1>1, <1>2, WFMin
<1>4. PICK m \in S : t = Above(m)
  BY DEF T
<1>5. ASSUME NEW y \in S, y > m PROVE FALSE
  <2>1. Above(y) \subseteq Above(m)
    <3>1. \A z \in S : z \in Int
      OBVIOUS
    <3>2. \A z \in S : z > y => z > m
      BY <1>5, <3>1
    <3>. QED
      BY <3>2
  <2>2. y \in Above(m) /\ y \notin Above(y)
    BY <1>5
  <2>3. Above(y) \in T
    BY DEF T
  <2>4. Above(y) \in SUBSET S /\ Above(m) \in SUBSET S
    OBVIOUS
  <2>. HIDE DEF Above
  <2>5. <<Above(y), Above(m)>> \in StrictSubsetOrdering(S)
    BY <2>1, <2>2, <2>4 DEF StrictSubsetOrdering
  <2>. QED
    BY <1>3, <1>4, <2>3, <2>5
<1>6. \A y \in S : m >= y
  BY <1>5
<1>. QED
  BY <1>6 DEF Max

\* At most one proposal is to be approved, or a set of one at most.
LEMMA AtMostOne ==
    ASSUME NEW S, NEW x, S \subseteq {x}
    PROVE  /\ Cardinality(S) \in Nat /\ Cardinality(S) <= 1
           /\ S = {} => Cardinality(S) = 0
<1>1. S = {} \/ S = {x}
  OBVIOUS
<1>2. Cardinality({}) = 0 /\ Cardinality({x}) = 1
  BY FS_EmptySet, FS_Singleton
<1>. QED
  BY <1>1, <1>2

LEMMA LatestIsGreatest ==
    /\ LatestSeq \in Seqs \cup {0}
    /\ LatestSeq # 0 => lite[LatestSeq] # NoRow
    /\ \A s \in Seqs : lite[s] # NoRow => s <= LatestSeq
<1>. DEFINE present == {s \in Seqs : lite[s] # NoRow}
<1>1. present \in SUBSET Int /\ IsFiniteSet(present)
  <2>1. present \in SUBSET Seqs /\ Seqs \in SUBSET Int
    BY DEF Seqs
  <2>2. IsFiniteSet(Seqs)
    BY LiteAssumption, FS_Interval DEF Seqs
  <2>. QED
    BY <2>1, <2>2, FS_Subset
<1>2. CASE present = {}
  BY <1>2 DEF LatestSeq
<1>3. CASE present # {}
  <2>1. Max(present) \in present /\ \A x \in present : x <= Max(present)
    BY <1>1, <1>3, MaxIsGreatest
  <2>2. LatestSeq = Max(present)
    BY <1>3 DEF LatestSeq
  <2>. QED
    BY <2>1, <2>2
<1>. QED
  BY <1>2, <1>3

\* An approval is of a pending assessment: the one named, if any.
LEMMA ApprovalIsPending ==
    ASSUME Shaped, NEW seq \in Nat, ApprovalOf(seq) # {}
    PROVE  /\ Max(ApprovalOf(seq)) \in PendingSeqs
           /\ seq # 0 => Max(ApprovalOf(seq)) = seq
<1>1. PendingSeqs \in SUBSET Int /\ IsFiniteSet(PendingSeqs)
  <2>1. DOMAIN assessments = 1..Len(assessments) /\ Len(assessments) \in Nat
    <3>1. assessments \in Seq(Assessment)
      BY DEF Shaped
    <3>. QED
      BY <3>1
  <2>2. PendingSeqs \in SUBSET (1..Len(assessments)) /\ 1..Len(assessments) \in SUBSET Int
    BY <2>1 DEF PendingSeqs
  <2>3. IsFiniteSet(1..Len(assessments))
    BY <2>1, FS_Interval
  <2>. QED
    BY <2>2, <2>3, FS_Subset
<1>2. CASE seq # 0
  <2>1. ApprovalOf(seq) = {seq} /\ seq \in PendingSeqs
    BY <1>2 DEF ApprovalOf
  <2>2. Max({seq}) = seq
    BY DEF Max
  <2>. QED
    BY <2>1, <2>2
<1>3. CASE seq = 0
  <2>1. PendingSeqs # {} /\ ApprovalOf(seq) = {Max(PendingSeqs)}
    BY <1>3 DEF ApprovalOf
  <2>2. Max(PendingSeqs) \in PendingSeqs
    BY <1>1, <2>1, MaxIsGreatest
  <2>3. Max({Max(PendingSeqs)}) = Max(PendingSeqs)
    BY <1>1, <2>2 DEF Max
  <2>. QED
    BY <1>3, <2>1, <2>2, <2>3
<1>. QED
  BY <1>2, <1>3
-----------------------------------------------------------------------------
(* NOMIS. *)

LEMMA CreateFacts ==
    ASSUME Shaped, NEW category \in Chosen, NEW new, new = Create(category)
    PROVE  /\ new \in Seq(Assessment) /\ Len(assessments) \in Nat
           /\ DOMAIN assessments = 1..Len(assessments)
           /\ Len(new) = Len(assessments) + 1 /\ DOMAIN new = 1..Len(assessments) + 1
           /\ new[Len(new)].status = "PENDING" /\ new[Len(new)].approvedIn = ""
           /\ \A s \in DOMAIN assessments : new[s] = assessments[s]
<1>. DEFINE a == [status |-> "PENDING", category |-> category, approvedIn |-> ""]
<1>1. assessments \in Seq(Assessment) /\ a \in Assessment
  BY DEF Shaped, Assessment
<1>2. new = Append(assessments, a)
  BY DEF Create
<1>3. a.status = "PENDING" /\ a.approvedIn = ""
  OBVIOUS
<1>. HIDE DEF a
<1>4. /\ new \in Seq(Assessment) /\ Len(assessments) \in Nat
      /\ DOMAIN assessments = 1..Len(assessments) /\ Len(new) = Len(assessments) + 1
  BY <1>1, <1>2
<1>5. DOMAIN new = 1..Len(assessments) + 1
  BY <1>4
<1>6. new[Len(assessments) + 1] = a
  BY <1>1, <1>2
<1>7. \A s \in 1..Len(assessments) : new[s] = assessments[s]
  BY <1>1, <1>2
<1>. QED
  BY <1>3, <1>4, <1>5, <1>6, <1>7

\* An approval makes one pending assessment active, and puts an end to the
\* active one; what has been approved, and what is pending, else stays so.
AfterApproval(new, seq, category, where) ==
    /\ new \in Seq(Assessment) /\ Len(new) = Len(assessments)
    /\ DOMAIN new = DOMAIN assessments /\ seq \in DOMAIN assessments
    /\ new[seq] = [status |-> "ACTIVE", category |-> category, approvedIn |-> where]
    /\ \A s \in DOMAIN assessments \ {seq} :
          /\ new[s].approvedIn = assessments[s].approvedIn
          /\ new[s].category = assessments[s].category
          /\ new[s].status = "PENDING" <=> assessments[s].status = "PENDING"

LEMMA ApprovedFacts ==
    ASSUME Shaped, NEW seq \in PendingSeqs, NEW category \in Chosen,
           NEW where \in {"service", "P-Nomis"}
    PROVE  AfterApproval(Approved(seq, category, where), seq, category, where)
<1>. DEFINE new == Approved(seq, category, where)
<1>1. /\ assessments \in Seq(Assessment) /\ DOMAIN assessments = 1..Len(assessments)
      /\ \A s \in DOMAIN assessments : assessments[s] \in Assessment
  <2>1. assessments \in Seq(Assessment)
    BY DEF Shaped
  <2>. QED
    BY <2>1
<1>2. DOMAIN new = DOMAIN assessments /\ seq \in DOMAIN assessments
  BY DEF Approved, PendingSeqs
<1>3. ASSUME NEW s \in DOMAIN assessments
      PROVE  /\ new[s] \in Assessment
             /\ s = seq => new[s] = [status |-> "ACTIVE", category |-> category,
                                     approvedIn |-> where]
             /\ s # seq => /\ new[s].approvedIn = assessments[s].approvedIn
                           /\ new[s].category = assessments[s].category
                           /\ new[s].status = "PENDING" <=> assessments[s].status = "PENDING"
  <2>1. assessments[s] \in Assessment
    BY <1>1
  <2>2. CASE s = seq
    <3>1. new[s] = [status |-> "ACTIVE", category |-> category, approvedIn |-> where]
      BY <2>2 DEF Approved
    <3>2. [status |-> "ACTIVE", category |-> category, approvedIn |-> where]
              \in Assessment
      BY DEF Assessment
    <3>. QED
      BY <2>2, <3>1, <3>2
  <2>3. CASE s # seq
    <3>1. CASE assessments[s].status = "ACTIVE"
      <4>1. new[s] = [assessments[s] EXCEPT !.status = "INACTIVE"]
        BY <2>3, <3>1 DEF Approved
      <4>. QED
        BY <2>1, <2>3, <3>1, <4>1 DEF Assessment
    <3>2. CASE assessments[s].status # "ACTIVE"
      <4>1. new[s] = assessments[s]
        BY <2>3, <3>2 DEF Approved
      <4>. QED
        BY <2>1, <2>3, <4>1
    <3>. QED
      BY <3>1, <3>2
  <2>. QED
    BY <2>2, <2>3
<1>4. new = [s \in 1..Len(assessments) |-> new[s]]
  BY <1>1, <1>2 DEF Approved
<1>5. new \in Seq(Assessment) /\ Len(new) = Len(assessments)
  BY <1>1, <1>3, <1>4
<1>. HIDE DEF new
<1>6. AfterApproval(new, seq, category, where)
  BY <1>2, <1>3, <1>5 DEF AfterApproval
<1>. QED
  BY <1>6 DEF new

\* setInactive puts an end to whatever is pending.
LEMMA InactiveFacts ==
    ASSUME Shaped, CancelForm
    PROVE  /\ assessments' \in Seq(Assessment) /\ Len(assessments') = Len(assessments)
           /\ DOMAIN assessments' = DOMAIN assessments
           /\ \A s \in DOMAIN assessments :
                 /\ assessments'[s].approvedIn = assessments[s].approvedIn
                 /\ assessments'[s].category = assessments[s].category
                 /\ assessments'[s].status # "PENDING"
<1>1. /\ assessments \in Seq(Assessment) /\ DOMAIN assessments = 1..Len(assessments)
      /\ \A s \in DOMAIN assessments : assessments[s] \in Assessment
  <2>1. assessments \in Seq(Assessment)
    BY DEF Shaped
  <2>. QED
    BY <2>1
<1>2. ASSUME NEW s \in DOMAIN assessments
      PROVE  /\ assessments'[s] \in Assessment
             /\ assessments'[s].approvedIn = assessments[s].approvedIn
             /\ assessments'[s].category = assessments[s].category
             /\ assessments'[s].status # "PENDING"
  <2>1. assessments[s] \in Assessment
    BY <1>1
  <2>2. assessments'[s] = IF assessments[s].status = "PENDING"
                    THEN [assessments[s] EXCEPT !.status = "INACTIVE"] ELSE assessments[s]
    BY DEF CancelForm, PendingSeqs
  <2>. QED
    BY <2>1, <2>2 DEF Assessment
<1>3. DOMAIN assessments' = DOMAIN assessments /\ assessments' = [s \in 1..Len(assessments) |-> assessments'[s]]
  BY <1>1 DEF CancelForm
<1>4. assessments' \in Seq(Assessment) /\ Len(assessments') = Len(assessments)
  BY <1>1, <1>2, <1>3
<1>. QED
  BY <1>2, <1>3, <1>4

\* The category the prisoner has is one that somebody chose.
LEMMA ExistingChosen ==
    ASSUME Shaped PROVE Existing \in Chosen \cup {""}
<1>. DEFINE active == {s \in DOMAIN assessments : assessments[s].status = "ACTIVE"}
<1>1. /\ DOMAIN assessments = 1..Len(assessments) /\ Len(assessments) \in Nat
      /\ \A s \in DOMAIN assessments : assessments[s] \in Assessment
  <2>1. assessments \in Seq(Assessment)
    BY DEF Shaped
  <2>. QED
    BY <2>1
<1>2. CASE active = {}
  BY <1>2 DEF Existing
<1>3. CASE active # {}
  <2>1. active \in SUBSET (1..Len(assessments)) /\ active \in SUBSET Int
    BY <1>1
  <2>2. IsFiniteSet(1..Len(assessments))
    BY <1>1, FS_Interval
  <2>3. IsFiniteSet(active)
    BY <2>1, <2>2, FS_Subset
  <2>4. Max(active) \in active
    BY <1>3, <2>1, <2>3, MaxIsGreatest
  <2>5. Existing = assessments[Max(active)].category
    BY <1>3 DEF Existing
  <2>. QED
    BY <1>1, <2>4, <2>5 DEF Assessment
<1>. QED
  BY <1>2, <1>3
-----------------------------------------------------------------------------
(* The table, and the types. *)

\* Nobody has approved a row that is not there.
LEMMA NobodyApprovedNoRow == NoRow.approvedBy = Nobody
BY DEF NoRow

\* A proposal and an approval write rows that belong there.
LEMMA RowFacts ==
    ASSUME NEW row \in Row \cup {NoRow}, NEW user \in Users,
           NEW c \in Chosen
    PROVE  /\ Proposed(user, c) \in Row /\ Proposed(user, c) # NoRow
           /\ row # NoRow =>
                 /\ row \in Row
                 /\ [row EXCEPT !.approvedBy = user, !.approvedAs = c] \in Row
                 /\ [row EXCEPT !.approvedBy = user, !.approvedAs = c] # NoRow
                 /\ [row EXCEPT !.approvedBy = user, !.approvedAs = c].approvedBy = user
                 /\ [row EXCEPT !.approvedBy = user, !.approvedAs = c].approvedAs = c
                 /\ [row EXCEPT !.approvedBy = user, !.approvedAs = c].assessedBy
                       = row.assessedBy
<1>1. Nobody \notin Users
  BY LiteAssumption DEF Nobody
<1>2. Proposed(user, c) \in Row /\ Proposed(user, c) # NoRow
  BY <1>1 DEF Proposed, Row, NoRow
<1>3. ASSUME row # NoRow
      PROVE  /\ row \in Row
             /\ [row EXCEPT !.approvedBy = user, !.approvedAs = c] \in Row
             /\ [row EXCEPT !.approvedBy = user, !.approvedAs = c].approvedBy = user
             /\ [row EXCEPT !.approvedBy = user, !.approvedAs = c].approvedAs = c
             /\ [row EXCEPT !.approvedBy = user, !.approvedAs = c].assessedBy
                   = row.assessedBy
  BY <1>3 DEF Row
<1>. QED
  BY <1>2, <1>3, <1>1, NobodyApprovedNoRow

\* The pages that a step leaves are those that were there, without one perhaps,
\* or with one more that offers what may be chosen.
LEMMA PagesTyped ==
    ASSUME LiteTypeOK, Shaped, NEW page \in {"new", "approve"}, NEW user \in Users,
           Show(page, user)
    PROVE  pages' \subseteq LitePage
<1>1. Existing \in Chosen \cup {""}
  BY ExistingChosen
<1>2. [page |-> page, user |-> user, existing |-> Existing,
       offers |-> CatList(Existing) \cap Chosen] \in LitePage
  BY <1>1 DEF LitePage
<1>. QED
  BY <1>2 DEF LiteTypeOK, Show

LEMMA InitShaped == LiteInit => LiteTypeOK /\ Shaped
<1>. SUFFICES ASSUME LiteInit PROVE LiteTypeOK /\ Shaped
  OBVIOUS
<1>. fresh \in BOOLEAN
  BY DEF LiteInit
<1>1. assessments \in Seq(Assessment) /\ Len(assessments) = 0 /\ DOMAIN assessments = {}
  BY DEF LiteInit
<1>2. Len(assessments) <= MaxSeq
  BY <1>1, LiteAssumption
<1>3. form \in Form
  BY LiteAssumption DEF LiteInit, Form
<1>4. lite \in [Seqs -> Row \cup {NoRow}] /\ \A s \in Seqs : lite[s] = NoRow
  BY DEF LiteInit
<1>5. pages \subseteq LitePage /\ told \subseteq Seqs
  BY DEF LiteInit
<1>6. Numbered /\ Approvals
  BY <1>1, <1>4 DEF Numbered, Approvals
<1>. QED
  BY <1>1, <1>2, <1>3, <1>4, <1>5, <1>6 DEF LiteTypeOK, Shaped

LEMMA NextShaped ==
    ASSUME LiteTypeOK, Shaped, [LiteNext]_liteVars
    PROVE  LiteTypeOK' /\ Shaped'
<1>. fresh' \in BOOLEAN
  BY DEF LiteTypeOK, LiteNext, liteVars
<1>0. /\ assessments \in Seq(Assessment) /\ DOMAIN assessments = 1..Len(assessments) /\ Len(assessments) \in Nat
      /\ Len(assessments) <= MaxSeq /\ MaxSeq \in Nat
      /\ lite \in [Seqs -> Row \cup {NoRow}]
      /\ form \in Form /\ pages \subseteq LitePage /\ told \subseteq Seqs
      /\ Numbered /\ Approvals
  <2>1. assessments \in Seq(Assessment)
    BY DEF Shaped
  <2>. QED
    BY <2>1, LiteAssumption DEF LiteTypeOK, Shaped
<1>1. ASSUME assessments' \in Seq(Assessment), Len(assessments') = Len(assessments),
             DOMAIN assessments' = DOMAIN assessments,
             lite' \in [Seqs -> Row \cup {NoRow}],
             \A s \in Seqs : lite'[s] # NoRow => lite[s] # NoRow,
             \A s \in DOMAIN assessments :
                assessments'[s].approvedIn # "" => assessments'[s].status # "PENDING",
             form' \in Form,
             pages' \subseteq LitePage,
             told' \subseteq Seqs
      PROVE  LiteTypeOK' /\ Shaped'
  <2>1. \A s \in DOMAIN assessments' : assessments'[s] \in Assessment
    <3>1. assessments' \in Seq(Assessment)
      BY <1>1
    <3>. QED
      BY <3>1
  <2>2. LiteTypeOK'
    BY <1>0, <1>1, <2>1 DEF LiteTypeOK
  <2>3. Numbered' /\ Approvals'
    BY <1>0, <1>1 DEF Numbered, Approvals
  <2>4. Shaped'
    BY <1>1, <2>3 DEF Shaped
  <2>. QED
    BY <2>2, <2>4
<1>2. ASSUME NEW category \in Chosen, assessments' = Create(category), Len(assessments) < MaxSeq,
             lite' \in [Seqs -> Row \cup {NoRow}],
             \A s \in Seqs \ {Len(assessments')} : lite'[s] = lite[s],
             form' \in Form,
             pages' \subseteq pages, told' = told
      PROVE  LiteTypeOK' /\ Shaped'
  <2>1. /\ assessments' \in Seq(Assessment)
        /\ Len(assessments') = Len(assessments) + 1 /\ DOMAIN assessments' = 1..Len(assessments) + 1
        /\ assessments'[Len(assessments')].approvedIn = ""
        /\ \A s \in DOMAIN assessments : assessments'[s] = assessments[s]
    BY <1>2, CreateFacts
  <2>2. \A s \in DOMAIN assessments' : assessments'[s] \in Assessment
    <3>1. assessments' \in Seq(Assessment)
      BY <2>1
    <3>. QED
      BY <3>1
  <2>3. LiteTypeOK'
    <3>1. Len(assessments') <= MaxSeq
      <4>1. Len(assessments') = Len(assessments) + 1 /\ Len(assessments) < MaxSeq
        BY <1>2, <2>1
      <4>. QED
        BY <1>0, <4>1
    <3>. QED
      BY <1>0, <1>2, <2>2, <3>1 DEF LiteTypeOK
  <2>4. Numbered'
    <3>1. DOMAIN assessments = 1..Len(assessments) /\ DOMAIN assessments' = 1..Len(assessments) + 1
          /\ Len(assessments) \in Nat /\ Len(assessments') = Len(assessments) + 1
      BY <1>0, <2>1
    <3>. QED
      BY <1>0, <1>2, <3>1 DEF Numbered, Seqs
  <2>5. Approvals'
    <3>1. DOMAIN assessments = 1..Len(assessments) /\ DOMAIN assessments' = 1..Len(assessments) + 1
          /\ Len(assessments) \in Nat /\ Len(assessments') = Len(assessments) + 1
      BY <1>0, <2>1
    <3>2. \A s \in DOMAIN assessments' : s = Len(assessments') \/ s \in DOMAIN assessments
      BY <3>1
    <3>. QED
      BY <1>0, <2>1, <3>2 DEF Approvals
  <2>. QED
    BY <2>1, <2>3, <2>4, <2>5 DEF Shaped
<1>3. ASSUME NEW seq \in PendingSeqs, NEW category \in Chosen,
             NEW where \in {"service", "P-Nomis"},
             assessments' = Approved(seq, category, where),
             lite' \in [Seqs -> Row \cup {NoRow}],
             \A s \in Seqs : lite'[s] # NoRow => lite[s] # NoRow,
             form' \in Form,
             pages' \subseteq pages, told' = told
      PROVE  LiteTypeOK' /\ Shaped'
  <2>1. AfterApproval(assessments', seq, category, where)
    BY <1>3, ApprovedFacts
  <2>2. assessments'[seq].status # "PENDING"
    BY <2>1 DEF AfterApproval
  <2>3. \A s \in DOMAIN assessments :
           assessments'[s].approvedIn # "" => assessments'[s].status # "PENDING"
    BY <1>0, <2>1, <2>2 DEF Approvals, AfterApproval
  <2>. QED
    BY <1>0, <1>1, <1>3, <2>1, <2>3 DEF AfterApproval
<1>4. CASE GetNew
  <2>1. pages' \subseteq LitePage
    BY <1>4, PagesTyped DEF GetNew
  <2>. QED
    BY <1>0, <1>1, <1>4, <2>1 DEF GetNew, Approvals
<1>5. CASE GetApprove
  <2>1. pages' \subseteq LitePage
    BY <1>5, PagesTyped DEF GetApprove
  <2>. QED
    BY <1>0, <1>1, <1>5, <2>1 DEF GetApprove, Approvals
<1>6. CASE PostInvalid
  <2>1. PICK p \in pages, offers \in SUBSET Chosen :
           pages' = (pages \ {p}) \cup
                    {[p EXCEPT !.offers = offers, !.existing = Existing]}
    BY <1>6 DEF PostInvalid
  <2>2. [p EXCEPT !.offers = offers, !.existing = Existing]
            \in LitePage
    BY <1>0, ExistingChosen DEF LitePage
  <2>3. pages' \subseteq LitePage
    BY <1>0, <2>1, <2>2
  <2>. QED
    BY <1>0, <1>1, <1>6, <2>3 DEF PostInvalid, Approvals
<1>7. CASE PostNew
  <2>1. PICK p \in pages, c \in Chosen :
           CreateLite(p.user, c) /\ pages' = pages \ {p} /\ UNCHANGED <<form, told>>
    BY <1>7 DEF PostNew
  <2>2. Proposed(p.user, c) \in Row
    <3>1. p.user \in Users
      BY <1>0 DEF LitePage
    <3>. QED
      BY <3>1, RowFacts
  <2>3. /\ assessments' = Create(c) /\ Len(assessments) < MaxSeq
        /\ \/ lite' = [lite EXCEPT ![Len(assessments')] = Proposed(p.user, c)]
           \/ lite' = lite
    BY <2>1 DEF CreateLite
  <2>4. /\ lite' \in [Seqs -> Row \cup {NoRow}]
        /\ \A s \in Seqs \ {Len(assessments')} : lite'[s] = lite[s]
    BY <1>0, <2>2, <2>3
  <2>. QED
    BY <1>0, <1>2, <2>1, <2>3, <2>4
<1>8. CASE PostApprove
  <2>1. PICK p \in pages, c \in Chosen :
           /\ ApproveLite(LatestSeq, p.user, c) \/ Refused(LatestSeq, p.user, c)
           /\ pages' = pages \ {p} /\ form' = form
    BY <1>8 DEF PostApprove
  <2>2. p.user \in Users
    BY <1>0 DEF LitePage
  <2>3. LatestSeq \in Seqs \cup {0} /\ (LatestSeq # 0 => lite[LatestSeq] # NoRow)
    BY LatestIsGreatest
  <2>. DEFINE seq == LatestSeq
  <2>4. CASE ApproveLite(seq, p.user, c)
    <3>1. Max(ApprovalOf(seq)) \in PendingSeqs
      BY <2>3, <2>4, ApprovalIsPending DEF ApproveLite, Seqs
    <3>2. /\ lite' \in [Seqs -> Row \cup {NoRow}]
          /\ \A s \in Seqs : lite'[s] # NoRow => lite[s] # NoRow
      <4>1. CASE lite' = lite
        BY <1>0, <4>1
      <4>2. CASE seq # 0 /\ lite' = [lite EXCEPT ![seq] =
                   [@ EXCEPT !.approvedBy = p.user, !.approvedAs = c]]
        <5>1. [lite[seq] EXCEPT !.approvedBy = p.user, !.approvedAs = c] \in Row
          BY <1>0, <2>2, <2>3, <4>2, RowFacts
        <5>. QED
          BY <1>0, <2>3, <4>2, <5>1
      <4>. QED
        BY <2>4, <4>1, <4>2 DEF ApproveLite, Stamped
    <3>. QED
      BY <1>0, <1>3, <2>1, <2>4, <3>1, <3>2 DEF ApproveLite
  <2>5. CASE Refused(seq, p.user, c)
    <3>1. /\ lite' \in [Seqs -> Row \cup {NoRow}]
          /\ \A s \in Seqs : lite'[s] # NoRow => lite[s] # NoRow
          /\ told' \subseteq Seqs /\ assessments' = assessments
      BY <1>0, <2>3, <2>5 DEF Refused
    <3>. QED
      BY <1>0, <1>1, <2>1, <3>1 DEF Approvals
  <2>. QED
    BY <2>1, <2>4, <2>5
<1>9. CASE OpenForm
  <2>1. form' \in Form
    BY <1>0, <1>9 DEF OpenForm, Form
  <2>. QED
    BY <1>0, <1>1, <1>9, <2>1 DEF OpenForm, Approvals
<1>10. CASE SubmitForm
  <2>1. PICK c \in Chosen : assessments' = Create(c)
    BY <1>10 DEF SubmitForm
  <2>2. Len(assessments') \in 0..MaxSeq
    <3>1. Len(assessments') = Len(assessments) + 1
      BY <2>1, CreateFacts
    <3>2. Len(assessments) < MaxSeq
      BY <1>10 DEF SubmitForm
    <3>. QED
      BY <1>0, <3>1, <3>2
  <2>3. form' \in Form
    BY <1>10, <2>2 DEF SubmitForm, Form
  <2>. QED
    BY <1>0, <1>2, <1>10, <2>1, <2>3 DEF SubmitForm
<1>11. CASE ApproveForm
  <2>1. Max(ApprovalOf(0)) \in PendingSeqs
    BY <1>11, ApprovalIsPending DEF ApproveForm
  <2>2. form' \in Form
    BY <1>0, <1>11 DEF ApproveForm, Form
  <2>. QED
    BY <1>0, <1>3, <1>11, <2>1, <2>2 DEF ApproveForm
<1>12. CASE CancelForm
  <2>1. form' \in Form
    BY <1>0, <1>12 DEF CancelForm, Form
  <2>. QED
    BY <1>0, <1>1, <1>12, <2>1, InactiveFacts DEF CancelForm, Approvals
<1>13. CASE ApproveManually
  BY <1>0, <1>3, <1>13 DEF ApproveManually
<1>14. CASE UNCHANGED liteVars
  BY <1>0, <1>1, <1>14 DEF liteVars, Approvals
<1>. QED
  BY <1>4, <1>5, <1>6, <1>7, <1>8, <1>9, <1>10, <1>11, <1>12, <1>13, <1>14 DEF LiteNext
-----------------------------------------------------------------------------
(* What is approved stays so. *)

\* An assessment that has been approved keeps its category and how it was
\* approved, and none becomes pending again.
LEMMA ApprovedOnce ==
    ASSUME LiteTypeOK, Shaped, [LiteNext]_liteVars, NEW s \in DOMAIN assessments
    PROVE  /\ s \in DOMAIN assessments'
           /\ assessments[s].approvedIn # "" =>
                 /\ assessments'[s].approvedIn = assessments[s].approvedIn
                 /\ assessments'[s].category = assessments[s].category
           /\ assessments'[s].status = "PENDING" => assessments[s].status = "PENDING"
<1>1. CASE assessments' = assessments
  BY <1>1
<1>2. ASSUME NEW c \in Chosen, assessments' = Create(c)
      PROVE  s \in DOMAIN assessments' /\ assessments'[s] = assessments[s]
  <2>1. /\ Len(assessments) \in Nat /\ DOMAIN assessments = 1..Len(assessments)
        /\ DOMAIN assessments' = 1..Len(assessments) + 1
        /\ \A q \in DOMAIN assessments : assessments'[q] = assessments[q]
    BY <1>2, CreateFacts
  <2>. QED
    BY <2>1
<1>3. ASSUME NEW seq \in PendingSeqs, NEW c \in Chosen,
             NEW where \in {"service", "P-Nomis"},
             assessments' = Approved(seq, c, where)
      PROVE  /\ s \in DOMAIN assessments'
             /\ assessments[s].approvedIn # "" =>
                   /\ assessments'[s].approvedIn = assessments[s].approvedIn
                   /\ assessments'[s].category = assessments[s].category
             /\ assessments'[s].status = "PENDING" => assessments[s].status = "PENDING"
  <2>1. AfterApproval(assessments', seq, c, where)
    BY <1>3, ApprovedFacts
  <2>2. CASE s = seq
    <3>1. assessments[s].status = "PENDING"
      BY <2>2 DEF PendingSeqs
    <3>2. assessments[s].approvedIn = ""
      BY <3>1 DEF Shaped, Approvals
    <3>. QED
      BY <2>1, <2>2, <3>1, <3>2 DEF AfterApproval
  <2>3. CASE s # seq
    BY <2>1, <2>3 DEF AfterApproval
  <2>. QED
    BY <2>2, <2>3
<1>4. CASE PostNew
  BY <1>2, <1>4 DEF PostNew, CreateLite
<1>5. CASE PostApprove
  <2>1. PICK p \in pages, c \in Chosen :
           ApproveLite(LatestSeq, p.user, c) \/ Refused(LatestSeq, p.user, c)
    BY <1>5 DEF PostApprove
  <2>2. CASE ApproveLite(LatestSeq, p.user, c)
    <3>1. LatestSeq \in Nat
      BY LatestIsGreatest DEF Seqs
    <3>2. Max(ApprovalOf(LatestSeq)) \in PendingSeqs
      BY <2>2, <3>1, ApprovalIsPending DEF ApproveLite
    <3>. QED
      BY <1>3, <2>2, <3>2 DEF ApproveLite
  <2>3. CASE Refused(LatestSeq, p.user, c)
    BY <1>1, <2>3 DEF Refused
  <2>. QED
    BY <2>1, <2>2, <2>3
<1>6. CASE SubmitForm
  BY <1>2, <1>6 DEF SubmitForm
<1>7. CASE ApproveForm
  <2>1. Max(ApprovalOf(0)) \in PendingSeqs
    BY <1>7, ApprovalIsPending DEF ApproveForm
  <2>. QED
    BY <1>3, <1>7, <2>1 DEF ApproveForm
<1>8. CASE CancelForm
  BY <1>8, InactiveFacts
<1>9. CASE ApproveManually
  BY <1>3, <1>9 DEF ApproveManually
<1>. QED
  BY <1>1, <1>4, <1>5, <1>6, <1>7, <1>8, <1>9
     DEF LiteNext, GetNew, GetApprove, PostInvalid, OpenForm, liteVars

\* A row is stamped only with the approval NOMIS takes, and NOMIS then keeps it.
LEMMA ApprovedStep ==
    ASSUME LiteTypeOK, Shaped, ApprovedInNomis, [LiteNext]_liteVars
    PROVE  ApprovedInNomis'
<1>0. /\ lite \in [Seqs -> Row \cup {NoRow}] /\ Numbered /\ NoRow.approvedBy = Nobody
      /\ DOMAIN assessments = 1..Len(assessments) /\ Len(assessments) \in Nat
  <2>1. assessments \in Seq(Assessment)
    BY DEF Shaped
  <2>2. DOMAIN assessments = 1..Len(assessments) /\ Len(assessments) \in Nat
    BY <2>1
  <2>. QED
    BY <2>2, NobodyApprovedNoRow DEF LiteTypeOK, Shaped
<1>1. ASSUME NEW s \in Seqs, lite[s].approvedBy # Nobody
      PROVE  /\ assessments'[s].approvedIn = "service"
             /\ assessments'[s].category = lite[s].approvedAs
  <2>1. s \in DOMAIN assessments
    BY <1>0, <1>1 DEF Numbered
  <2>2. assessments[s].approvedIn = "service" /\ assessments[s].category = lite[s].approvedAs
    BY <1>1 DEF ApprovedInNomis
  <2>. QED
    BY <2>1, <2>2, ApprovedOnce
<1>2. ASSUME \A s \in Seqs : lite'[s].approvedBy # Nobody => lite'[s] = lite[s]
      PROVE  ApprovedInNomis'
  BY <1>1, <1>2 DEF ApprovedInNomis
<1>3. CASE PostNew
  <2>1. PICK p \in pages, c \in Chosen : CreateLite(p.user, c)
    BY <1>3 DEF PostNew
  <2>2. Len(assessments') = Len(assessments) + 1 /\ Len(assessments) < MaxSeq
    BY <2>1, CreateFacts DEF CreateLite
  <2>3. Len(assessments') \in Seqs
    BY <1>0, <2>2, LiteAssumption DEF Seqs
  <2>4. lite' = lite \/ lite' = [lite EXCEPT ![Len(assessments')] = Proposed(p.user, c)]
    BY <2>1 DEF CreateLite
  <2>5. Proposed(p.user, c).approvedBy = Nobody
    BY DEF Proposed
  <2>6. \A s \in Seqs : lite'[s] = lite[s] \/ lite'[s] = Proposed(p.user, c)
    BY <1>0, <2>3, <2>4
  <2>. QED
    BY <1>2, <2>5, <2>6
<1>4. CASE PostApprove
  <2>1. PICK p \in pages, c \in Chosen :
           ApproveLite(LatestSeq, p.user, c) \/ Refused(LatestSeq, p.user, c)
    BY <1>4 DEF PostApprove
  <2>. DEFINE seq == LatestSeq
  <2>2. seq \in Seqs \cup {0} /\ (seq # 0 => lite[seq] # NoRow) /\ seq \in Nat
    BY LatestIsGreatest DEF Seqs
  <2>3. CASE ApproveLite(seq, p.user, c) /\ lite' # lite
    <3>1. seq \in Seqs /\ lite' = [lite EXCEPT ![seq] =
                 [@ EXCEPT !.approvedBy = p.user, !.approvedAs = c]]
      BY <2>2, <2>3 DEF ApproveLite, Stamped
    <3>2. Max(ApprovalOf(seq)) = seq /\ seq \in PendingSeqs
      BY <2>2, <2>3, <3>1, ApprovalIsPending DEF ApproveLite, Seqs
    <3>3. assessments' = Approved(seq, c, "service")
      BY <2>3, <3>2 DEF ApproveLite
    <3>4. AfterApproval(assessments', seq, c, "service")
      BY <3>2, <3>3, ApprovedFacts
    <3>5. assessments'[seq].approvedIn = "service" /\ assessments'[seq].category = c
      BY <3>4 DEF AfterApproval
    <3>6. lite'[seq].approvedAs = c
      <4>1. p.user \in Users
        BY DEF LiteTypeOK, LitePage
      <4>2. lite[seq] \in Row
        BY <1>0, <2>2, <3>1
      <4>. QED
        BY <1>0, <3>1, <4>1, <4>2 DEF Row
    <3>7. \A s \in Seqs \ {seq} : lite'[s] = lite[s]
      BY <1>0, <3>1
    <3>. QED
      BY <1>1, <3>5, <3>6, <3>7 DEF ApprovedInNomis
  <2>4. CASE Refused(seq, p.user, c)
    <3>1. \/ lite' = lite
          \/ seq \in Seqs /\ lite' = [lite EXCEPT ![seq] = NoRow]
      BY <2>2, <2>4 DEF Refused
    <3>. QED
      BY <1>0, <1>2, <3>1
  <2>. QED
    BY <1>2, <2>1, <2>3, <2>4
<1>5. CASE UNCHANGED lite
  BY <1>2, <1>5
<1>. QED
  BY <1>3, <1>4, <1>5
     DEF LiteNext, GetNew, GetApprove, PostInvalid, OpenForm, SubmitForm, ApproveForm,
         CancelForm, ApproveManually, liteVars
-----------------------------------------------------------------------------
(* Nothing gets in the way, when the pages are fresh and NOMIS answers. *)

\* What users have been told, and what the categorisation approved, stays true.
LEMMA HistoryKept ==
    ASSUME LiteTypeOK, Shaped, [LiteNext]_liteVars, FreshInv
    PROVE  /\ told' = told => ToldInNomis' /\ ToldTruth'
           /\ form' = form => FormInNomis' /\ FormApprovesItsOwn'
<1>1. \A s \in DOMAIN assessments :
         /\ s \in DOMAIN assessments'
         /\ assessments[s].approvedIn # "" => assessments'[s].approvedIn = assessments[s].approvedIn
  BY ApprovedOnce
<1>2. ASSUME told' = told PROVE ToldInNomis' /\ ToldTruth'
  BY <1>1, <1>2 DEF FreshInv, ToldInNomis, ToldTruth
<1>3. ASSUME form' = form PROVE FormInNomis' /\ FormApprovesItsOwn'
  BY <1>1, <1>3 DEF FreshInv, FormInNomis, FormApprovesItsOwn
<1>. QED
  BY <1>2, <1>3

\* What is on the list is the latest row alone, and only it is pending unless a
\* categorisation waits.
LEMMA ListFacts ==
    ASSUME LiteTypeOK, Shaped, FreshInv
    PROVE  /\ LiteInProgress => /\ ToApprove = {LatestSeq} /\ ~FormInProgress
                                /\ PendingSeqs \subseteq {LatestSeq}
           /\ ~LiteInProgress => ToApprove = {}
           /\ ~LiteInProgress /\ form.status # "AWAITING_APPROVAL" => PendingSeqs = {}
           /\ form.status = "AWAITING_APPROVAL" =>
                 ToApprove = {} /\ PendingSeqs \subseteq {form.seq}
<1>1. Alone
  BY DEF FreshInv
<1>2. LatestSeq \in Seqs \cup {0} /\ (LatestSeq # 0 => lite[LatestSeq] # NoRow)
  BY LatestIsGreatest
<1>3. LiteInProgress <=> LatestSeq \in ToApprove
  BY <1>2 DEF LiteInProgress, ToApprove, Seqs
<1>4. /\ ToApprove \subseteq {LatestSeq}
      /\ FormInProgress => ToApprove = {}
      /\ form.status = "AWAITING_APPROVAL" => FormInProgress
      /\ \A s \in PendingSeqs : \/ s \in ToApprove
                                \/ form.status = "AWAITING_APPROVAL" /\ s = form.seq
  BY <1>1 DEF Alone, FormInProgress
<1>5. /\ LiteInProgress => ToApprove = {LatestSeq} /\ ~FormInProgress
      /\ ~LiteInProgress => ToApprove = {}
  BY <1>3, <1>4
<1>. HIDE DEF ToApprove
<1>. QED
  BY <1>4, <1>5

\* Nothing waits, after a step.
LEMMA NothingWaits ==
    ASSUME ToApprove' = {}, PendingSeqs' = {} PROVE Alone' /\ Listed'
BY DEF Alone, Listed

\* No assessment becomes pending when none is made.
LEMMA PendingShrinks ==
    ASSUME LiteTypeOK, Shaped, [LiteNext]_liteVars, DOMAIN assessments' = DOMAIN assessments
    PROVE  PendingSeqs' \subseteq PendingSeqs
BY ApprovedOnce DEF PendingSeqs

\* The rows that are there have numbers NOMIS gave, and the next number is free.
LEMMA NextNumber ==
    ASSUME LiteTypeOK, Shaped, NEW c \in Chosen,
           assessments' = Create(c), Len(assessments) < MaxSeq
    PROVE  /\ Len(assessments') \in Seqs /\ Len(assessments') \notin DOMAIN assessments
           /\ lite[Len(assessments')] = NoRow
           /\ PendingSeqs' = PendingSeqs \cup {Len(assessments')}
           /\ Len(assessments') \in DOMAIN assessments'
           /\ \A s \in Seqs : lite[s] # NoRow => s < Len(assessments')
<1>1. /\ Len(assessments) \in Nat /\ DOMAIN assessments = 1..Len(assessments)
      /\ Len(assessments') = Len(assessments) + 1 /\ DOMAIN assessments' = 1..Len(assessments) + 1
      /\ assessments'[Len(assessments')].status = "PENDING"
      /\ \A s \in DOMAIN assessments : assessments'[s] = assessments[s]
  BY CreateFacts
<1>2. /\ Len(assessments') \in Seqs /\ Len(assessments') \notin DOMAIN assessments
      /\ Len(assessments') \in DOMAIN assessments'
  BY <1>1, LiteAssumption DEF Seqs
<1>3. \A s \in Seqs : lite[s] # NoRow => s \in DOMAIN assessments
  BY DEF Shaped, Numbered
<1>4. \A s \in DOMAIN assessments : s < Len(assessments')
  BY <1>1
<1>5. \A s \in DOMAIN assessments' : s = Len(assessments') \/ s \in DOMAIN assessments
  BY <1>1
<1>6. \A s \in DOMAIN assessments : s \in DOMAIN assessments'
  BY <1>1
<1>7. PendingSeqs' = PendingSeqs \cup {Len(assessments')}
  BY <1>1, <1>2, <1>5, <1>6 DEF PendingSeqs
<1>. QED
  BY <1>2, <1>3, <1>4, <1>7

\* A proposal is made when nothing else waits, and is the latest row.
LEMMA ProposalAlone ==
    ASSUME fresh, UNCHANGED fresh, LiteTypeOK, Shaped, FreshInv, PostNew
    PROVE  FreshInv'
<1>1. PICK p \in pages, c \in Chosen :
         CreateLite(p.user, c) /\ MayPropose /\ UNCHANGED <<form, told>>
  BY DEF PostNew
<1>. DEFINE n == Len(assessments')
<1>2. /\ assessments' = Create(c) /\ Len(assessments) < MaxSeq
      /\ lite' = [lite EXCEPT ![n] = Proposed(p.user, c)]
  BY <1>1 DEF CreateLite
<1>3. /\ n \in Seqs /\ n \notin DOMAIN assessments /\ n \in DOMAIN assessments'
      /\ PendingSeqs' = PendingSeqs \cup {n}
      /\ \A s \in Seqs : lite[s] # NoRow => s < n
  BY <1>2, NextNumber
<1>4. ToApprove = {} /\ PendingSeqs = {} /\ ~FormInProgress
  <2>1. ~LiteInProgress /\ ~FormInProgress
    BY <1>1 DEF MayPropose
  <2>. QED
    BY <2>1, ListFacts DEF FormInProgress
<1>5. /\ Proposed(p.user, c) \in Row /\ Proposed(p.user, c) # NoRow
      /\ Proposed(p.user, c).approvedBy = Nobody
  <2>1. p.user \in Users
    BY DEF LiteTypeOK, LitePage
  <2>2. Proposed(p.user, c).approvedBy = Nobody
    BY DEF Proposed
  <2>. QED
    BY <2>1, <2>2, RowFacts
<1>6. /\ lite'[n] = Proposed(p.user, c)
      /\ \A s \in Seqs \ {n} : lite'[s] = lite[s]
  BY <1>2, <1>3 DEF LiteTypeOK
<1>7. ToApprove' = {n}
  BY <1>3, <1>4, <1>5, <1>6 DEF ToApprove
<1>. HIDE DEF n
<1>8. LatestSeq' = n
  <2>. DEFINE present == {s \in Seqs : lite'[s] # NoRow}
  <2>1. n \in present /\ (\A s \in present : s <= n) /\ n \in Int
    BY <1>3, <1>5, <1>6 DEF Seqs
  <2>2. present \in SUBSET Int
    BY DEF Seqs
  <2>3. \A m \in present : (\A s \in present : s <= m) => m = n
    BY <2>1, <2>2
  <2>. HIDE DEF present
  <2>4. Max(present) = n
    BY <2>1, <2>2, <2>3 DEF Max
  <2>5. LatestSeq' = IF present = {} THEN 0 ELSE Max(present)
    BY DEF LatestSeq, present
  <2>. QED
    BY <2>1, <2>4, <2>5
<1>9. Alone'
  <2>1. ~FormInProgress'
    BY <1>1, <1>4 DEF FormInProgress
  <2>2. PendingSeqs' = {n}
    BY <1>3, <1>4
  <2>. QED
    BY <1>7, <1>8, <2>1, <2>2 DEF Alone
<1>10. Listed'
  <2>1. n \in PendingSeqs'
    BY <1>3
  <2>2. assessments'[n].status = "PENDING"
    BY <2>1 DEF PendingSeqs
  <2>. QED
    BY <1>7, <2>2 DEF Listed
<1>11. FourEyes'
  BY <1>5, <1>6 DEF FreshInv, FourEyes
<1>12. ToldInNomis' /\ ToldTruth' /\ FormInNomis' /\ FormApprovesItsOwn'
  BY <1>1, HistoryKept DEF LiteNext
<1>. QED
  BY <1>9, <1>10, <1>11, <1>12 DEF FreshInv

\* A proposal is decided by somebody else, and nothing waits any more.
LEMMA DecisionAlone ==
    ASSUME fresh, UNCHANGED fresh, LiteTypeOK, Shaped, FreshInv, PostApprove
    PROVE  FreshInv'
<1>. DEFINE seq == LatestSeq
<1>1. PICK p \in pages, c \in Chosen :
         /\ MayApprove(p.user) /\ form' = form
         /\ ApproveLite(seq, p.user, c) \/ Refused(seq, p.user, c)
  BY DEF PostApprove
<1>2. /\ seq \in Seqs /\ seq \in Nat /\ seq # 0 /\ lite[seq] # NoRow
      /\ p.user # lite[seq].assessedBy /\ p.user \in Users
      /\ ToApprove = {seq} /\ PendingSeqs \subseteq {seq} /\ ~FormInProgress
  <2>1. LiteInProgress /\ ~SameUser(p.user)
    BY <1>1 DEF MayApprove
  <2>2. seq # 0
    BY <2>1 DEF LiteInProgress
  <2>3. seq \in Seqs /\ lite[seq] # NoRow
    BY <2>2, LatestIsGreatest
  <2>4. seq \in Nat
    BY <2>3 DEF Seqs
  <2>5. p.user \in Users
    BY DEF LiteTypeOK, LitePage
  <2>6. p.user # lite[seq].assessedBy
    BY <2>1 DEF SameUser
  <2>. HIDE DEF seq
  <2>7. ToApprove = {seq} /\ PendingSeqs \subseteq {seq} /\ ~FormInProgress
    BY <2>1, ListFacts DEF seq
  <2>. QED
    BY <2>2, <2>3, <2>4, <2>5, <2>6, <2>7
<1>3. seq \in DOMAIN assessments
  BY <1>2 DEF Shaped, Numbered
<1>4. FormInNomis' /\ FormApprovesItsOwn'
  BY <1>1, HistoryKept DEF LiteNext
<1>. HIDE DEF seq
<1>5. CASE ApproveLite(seq, p.user, c)
  <2>1. Max(ApprovalOf(seq)) = seq /\ seq \in PendingSeqs
    BY <1>2, <1>5, ApprovalIsPending DEF ApproveLite
  <2>2. AfterApproval(assessments', seq, c, "service")
    BY <1>5, <2>1, ApprovedFacts DEF ApproveLite
  <2>3. lite' = [lite EXCEPT ![seq] =
                    [lite[seq] EXCEPT !.approvedBy = p.user, !.approvedAs = c]]
    BY <1>2, <1>5 DEF ApproveLite, Stamped
  <2>4. PendingSeqs' = {}
    <3>1. DOMAIN assessments' = DOMAIN assessments /\ assessments'[seq].status # "PENDING"
      BY <2>2 DEF AfterApproval
    <3>2. PendingSeqs' \subseteq PendingSeqs
      BY <3>1, PendingShrinks DEF LiteNext
    <3>3. seq \notin PendingSeqs'
      BY <3>1 DEF PendingSeqs
    <3>. QED
      BY <1>2, <3>2, <3>3
  <2>5. /\ lite'[seq].approvedBy = p.user /\ p.user # Nobody
        /\ lite'[seq].assessedBy = lite[seq].assessedBy
        /\ \A s \in Seqs \ {seq} : lite'[s] = lite[s]
    <3>1. lite \in [Seqs -> Row \cup {NoRow}] /\ Nobody \notin Users
      BY LiteAssumption DEF LiteTypeOK, Nobody
    <3>2. lite[seq] \in Row
      BY <1>2, <3>1
    <3>3. lite'[seq] = [lite[seq] EXCEPT !.approvedBy = p.user, !.approvedAs = c]
      BY <1>2, <2>3, <3>1
    <3>4. /\ lite'[seq].approvedBy = p.user
          /\ lite'[seq].assessedBy = lite[seq].assessedBy
      BY <3>2, <3>3 DEF Row
    <3>. QED
      BY <1>2, <2>3, <3>1, <3>4
  <2>6. ToApprove' = {}
    BY <1>2, <2>5 DEF ToApprove
  <2>7. FourEyes'
    BY <1>2, <2>5 DEF FreshInv, FourEyes
  <2>8. ToldInNomis' /\ ToldTruth'
    BY <1>5, HistoryKept DEF ApproveLite, LiteNext
  <2>. QED
    BY <1>4, <2>4, <2>6, <2>7, <2>8, NothingWaits DEF FreshInv
<1>6. CASE Refused(seq, p.user, c)
  <2>1. /\ assessments' = assessments /\ lite' = [lite EXCEPT ![seq] = NoRow]
        /\ told' = told \cup {seq} /\ seq \notin PendingSeqs
    BY <1>2, <1>6 DEF Refused, ApprovalOf
  <2>2. assessments[seq].approvedIn = "P-Nomis"
    BY <1>2, <1>3, <2>1 DEF FreshInv, Listed, PendingSeqs
  <2>3. ToldInNomis' /\ ToldTruth'
    BY <1>3, <2>1, <2>2 DEF FreshInv, ToldInNomis, ToldTruth
  <2>4. lite'[seq] = NoRow /\ \A s \in Seqs \ {seq} : lite'[s] = lite[s]
    BY <1>2, <2>1 DEF LiteTypeOK
  <2>5. ToApprove' = {} /\ PendingSeqs' = {}
    BY <1>2, <2>1, <2>4 DEF ToApprove, PendingSeqs
  <2>6. FourEyes'
    BY <2>4, NobodyApprovedNoRow DEF FreshInv, FourEyes
  <2>. QED
    BY <1>4, <2>3, <2>5, <2>6, NothingWaits DEF FreshInv
<1>. QED
  BY <1>1, <1>5, <1>6

\* A categorisation is opened and submitted when no proposal waits.
LEMMA FormAlone ==
    ASSUME UNCHANGED fresh, LiteTypeOK, Shaped, FreshInv,
           OpenForm \/ SubmitForm \/ ApproveForm \/ CancelForm
    PROVE  FreshInv'
<1>1. lite' = lite /\ told' = told /\ [LiteNext]_liteVars
  BY DEF OpenForm, SubmitForm, ApproveForm, CancelForm, LiteNext
<1>2. FourEyes' /\ ToldInNomis' /\ ToldTruth' /\ ToApprove' = ToApprove
  <2>1. FourEyes' /\ ToApprove' = ToApprove
    BY <1>1 DEF FreshInv, FourEyes, ToApprove
  <2>. QED
    BY <1>1, <2>1, HistoryKept
<1>3. CASE OpenForm
  <2>1. assessments' = assessments /\ form'.status = "STARTED"
    BY <1>3 DEF OpenForm
  <2>2. ToApprove = {} /\ PendingSeqs = {}
    BY <1>3, ListFacts DEF OpenForm, FormInProgress
  <2>3. PendingSeqs' = PendingSeqs
    BY <2>1 DEF PendingSeqs
  <2>4. FormInNomis' /\ FormApprovesItsOwn'
    BY <2>1 DEF FormInNomis, FormApprovesItsOwn
  <2>. QED
    BY <1>2, <2>2, <2>3, <2>4, NothingWaits DEF FreshInv
<1>4. CASE SubmitForm
  <2>1. PICK c \in Chosen :
           /\ assessments' = Create(c) /\ Len(assessments) < MaxSeq
           /\ form' = [status |-> "AWAITING_APPROVAL", seq |-> Len(assessments')]
    BY <1>4 DEF SubmitForm
  <2>2. ToApprove = {} /\ PendingSeqs = {}
    <3>1. FormInProgress /\ form.status # "AWAITING_APPROVAL"
      BY <1>4 DEF SubmitForm, FormInProgress
    <3>. QED
      BY <3>1, ListFacts
  <2>3. PendingSeqs' = {form'.seq} /\ form'.seq \in DOMAIN assessments'
    BY <2>1, <2>2, NextNumber
  <2>4. Alone' /\ Listed'
    BY <1>2, <2>1, <2>2, <2>3 DEF Alone, Listed
  <2>5. FormInNomis' /\ FormApprovesItsOwn'
    BY <2>1, <2>3 DEF FormInNomis, FormApprovesItsOwn
  <2>. QED
    BY <1>2, <2>4, <2>5 DEF FreshInv
<1>5. CASE ApproveForm
  <2>1. PICK c \in Chosen : assessments' = Approved(Max(ApprovalOf(0)), c, "service")
    BY <1>5 DEF ApproveForm
  <2>2. ToApprove = {} /\ PendingSeqs \subseteq {form.seq}
    BY <1>5, ListFacts DEF ApproveForm
  <2>3. Max(ApprovalOf(0)) = form.seq /\ form.seq \in PendingSeqs
    <3>1. Max(ApprovalOf(0)) \in PendingSeqs
      BY <1>5, ApprovalIsPending DEF ApproveForm
    <3>. QED
      BY <2>2, <3>1
  <2>4. AfterApproval(assessments', form.seq, c, "service")
    BY <2>1, <2>3, ApprovedFacts
  <2>5. form'.seq = form.seq /\ form'.status = "APPROVED"
    BY <1>5 DEF ApproveForm, LiteTypeOK, Form
  <2>6. FormInNomis' /\ FormApprovesItsOwn'
    BY <2>4, <2>5 DEF FormInNomis, FormApprovesItsOwn, AfterApproval
  <2>7. PendingSeqs' = {}
    <3>1. DOMAIN assessments' = DOMAIN assessments /\ assessments'[form.seq].status # "PENDING"
      BY <2>4 DEF AfterApproval
    <3>2. PendingSeqs' \subseteq PendingSeqs
      BY <1>1, <3>1, PendingShrinks
    <3>3. form.seq \notin PendingSeqs'
      BY <3>1 DEF PendingSeqs
    <3>. QED
      BY <2>2, <3>2, <3>3
  <2>. QED
    BY <1>2, <2>2, <2>6, <2>7, NothingWaits DEF FreshInv
<1>6. CASE CancelForm
  <2>1. form'.status = "NONE"
    BY <1>6 DEF CancelForm
  <2>2. PendingSeqs' = {}
    BY <1>6, InactiveFacts DEF PendingSeqs
  <2>3. ToApprove = {}
    BY <1>6 DEF CancelForm, FreshInv, Alone
  <2>4. FormInNomis' /\ FormApprovesItsOwn'
    BY <2>1 DEF FormInNomis, FormApprovesItsOwn
  <2>. QED
    BY <1>2, <2>2, <2>3, <2>4, NothingWaits DEF FreshInv
<1>. QED
  BY <1>3, <1>4, <1>5, <1>6

\* What is approved on P-Nomis is pending, and stays on the list until it is
\* found out.
LEMMA ManualAlone ==
    ASSUME UNCHANGED fresh, LiteTypeOK, Shaped, FreshInv, ApproveManually
    PROVE  FreshInv'
<1>1. PICK s \in PendingSeqs, c \in Chosen : assessments' = Approved(s, c, "P-Nomis")
  BY DEF ApproveManually
<1>2. lite' = lite /\ form' = form /\ told' = told
  BY DEF ApproveManually
<1>3. AfterApproval(assessments', s, c, "P-Nomis")
  BY <1>1, ApprovedFacts
<1>4. PendingSeqs' \subseteq PendingSeqs
  BY <1>3, PendingShrinks DEF AfterApproval, LiteNext
<1>5. ToApprove' = ToApprove /\ LatestSeq' = LatestSeq
      /\ (FormInProgress' => FormInProgress) /\ FourEyes'
  BY <1>2 DEF ToApprove, LatestSeq, FormInProgress, FourEyes, FreshInv
<1>6. Alone'
  BY <1>2, <1>4, <1>5 DEF Alone, FreshInv
<1>7. Listed'
  <2>1. \A q \in ToApprove : q \in DOMAIN assessments
    BY DEF ToApprove, Shaped, Numbered
  <2>2. \A q \in DOMAIN assessments :
           assessments[q].status = "PENDING" \/ assessments[q].approvedIn = "P-Nomis" =>
               assessments'[q].status = "PENDING" \/ assessments'[q].approvedIn = "P-Nomis"
    BY <1>3 DEF AfterApproval
  <2>. QED
    BY <1>5, <2>1, <2>2 DEF Listed, FreshInv
<1>8. ToldInNomis' /\ ToldTruth' /\ FormInNomis' /\ FormApprovesItsOwn'
  BY <1>2, HistoryKept DEF LiteNext
<1>. QED
  BY <1>5, <1>6, <1>7, <1>8 DEF FreshInv

LEMMA FreshStep ==
    ASSUME fresh, LiteTypeOK, Shaped, FreshInv, [LiteNext]_liteVars
    PROVE  FreshInv'
<1>1. CASE UNCHANGED <<lite, assessments, form, told>>
  BY <1>1 DEF FreshInv, Alone, Listed, FormInNomis, ToldInNomis, FormApprovesItsOwn,
              ToldTruth, FourEyes, ToApprove, LatestSeq, FormInProgress, PendingSeqs
<1>2. CASE GetNew \/ GetApprove \/ PostInvalid
  BY <1>1, <1>2 DEF GetNew, GetApprove, PostInvalid
<1>. QED
  BY <1>1, <1>2, ProposalAlone, DecisionAlone, FormAlone, ManualAlone DEF LiteNext, liteVars
-----------------------------------------------------------------------------
\* What holds whatever the pages and NOMIS do.
LEMMA ApprovedAlways ==
    LiteSpec => [](LiteTypeOK /\ Shaped /\ ApprovedInNomis)
<1>. DEFINE Inv == LiteTypeOK /\ Shaped /\ ApprovedInNomis
<1>1. LiteInit => Inv
  <2>1. LiteInit => ApprovedInNomis
    BY NobodyApprovedNoRow DEF LiteInit, ApprovedInNomis
  <2>. QED
    BY <2>1, InitShaped
<1>2. Inv /\ [LiteNext]_liteVars => Inv'
  BY NextShaped, ApprovedStep
<1>. QED
  BY <1>1, <1>2, PTL DEF LiteSpec

\* And what holds besides when the pages are fresh and NOMIS answers.
LEMMA FreshAlways ==
    LiteSpec => [](fresh => FreshInv)
<1>1. LiteInit => FreshInv
  <2>. SUFFICES ASSUME LiteInit PROVE FreshInv
    OBVIOUS
  <2>1. DOMAIN assessments = {} /\ \A s \in Seqs : lite[s] = NoRow
    BY DEF LiteInit
  <2>2. ToApprove = {} /\ PendingSeqs = {}
    BY <2>1 DEF ToApprove, PendingSeqs
  <2>3. Alone /\ Listed
    BY <2>2 DEF Alone, Listed
  <2>4. FormInNomis /\ FormApprovesItsOwn /\ ToldInNomis /\ ToldTruth
    BY DEF LiteInit, FormInNomis, FormApprovesItsOwn, ToldInNomis, ToldTruth
  <2>5. FourEyes
    BY <2>1, NobodyApprovedNoRow DEF FourEyes
  <2>. QED
    BY <2>3, <2>4, <2>5 DEF FreshInv
<1>2. LiteTypeOK /\ Shaped /\ (fresh => FreshInv) /\ [LiteNext]_liteVars
         => (fresh => FreshInv)'
  <2>1. [LiteNext]_liteVars => fresh' = fresh
    BY DEF LiteNext, liteVars
  <2>. QED
    BY <2>1, FreshStep
<1>. QED
  BY <1>1, <1>2, ApprovedAlways, PTL DEF LiteSpec

\* The table, NOMIS and the pages hold what they should.
THEOREM LiteTypeCorrect == LiteSpec => []LiteTypeOK
BY ApprovedAlways, PTL

\* A row is stamped with the approval NOMIS took, and NOMIS does not take it
\* back, even when pages are posted late and answers are lost
\* (approveLiteCategorisation).  A user who is told of an approval on P-Nomis
\* is told the truth when neither happens.
THEOREM TableFollowsNomis == LiteSpec => []LiteApproved
<1>1. ApprovedInNomis /\ (fresh => FreshInv) => LiteApproved
  BY DEF LiteApproved, FreshInv
<1>. QED
  BY <1>1, ApprovedAlways, FreshAlways, PTL

\* A proposal and a categorisation are never in progress together, and an
\* approval reaches the one that waits, when the pages are fresh and NOMIS
\* answers (openTasklist of liteCategories.js and of tasklist.js).
THEOREM ProposalOrForm == LiteSpec => []LiteOrForm
<1>1. ASSUME FreshInv
      PROVE  OneInProgress /\ FormApprovesItsOwn /\ ListedCanBeApproved
  <2>1. ToApprove \subseteq {LatestSeq} /\ (FormInProgress => ToApprove = {})
    BY <1>1 DEF FreshInv, Alone
  <2>2. Cardinality(ToApprove) \in Nat /\ Cardinality(ToApprove) <= 1
    BY <2>1, AtMostOne
  <2>3. ToApprove = {} => Cardinality(ToApprove) = 0
    BY FS_EmptySet
  <2>4. OneInProgress
    BY <2>1, <2>2, <2>3 DEF OneInProgress
  <2>. QED
    BY <1>1, <2>1, <2>4 DEF FreshInv, ListedCanBeApproved
<1>2. (fresh => FreshInv) => LiteOrForm
  BY <1>1 DEF LiteOrForm
<1>. QED
  BY <1>2, FreshAlways, PTL

\* Nobody approves a proposal of their own: the page compares the user with the
\* one who proposed, and the page is fresh.
THEOREM NobodyApprovesTheirOwn == LiteSpec => []FourEyesWhenFresh
<1>1. (fresh => FreshInv) => FourEyesWhenFresh
  BY DEF FreshInv, FourEyesWhenFresh
<1>. QED
  BY <1>1, FreshAlways, PTL
=============================================================================
