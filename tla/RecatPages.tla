----------------------------- MODULE RecatPages -----------------------------
(***************************************************************************)
(* The pages of a recategorisation, from the tasklist to the submission,   *)
(* in one or more tabs of a categoriser.  The next review date and the     *)
(* open conditions have modules of their own and count as done here; the   *)
(* decisions are those that ask for no open conditions.                    *)
(***************************************************************************)
EXTENDS CategorisationStatus, FormPages

CONSTANTS
    Tabs,        \* the tabs of the categoriser
    Varied,      \* the pages that are filled in in every way, the rest in one
    MaxReturns   \* how often the supervisor sends it back, a bound of the model

VARIABLES
    person,      \* the prisoner: estate, age group and category in NOMIS
    doc,         \* the pages of section `recat' that have been saved
    status,
    message,     \* the message of the supervisor: "none", "unread" or "read"
    tabs,        \* what each tab shows
    said,        \* the last answer about a recent OASys assessment
    reviews,     \* whether security has reviewed this categorisation
    submitted,   \* whether it is with the supervisor
    returns      \* how often it was sent back

vars == <<person, doc, status, message, tabs, said, reviews, submitted, returns>>

\* Those who can be given a higher or a lower closed category.
People ==
    { [women |-> FALSE, young |-> FALSE, current |-> "C", crime |-> FALSE],
      [women |-> FALSE, young |-> FALSE, current |-> "D", crime |-> TRUE],
      [women |-> FALSE, young |-> TRUE,  current |-> "I", crime |-> FALSE],
      [women |-> TRUE,  young |-> FALSE, current |-> "T", crime |-> FALSE] }
-----------------------------------------------------------------------------
(* The fields of each page, and what it shows. *)

PrisonerBackground == [offenceDetails |-> Required]
PrisonerBackgroundScreen == Screen(NoHidden, {"offenceDetails"}, NoHidden)

PreviousRiskAssessments == [haveTheyHadRecentOasysAssessment |-> Required]
PreviousRiskAssessmentsScreen ==
    Screen([haveTheyHadRecentOasysAssessment |-> {"yes", "no", "notRequired"}], {}, NoHidden)

OasysInput ==
    [ oasysRelevantInfo |-> Required,
      oasysInputText |-> RequiredIf("oasysRelevantInfo", "Yes") ]
OasysScreen == Screen([oasysRelevantInfo |-> YesNo], {"oasysInputText"}, NoHidden)

BcstInput ==
    [ bcstRelevantInfo |-> Required,
      bcstInputText |-> RequiredIf("bcstRelevantInfo", "Yes") ]
BcstScreen == Screen([bcstRelevantInfo |-> YesNo], {"bcstInputText"}, NoHidden)

\* Every recategorisation is referred: that is not asked, only whether there
\* is a note.
SecurityInput ==
    [ securityInputNeeded |-> Required,
      securityNoteNeeded |-> Required,
      securityInputNeededText |-> RequiredIf("securityNoteNeeded", "Yes") ]
SecurityInputScreen ==
    Screen([securityNoteNeeded |-> YesNo], {"securityInputNeededText"},
           [securityInputNeeded |-> "Yes"])

SecurityBack == NoHidden
SecurityBackScreen == Screen(NoHidden, {}, NoHidden)

RiskAssessment ==
    [ lowerCategory |-> Required,
      higherCategory |-> Required,
      otherRelevant |-> Required,
      otherRelevantText |-> RequiredIf("otherRelevant", "Yes") ]
RiskAssessmentScreen ==
    Screen([otherRelevant |-> YesNo],
           {"lowerCategory", "higherCategory", "otherRelevantText"}, NoHidden)

Decision == [category |-> Required, justification |-> Required]
DecisionScreen ==
    Screen([category |-> IF person.women
                           THEN IF person.young THEN {"I", "J", "R", "T"} ELSE {"R", "T"}
                           ELSE {"B", "C", "D"} \cup (IF person.young THEN {"I", "J"} ELSE {})],
           {"justification"}, [currentCategory |-> person.current])

HigherSecurityReview ==
    [ behaviour |-> Required,
      steps |-> Required,
      transfer |-> Required,
      transferText |-> RequiredIf("transfer", "No"),
      conditions |-> Required ]
HigherSecurityReviewScreen ==
    Screen([transfer |-> YesNo], {"behaviour", "steps", "transferText", "conditions"}, NoHidden)

MiniHigherSecurityReview == [conditions |-> Required]
MiniHigherSecurityReviewScreen == Screen(NoHidden, {"conditions"}, NoHidden)

Pages ==
    {"prisonerBackground", "oasysInput", "bcstInput", "securityInput", "securityBack",
     "riskAssessment", "decision", "higherSecurityReview", "miniHigherSecurityReview"}
Asking == Pages \cup {"previousRiskAssessments"}

FieldsOf(page) ==
    CASE page = "prisonerBackground" -> PrisonerBackground
      [] page = "previousRiskAssessments" -> PreviousRiskAssessments
      [] page = "oasysInput"     -> OasysInput
      [] page = "bcstInput"      -> BcstInput
      [] page = "securityInput"  -> SecurityInput
      [] page = "securityBack"   -> SecurityBack
      [] page = "riskAssessment" -> RiskAssessment
      [] page = "decision"       -> Decision
      [] page = "higherSecurityReview" -> HigherSecurityReview
      [] page = "miniHigherSecurityReview" -> MiniHigherSecurityReview
ScreenOf(page) ==
    CASE page = "prisonerBackground" -> PrisonerBackgroundScreen
      [] page = "previousRiskAssessments" -> PreviousRiskAssessmentsScreen
      [] page = "oasysInput"     -> OasysScreen
      [] page = "bcstInput"      -> BcstScreen
      [] page = "securityInput"  -> SecurityInputScreen
      [] page = "securityBack"   -> SecurityBackScreen
      [] page = "riskAssessment" -> RiskAssessmentScreen
      [] page = "decision"       -> DecisionScreen
      [] page = "higherSecurityReview" -> HigherSecurityReviewScreen
      [] page = "miniHigherSecurityReview" -> MiniHigherSecurityReviewScreen
-----------------------------------------------------------------------------
(* What the server works out. *)

Saved(page, field) == page \in DOMAIN doc /\ Given(doc[page], field)

Referred == {"SECURITY_MANUAL", "SECURITY_AUTO", "SECURITY_FLAGGED"}
BackFromSecurity == {"SECURITY_BACK", "AWAITING_APPROVAL"}

\* tasklistRecat.html: prevRiskAssessmentsCompleted.
PrevRiskAssessmentsCompleted ==
    Saved("oasysInput", "oasysRelevantInfo") \/ Saved("bcstInput", "bcstRelevantInfo")

\* tasklistRecat.html: allSectionsCompleted.
AllSectionsCompleted(st) ==
    /\ message # "unread"
    /\ Saved("prisonerBackground", "offenceDetails")
    /\ PrevRiskAssessmentsCompleted
    /\ Saved("securityInput", "securityNoteNeeded") \/ "securityBack" \in DOMAIN doc
    /\ st \notin Referred
    /\ Saved("decision", "category")
    /\ Saved("riskAssessment", "otherRelevant")

\* The links of the tasklist.
TasklistLinks(st) ==
    {"prisonerBackground", "previousRiskAssessments", "riskAssessment", "decision"}
    \cup (IF st \in Referred THEN {}
          ELSE IF st \in BackFromSecurity THEN {"securityBack"} ELSE {"securityInput"})
    \cup (IF message # "none" THEN {"supervisorMessage"} ELSE {})
    \cup (IF AllSectionsCompleted(st) THEN {"review"} ELSE {})

HigherReviews == {"higherSecurityReview", "miniHigherSecurityReview"} \cap DOMAIN doc

\* The "Change" links of the review page.
ReviewLinks ==
    {"prisonerBackground", "previousRiskAssessments", "riskAssessment", "decision"}
    \cup {IF Saved("oasysInput", "oasysRelevantInfo") THEN "oasysInput" ELSE "bcstInput"}
    \cup (IF reviews THEN {} ELSE {"securityInput"})
    \cup (IF HigherReviews = {} THEN {}
          ELSE IF Saved("higherSecurityReview", "behaviour") THEN {"higherSecurityReview"}
          ELSE {"miniHigherSecurityReview"})

\* choosingHigherCategory.
Higher(current, new) ==
    <<current, new>> \in
        { <<"D", "B">>, <<"D", "C">>, <<"D", "I">>, <<"C", "B">>,
          <<"J", "I">>, <<"J", "C">>, <<"J", "B">>, <<"J", "D">>, <<"J", "T">>, <<"J", "R">>,
          <<"T", "R">>, <<"T", "I">> }
-----------------------------------------------------------------------------
NoPages == [p \in {} |-> NoHidden]
NoScreen == Screen(NoHidden, {}, NoHidden)
Tab(page, links, screen) == [page |-> page, links |-> links, screen |-> screen]
Elsewhere(links) == Tab("elsewhere", links, NoScreen)

Init ==
    /\ person \in People
    /\ doc = NoPages
    /\ status = Undefined
    /\ message = "none"
    /\ \E open \in SUBSET Tabs : tabs = [t \in open |-> Elsewhere({"tasklist"})]
    /\ said = "none"
    /\ reviews = FALSE
    /\ submitted = FALSE
    /\ returns = 0

Show(t, tab) == tabs' = [tabs EXCEPT ![t] = tab]
Rendered(page) == Tab(page, {"tasklist"}, ScreenOf(page))

\* GET /tasklistRecat: the first one makes the record, and refers it to
\* security where there is organised crime.
OpenTasklist(t) ==
    /\ "tasklist" \in tabs[t].links
    /\ status' = IF status # Undefined THEN status
                 ELSE IF person.crime THEN "SECURITY_AUTO" ELSE "STARTED"
    /\ Show(t, Tab("tasklist", TasklistLinks(status'), NoScreen))
    /\ UNCHANGED <<person, doc, message, said, reviews, submitted, returns>>

\* GET of the security page, when security has it already.
WithSecurity(page) == page = "securityInput" /\ status \in Referred

\* GET of a page of /form/recat.
OpenPage(t, page) ==
    /\ page \in tabs[t].links
    /\ IF WithSecurity(page)
         THEN Show(t, Elsewhere({"tasklist"}))
         ELSE Show(t, Rendered(page))
    /\ UNCHANGED <<person, doc, status, message, said, reviews, submitted, returns>>

Accepted(page, body) == Valid(FieldsOf(page), Kept(FieldsOf(page), body))

\* Categories that ask for an open conditions assessment.
Opens(input) == \E cat \in {"D", "J", "T"} : Is(input, "category", cat)

\* What a user of the model enters: every body, or the shortest way on.
Entered(page, screen) ==
    LET shortest == {b \in Bodies(screen) :
                        LET input == Cleared(RecatConditions, b)
                        IN  /\ Accepted(page, input) /\ ~Opens(input)
                            /\ \A f \in DOMAIN screen.choices : input[f] \in YesNo => input[f] = "No"}
    IN  IF page \in Varied THEN Bodies(screen) ELSE {b \in shortest : b = CHOOSE c \in shortest : TRUE}

\* formService.update, with removeFieldsThatAreNoLongerRelevant.
Updated(page, answers) ==
    Stored(Without(doc, (IF page = "oasysInput" THEN {"bcstInput"} ELSE {})
                        \cup (IF page = "bcstInput" THEN {"oasysInput"} ELSE {})),
           page, answers)

\* POST /decision: the document that is left, and the page that follows.
AfterDecision(d, input) ==
    IF input["currentCategory"] = "I" /\ Is(input, "category", "B")
      THEN <<d, "miniHigherSecurityReview">>
    ELSE IF Higher(input["currentCategory"], input["category"])
      THEN <<d, "higherSecurityReview">>
    ELSE <<Without(d, {"higherSecurityReview", "miniHigherSecurityReview"}), "tasklist">>

\* POST of a page: the document that is left, and the page that follows.
After(page, input) ==
    LET d == Updated(page, Kept(FieldsOf(page), input))
    IN  CASE page = "decision" -> AfterDecision(d, input)
          [] page = "higherSecurityReview" -> <<Without(d, {"miniHigherSecurityReview"}), "tasklist">>
          [] page = "miniHigherSecurityReview" -> <<Without(d, {"higherSecurityReview"}), "tasklist">>
          [] OTHER -> <<d, "tasklist">>

\* A slip: security is asked only where there is a note for it.
MutantAsks(page, input) == page = "securityInput" /\ Is(input, "securityNoteNeeded", "Yes")

\* referToSecurityIfRequested.
Asks(page, input) == page = "securityInput" /\ Is(input, "securityInputNeeded", "Yes")

\* POST of the security page, when it cannot be referred: what was saved in the
\* same transaction is rolled back.
CannotRefer(page, input) == Asks(page, input) /\ Rejected(status, "SECURITY_MANUAL")

\* POST of a page of /form/recat: shown again when it is not accepted.
PostPage(t) ==
    /\ tabs[t].page \in Pages
    /\ \E body \in Entered(tabs[t].page, tabs[t].screen) :
        LET page == tabs[t].page
            input == Cleared(RecatConditions, body)
        IN  /\ ~Opens(input)
            /\ IF ~Accepted(page, input)
                 THEN Show(t, Rendered(page)) /\ UNCHANGED <<doc, status>>
               ELSE IF CannotRefer(page, input)
                 THEN Show(t, Elsewhere({"tasklist"})) /\ UNCHANGED <<doc, status>>
               ELSE /\ doc' = After(page, input)[1]
                    /\ Show(t, Elsewhere({After(page, input)[2]}))
                    /\ status' = IF Asks(page, input) THEN "SECURITY_MANUAL" ELSE status
    /\ UNCHANGED <<person, message, said, reviews, submitted, returns>>

\* POST /previousRiskAssessments: nothing of it is saved.
PostPreviousRiskAssessments(t) ==
    /\ tabs[t].page = "previousRiskAssessments"
    /\ \E answer \in {"yes", "no", "notRequired"} :
        /\ said' = answer
        /\ Show(t, CASE answer = "yes"         -> Elsewhere({"oasysInput"})
                     [] answer = "notRequired" -> Elsewhere({"bcstInput"})
                     [] answer = "no" -> Elsewhere({"tasklist", "previousRiskAssessments"}))
    /\ UNCHANGED <<person, doc, status, message, reviews, submitted, returns>>

\* GET /form/recat/review.
OpenReview(t) ==
    /\ "review" \in tabs[t].links
    /\ Show(t, Tab("review", ReviewLinks \cup {"tasklist"}, NoScreen))
    /\ UNCHANGED <<person, doc, status, message, said, reviews, submitted, returns>>

\* POST /form/recat/review.
PostReview(t) ==
    /\ tabs[t].page = "review"
    /\ IF Saved("decision", "category") /\ Allowed(status, "AWAITING_APPROVAL")
         THEN /\ status' = "AWAITING_APPROVAL"
              /\ submitted' = TRUE
              /\ Show(t, Elsewhere({}))
         ELSE /\ UNCHANGED <<status, submitted>>
              /\ Show(t, Elsewhere(IF status = "AWAITING_APPROVAL" THEN {} ELSE {"tasklist"}))
    /\ UNCHANGED <<person, doc, message, said, reviews, returns>>

\* POST /form/supervisor/supervisorMessage.
ReadMessage(t) ==
    /\ "supervisorMessage" \in tabs[t].links
    /\ message' = "read"
    /\ Show(t, Elsewhere({"tasklist"}))
    /\ UNCHANGED <<person, doc, status, said, reviews, submitted, returns>>

\* Security sends back what was referred.
SecurityReview ==
    /\ Allowed(status, "SECURITY_BACK")
    /\ status' = "SECURITY_BACK"
    /\ reviews' = TRUE
    /\ UNCHANGED <<person, doc, message, tabs, said, submitted, returns>>

\* The supervisor sends it back with a message; the home page of the
\* categoriser then has a link to its tasklist again.
SendBack ==
    /\ status = "AWAITING_APPROVAL" /\ returns < MaxReturns
    /\ status' = "SUPERVISOR_BACK"
    /\ message' = "unread"
    /\ submitted' = FALSE
    /\ returns' = returns + 1
    /\ tabs' = [t \in DOMAIN tabs |-> IF tabs[t].links = {} THEN Elsewhere({"tasklist"}) ELSE tabs[t]]
    /\ UNCHANGED <<person, doc, said, reviews>>

Next ==
    \/ \E t \in DOMAIN tabs :
        \/ OpenTasklist(t) \/ (\E page \in Asking : OpenPage(t, page))
        \/ PostPage(t) \/ PostPreviousRiskAssessments(t)
        \/ OpenReview(t) \/ PostReview(t) \/ ReadMessage(t)
    \/ SecurityReview \/ SendBack

Spec == Init /\ [][Next]_vars
-----------------------------------------------------------------------------
(* Properties *)

TypeOK ==
    /\ person \in People
    /\ DOMAIN doc \subseteq Pages
    /\ \A p \in DOMAIN doc : DOMAIN doc[p] \subseteq DOMAIN FieldsOf(p)
    /\ status \in InProgress \cup {Undefined}
    /\ message \in {"none", "unread", "read"}
    /\ said \in {"none", "yes", "no", "notRequired"}
    /\ reviews \in BOOLEAN /\ submitted \in BOOLEAN /\ returns \in 0 .. MaxReturns

Complete(page) == page \in DOMAIN doc /\ Valid(FieldsOf(page), doc[page])

\* What is submitted is whole: the pages that every recategorisation has are
\* complete and there is one assessment of the previous risk.
RecatWhole ==
    submitted =>
        /\ \A page \in {"prisonerBackground", "riskAssessment", "decision"} : Complete(page)
        /\ Complete("oasysInput") # Complete("bcstInput")

\* No recategorisation is submitted that security has not reviewed.
SecurityReviewed == submitted => reviews

\* A higher security review in the form belongs to a decision that asks for
\* one.
NoNeedlessReview ==
    "higherSecurityReview" \in DOMAIN doc =>
        Complete("decision") /\ Higher(person.current, doc["decision"]["category"])

\* Nothing stays in the form that its page has hidden from the user, but for
\* what clearConditionalFields forgets: the text about other relevant
\* information stays under an answer No (recat.js, riskAssessment.html).
RecatHidden ==
    \A p \in DOMAIN doc : \A f \in DOMAIN doc[p] :
        /\ FieldsOf(p)[f][1] = "if"
        /\ <<p, f>> # <<"riskAssessment", "otherRelevantText">>
        => Is(doc[p], FieldsOf(p)[f][2], FieldsOf(p)[f][3])

\* A higher category is submitted with its higher security review.
HigherReviewed ==
    (submitted /\ Higher(person.current, doc["decision"]["category"])) => HigherReviews # {}

\* What is submitted does not say that there is a recent OASys assessment
\* after the user has answered that there is none.
OasysAnswered == (submitted /\ said = "no") => "oasysInput" \notin DOMAIN doc
=============================================================================
