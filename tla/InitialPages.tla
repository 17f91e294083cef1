---------------------------- MODULE InitialPages ----------------------------
(***************************************************************************)
(* The pages of an initial categorisation, from the tasklist to the        *)
(* submission, as one categoriser walks through them in one or more tabs   *)
(* of a browser while what other services know of the prisoner changes.    *)
(*                                                                         *)
(* A tab holds what the server rendered last, which may be out of date     *)
(* when it is used: the links of the tasklist, the inputs of a page, the   *)
(* category that was worked out.  The next review date and the open        *)
(* conditions have modules of their own and count as done here.            *)
(***************************************************************************)
EXTENDS CategorisationStatus, FormPages

\* An escape alert, a life sentence, another reason for category B (an
\* earlier category A, violence, extremism), and organised crime.
Facts == {"alert", "life", "risk", "crime"}

CONSTANTS
    Tabs,        \* the tabs of the categoriser
    Changes,     \* what may change meanwhile: a transfer, or one of the facts
    Varied,      \* the pages that are filled in in every way, the rest in one
    MaxReturns   \* how often the supervisor sends it back, a bound of the model

VARIABLES
    person,      \* [women, young]: the estate and the age group of the prisoner
    live,        \* the facts that the other services know
    profile,     \* the facts in risk_profile
    doc,         \* the pages that have been saved
    status,
    message,     \* the message of the supervisor: "none", "unread" or "read"
    tabs,        \* what each tab shows
    asked,       \* whether the escape page that was saved asked about category B
    submitted,   \* what was submitted, or NotYet
    returns      \* how often it was sent back

vars == <<person, live, profile, doc, status, message, tabs, asked, submitted, returns>>
-----------------------------------------------------------------------------
(* The fields of each page, and what it shows. *)

OffendingHistory ==
    [ previousConvictions |-> Required,
      previousConvictionsText |-> RequiredIf("previousConvictions", "Yes") ]
OffendingHistoryScreen ==
    Screen([previousConvictions |-> YesNo], {"previousConvictionsText"}, NoHidden)

FurtherCharges ==
    [ furtherCharges |-> Required,
      furtherChargesText |-> RequiredIf("furtherCharges", "Yes"),
      furtherChargesCatB |-> RequiredIf("furtherCharges", "Yes") ]
FurtherChargesScreen ==
    Screen([furtherCharges |-> YesNo, furtherChargesCatB |-> YesNo],
           {"furtherChargesText"}, NoHidden)

SecurityInput ==
    [ securityInputNeeded |-> Required,
      securityInputNeededText |-> RequiredIf("securityInputNeeded", "Yes") ]
SecurityInputScreen ==
    Screen([securityInputNeeded |-> YesNo], {"securityInputNeededText"}, NoHidden)

SecurityBack == [catB |-> Required]
SecurityBackScreen(women) ==
    Screen(IF women THEN NoHidden ELSE [catB |-> YesNo], {}, NoHidden)

ViolenceRating ==
    [ highRiskOfViolence |-> Required,
      highRiskOfViolenceText |-> RequiredIf("highRiskOfViolence", "Yes"),
      seriousThreat |-> Required,
      seriousThreatText |-> RequiredIf("seriousThreat", "Yes") ]
ViolenceScreen ==
    Screen([highRiskOfViolence |-> YesNo, seriousThreat |-> YesNo],
           {"highRiskOfViolenceText", "seriousThreatText"}, NoHidden)

ExtremismRating ==
    [ previousTerrorismOffences |-> Required,
      previousTerrorismOffencesText |-> RequiredIf("previousTerrorismOffences", "Yes") ]
ExtremismScreen ==
    Screen([previousTerrorismOffences |-> YesNo], {"previousTerrorismOffencesText"}, NoHidden)

EscapeRating ==
    [ escapeCatB |-> Required,
      escapeCatBText |-> RequiredIf("escapeCatB", "Yes"),
      escapeOtherEvidence |-> Required,
      escapeOtherEvidenceText |-> RequiredIf("escapeOtherEvidence", "Yes") ]

\* Whether this should mean category B is asked of those with an alert, in
\* the men's estate; for the others the page answers.
EscapeScreen(women, alert) ==
    IF alert /\ ~women
      THEN Screen([escapeCatB |-> YesNo, escapeOtherEvidence |-> YesNo],
                  {"escapeCatBText", "escapeOtherEvidenceText"}, NoHidden)
      ELSE Screen([escapeOtherEvidence |-> YesNo], {"escapeOtherEvidenceText"},
                  [escapeCatB |-> "No"])

Decision == [category |-> Required, justification |-> Required]
DecisionScreen(young) ==
    Screen([category |-> IF young THEN {"I", "J", "R"} ELSE {"R", "T"}],
           {"justification"}, NoHidden)

\* The reason of another category is asked for where `justification' is
\* missing, and that is refused already.
ProvisionalCategory ==
    [ categoryAppropriate |-> Required,
      overriddenCategory |-> RequiredIf("categoryAppropriate", "No"),
      overriddenCategoryText |-> Optional,
      suggestedCategory |-> Optional,
      otherInformationText |-> Optional,
      justification |-> RequiredWithout("otherInformationText") ]

\* The page with the category `cat' worked out; the text boxes of the forms
\* from before `justification' are for those alone.
ProvisionalScreen(cat) ==
    IF cat = "I"
      THEN Screen([categoryAppropriate |-> YesNo], {"justification"},
                  [suggestedCategory |-> cat, overriddenCategory |-> "J"])
      ELSE Screen([categoryAppropriate |-> YesNo, overriddenCategory |-> {"B", "C", "D"} \ {cat}],
                  {"justification"}, [suggestedCategory |-> cat])

Pages == {"offendingHistory", "furtherCharges", "securityInput", "securityBack",
          "violenceRating", "extremismRating", "escapeRating", "decision"}
FieldsOf(page) ==
    CASE page = "offendingHistory" -> OffendingHistory
      [] page = "furtherCharges"   -> FurtherCharges
      [] page = "securityInput"    -> SecurityInput
      [] page = "securityBack"     -> SecurityBack
      [] page = "violenceRating"   -> ViolenceRating
      [] page = "extremismRating"  -> ExtremismRating
      [] page = "escapeRating"     -> EscapeRating
      [] page = "decision"         -> Decision
      [] page = "provisionalCategory" -> ProvisionalCategory
ScreenOf(page, women, young, alert) ==
    CASE page = "offendingHistory" -> OffendingHistoryScreen
      [] page = "furtherCharges"   -> FurtherChargesScreen
      [] page = "securityInput"    -> SecurityInputScreen
      [] page = "securityBack"     -> SecurityBackScreen(women)
      [] page = "violenceRating"   -> ViolenceScreen
      [] page = "extremismRating"  -> ExtremismScreen
      [] page = "escapeRating"     -> EscapeScreen(women, alert)
      [] page = "decision"         -> DecisionScreen(young)

AllScreens ==
    {ScreenOf(page, w, y, a) : page \in Pages, w \in BOOLEAN, y \in BOOLEAN, a \in BOOLEAN}
    \cup {ProvisionalScreen(cat) : cat \in {"I", "B", "C"}}
BodiesOf == [screen \in AllScreens |-> Bodies(screen)]
-----------------------------------------------------------------------------
(* What the server works out. *)

Saved(page, field) == page \in DOMAIN doc /\ Given(doc[page], field)
Says(page, field, answer) == page \in DOMAIN doc /\ Is(doc[page], field, answer)

Referred == {"SECURITY_MANUAL", "SECURITY_AUTO", "SECURITY_FLAGGED"}
BackFromSecurity == {"SECURITY_BACK", "AWAITING_APPROVAL"}

\* A slip: a referral counts as done once security has seen it.
MutantSecurityInputCompleted(women) ==
    \/ "securityInput" \in DOMAIN doc
    \/ women /\ "securityBack" \in DOMAIN doc
    \/ Saved("securityBack", "catB")

\* tasklist.html: securityInputCompleted.
SecurityInputCompleted(women) ==
    \/ Says("securityInput", "securityInputNeeded", "No")
    \/ women /\ "securityBack" \in DOMAIN doc
    \/ Saved("securityBack", "catB")

\* tasklist.html: allSectionsCompleted.
AllSectionsCompleted(women, st) ==
    /\ message # "unread"
    /\ Saved("offendingHistory", "previousConvictions")
    /\ women \/ Saved("furtherCharges", "furtherCharges")
    /\ SecurityInputCompleted(women) /\ st \notin Referred
    /\ Saved("violenceRating", "highRiskOfViolence") /\ Saved("violenceRating", "seriousThreat")
    /\ Saved("escapeRating", "escapeOtherEvidence")
    /\ Saved("extremismRating", "previousTerrorismOffences")
    /\ ~women \/ Saved("decision", "category")

CommonPages == {"offendingHistory", "violenceRating", "escapeRating", "extremismRating"}
EstatePage(women) == IF women THEN "decision" ELSE "furtherCharges"

\* The links of the tasklist.
TasklistLinks(women, st) ==
    CommonPages \cup {EstatePage(women)}
    \cup (IF st \in Referred THEN {}
          ELSE IF st \in BackFromSecurity THEN {"securityBack"} ELSE {"securityInput"})
    \cup (IF message # "none" THEN {"supervisorMessage"} ELSE {})
    \cup (IF AllSectionsCompleted(women, st) THEN {"review"} ELSE {})

WasReferred(women) ==
    \/ "crime" \in profile \/ Saved("securityBack", "catB")
    \/ women /\ "securityBack" \in DOMAIN doc

\* The "Change" links of the review page.
ReviewLinks(women) ==
    CommonPages \cup {EstatePage(women)}
    \cup (IF ~WasReferred(women) THEN {"securityInput"}
          ELSE IF women THEN {} ELSE {"securityBack"})

\* computeSuggestedCat.
Suggested(facts, young) ==
    IF young THEN "I"
    ELSE IF \/ facts \cap {"risk", "life"} # {}
            \/ Says("securityBack", "catB", "Yes")
            \/ Says("escapeRating", "escapeCatB", "Yes")
            \/ Says("extremismRating", "previousTerrorismOffences", "Yes")
            \/ Says("furtherCharges", "furtherChargesCatB", "Yes")
         THEN "B" ELSE "C"
-----------------------------------------------------------------------------
NoScreen == Screen(NoHidden, {}, NoHidden)
NotYet == [women |-> FALSE, cat |-> "none", seen |-> {}]
NoPages == [p \in {} |-> NoHidden]

Tab(page, links, screen, cat, seen) ==
    [page |-> page, links |-> links, screen |-> screen, cat |-> cat, seen |-> seen]
Elsewhere(links) == Tab("elsewhere", links, NoScreen, "none", {})

Init ==
    /\ person \in [women : BOOLEAN, young : BOOLEAN]
    /\ live \in SUBSET Facts
    /\ profile = {}
    /\ doc = NoPages
    /\ status = Undefined
    /\ message = "none"
    /\ \E open \in SUBSET Tabs : tabs = [t \in open |-> Elsewhere({"tasklist"})]
    /\ asked = FALSE
    /\ submitted = NotYet
    /\ returns = 0

Show(t, tab) == tabs' = [tabs EXCEPT ![t] = tab]
OnTasklist(t) == Show(t, Elsewhere({"tasklist"}))
OnContinue(t) ==
    Show(t, Tab("continue", {"provisionalCategory"}, NoScreen, "none", tabs[t].seen))
Save(page, answers) == doc' = Stored(doc, page, answers)

\* GET /tasklist: the first one makes the record, and refers it to security
\* where there is organised crime.
OpenTasklist(t) ==
    /\ "tasklist" \in tabs[t].links
    /\ LET first == status = Undefined
           now == IF ~first THEN status
                  ELSE IF "crime" \in live THEN "SECURITY_AUTO" ELSE "STARTED"
       IN  /\ status' = now
           /\ profile' = IF first THEN live \cap {"crime"} ELSE profile
           /\ Show(t, Tab("tasklist", TasklistLinks(person.women, now), NoScreen, "none", {}))
    /\ UNCHANGED <<person, live, doc, message, asked, submitted, returns>>

Rendered(page) ==
    Tab(page, {"tasklist"},
        ScreenOf(page, person.women, person.young, "alert" \in live), "none", {})

\* GET of a page of /form/ratings.
OpenPage(t, page) ==
    /\ page \in tabs[t].links
    /\ IF page = "securityInput" /\ status \in Referred
         THEN OnTasklist(t)
         ELSE Show(t, Rendered(page))
    /\ UNCHANGED <<person, live, profile, doc, status, message, asked, submitted, returns>>

\* A slip: women have to answer what their page does not ask.
MutantAccepted(page, body) == Valid(FieldsOf(page), Kept(FieldsOf(page), body))

\* isValid, where the handler asks for it.
Accepted(page, body) ==
    \/ page = "securityBack" /\ person.women
    \/ Valid(FieldsOf(page), Kept(FieldsOf(page), body))

\* Categories that ask for an open conditions assessment; what follows from
\* them is not followed here.
Opens(input) ==
    \E cat \in {"D", "J", "T"} : Is(input, "category", cat) \/ Is(input, "overriddenCategory", cat)

\* What a user of the model enters: every body, or the shortest way on.
Entered(page, screen) ==
    LET plain == IF page = "provisionalCategory" THEN "Yes" ELSE "No"
        shortest == {b \in BodiesOf[screen] :
                        LET input == Cleared(InitialConditions, b)
                        IN  /\ Accepted(page, input) /\ ~Opens(input)
                            /\ \A f \in DOMAIN input : input[f] \in YesNo => input[f] = plain}
    IN  IF page \in Varied \/ shortest = {} THEN BodiesOf[screen]
        ELSE {b \in shortest : b = CHOOSE c \in shortest : TRUE}

\* referToSecurityIfRequested.
Asks(page, answers) == page = "securityInput" /\ Is(answers, "securityInputNeeded", "Yes")

\* POST of a page of /form/ratings: shown again when it is not accepted, and
\* nothing is saved when it cannot be referred.
PostPage(t) ==
    /\ tabs[t].page \in Pages
    /\ \E body \in Entered(tabs[t].page, tabs[t].screen) :
        LET page == tabs[t].page
            input == Cleared(InitialConditions, body)
            answers == Kept(FieldsOf(page), input)
            refused == Asks(page, answers) /\ Rejected(status, "SECURITY_MANUAL")
        IN  /\ ~Opens(input)
            /\ IF ~Accepted(page, input)
                 THEN Show(t, Rendered(page)) /\ UNCHANGED <<doc, status, asked>>
               ELSE IF refused
                 THEN OnTasklist(t) /\ UNCHANGED <<doc, status, asked>>
               ELSE /\ Save(page, answers)
                    /\ status' = IF Asks(page, answers) THEN "SECURITY_MANUAL" ELSE status
                    /\ asked' = IF page = "escapeRating"
                                   THEN "escapeCatB" \in DOMAIN tabs[t].screen.choices
                                   ELSE asked
                    /\ OnTasklist(t)
    /\ UNCHANGED <<person, live, profile, message, submitted, returns>>

\* A slip: what was stored before wins.
MutantMerged(stored) ==
    stored \cup (IF stored \cap {"alert", "risk"} = {} THEN live \cap {"alert", "risk", "life"} ELSE {})

\* mergeRiskProfileData with what the review page has read: every fact is
\* replaced, but a life sentence is only ever added.
Merged(stored) == (stored \cap {"crime", "life"}) \cup (live \cap {"alert", "risk", "life"})

\* GET /form/categoriser/review.
OpenReview(t) ==
    /\ "review" \in tabs[t].links
    /\ profile' = Merged(profile)
    /\ Show(t, Tab("review", ReviewLinks(person.women) \cup {"tasklist"}, NoScreen, "none", live))
    /\ UNCHANGED <<person, live, doc, status, message, asked, submitted, returns>>

\* categoriserDecisionWithFormResponse: a second submission of the same
\* record writes nothing, one that the status forbids fails as a whole.
Submit(t, answers, women, cat) ==
    /\ IF Allowed(status, "AWAITING_APPROVAL")
         THEN /\ Save("provisionalCategory", answers)
              /\ status' = "AWAITING_APPROVAL"
              /\ submitted' = [women |-> women, cat |-> cat, seen |-> tabs[t].seen]
         ELSE UNCHANGED <<doc, status, submitted>>
    /\ Show(t, Elsewhere(IF Rejected(status, "AWAITING_APPROVAL") THEN {"tasklist"} ELSE {}))

\* POST /form/categoriser/review: in the women's estate this submits.
PostReview(t) ==
    /\ tabs[t].page = "review"
    /\ IF ~person.women
         THEN /\ OnContinue(t)
              /\ UNCHANGED <<doc, status, submitted>>
       ELSE IF Saved("decision", "category")
         THEN LET cat == doc["decision"]["category"]
              IN  Submit(t, [suggestedCategory |-> cat, categoryAppropriate |-> "Yes"], TRUE, cat)
       ELSE OnTasklist(t) /\ UNCHANGED <<doc, status, submitted>>
    /\ UNCHANGED <<person, live, profile, message, asked, returns>>

\* GET /form/categoriser/provisionalCategory.
OpenProvisional(t) ==
    /\ "provisionalCategory" \in tabs[t].links
    /\ LET cat == Suggested(profile, person.young)
       IN  Show(t, Tab("provisionalCategory", {"tasklist"}, ProvisionalScreen(cat), cat, tabs[t].seen))
    /\ UNCHANGED <<person, live, profile, doc, status, message, asked, submitted, returns>>

\* POST /form/categoriser/provisionalCategory, for a category that asks for
\* no open conditions.
PostProvisional(t) ==
    /\ tabs[t].page = "provisionalCategory"
    /\ \E body \in Entered("provisionalCategory", tabs[t].screen) :
        LET input == Cleared(InitialConditions, body)
            answers == Kept(ProvisionalCategory, input)
        IN  /\ ~Opens(input)
            /\ IF Accepted("provisionalCategory", input)
                 THEN Submit(t, answers, FALSE, input["suggestedCategory"])
                 ELSE /\ OnContinue(t)
                      /\ UNCHANGED <<doc, status, submitted>>
    /\ UNCHANGED <<person, live, profile, message, asked, returns>>

\* POST /form/supervisor/supervisorMessage.
ReadMessage(t) ==
    /\ "supervisorMessage" \in tabs[t].links
    /\ message' = "read"
    /\ OnTasklist(t)
    /\ UNCHANGED <<person, live, profile, doc, status, asked, submitted, returns>>

\* Security sends back what was referred.
SecurityReview ==
    /\ Allowed(status, "SECURITY_BACK")
    /\ status' = "SECURITY_BACK"
    /\ UNCHANGED <<person, live, profile, doc, message, tabs, asked, submitted, returns>>

\* The supervisor sends it back with a message; the home page of the
\* categoriser then has a link to its tasklist again.
SendBack ==
    /\ status = "AWAITING_APPROVAL" /\ returns < MaxReturns
    /\ status' = "SUPERVISOR_BACK"
    /\ message' = "unread"
    /\ submitted' = NotYet
    /\ returns' = returns + 1
    /\ tabs' = [t \in DOMAIN tabs |-> IF tabs[t].links = {} THEN Elsewhere({"tasklist"}) ELSE tabs[t]]
    /\ UNCHANGED <<person, live, profile, doc, asked>>

Change(what) ==
    /\ what \in Changes
    /\ IF what = "transfer"
         THEN person' = [person EXCEPT !.women = ~@] /\ UNCHANGED live
         ELSE /\ live' = IF what \in live THEN live \ {what} ELSE live \cup {what}
              /\ UNCHANGED person
    /\ UNCHANGED <<profile, doc, status, message, tabs, asked, submitted, returns>>

Next ==
    \/ \E t \in DOMAIN tabs :
        \/ OpenTasklist(t) \/ (\E page \in Pages : OpenPage(t, page)) \/ PostPage(t)
        \/ OpenReview(t) \/ PostReview(t) \/ OpenProvisional(t) \/ PostProvisional(t)
        \/ ReadMessage(t)
    \/ SecurityReview \/ SendBack
    \/ \E what \in Facts \cup {"transfer"} : Change(what)

Spec == Init /\ [][Next]_vars
-----------------------------------------------------------------------------
(* Properties *)

TypeOK ==
    /\ person \in [women : BOOLEAN, young : BOOLEAN]
    /\ live \subseteq Facts /\ profile \subseteq Facts
    /\ DOMAIN doc \subseteq Pages \cup {"provisionalCategory"}
    /\ \A p \in DOMAIN doc : DOMAIN doc[p] \subseteq DOMAIN FieldsOf(p)
    /\ status \in InProgress \cup {Undefined}
    /\ message \in {"none", "unread", "read"}
    /\ asked \in BOOLEAN /\ returns \in 0 .. MaxReturns

Complete(page) == page \in DOMAIN doc /\ Valid(FieldsOf(page), doc[page])

\* Every page that the estate needs is there and complete, and what was
\* asked of security has been answered.
Whole(women) ==
    /\ \A page \in CommonPages \cup {EstatePage(women)} : Complete(page)
    /\ \/ Complete("securityInput") /\ ~Says("securityInput", "securityInputNeeded", "Yes")
       \/ IF women THEN "securityBack" \in DOMAIN doc ELSE Complete("securityBack")

\* What is submitted is whole: the tasklist looks at one field of each page,
\* and the pages after it at none.
SubmittedWhole == submitted # NotYet => Whole(submitted.women)

\* Nothing stays in the form that its page has hidden from the user.
HiddenDropped ==
    \A p \in DOMAIN doc : \A f \in DOMAIN doc[p] :
        FieldsOf(p)[f][1] = "if" => Is(doc[p], FieldsOf(p)[f][2], FieldsOf(p)[f][3])

\* Every page can be answered by the inputs that it shows, in either estate
\* and with or without an alert.
Answerable ==
    \A t \in DOMAIN tabs : tabs[t].page \in Pages =>
        \E body \in BodiesOf[tabs[t].screen] :
            Accepted(tabs[t].page, Cleared(InitialConditions, body))

\* The category that is submitted for a man as the suggested one is the one
\* that follows from the answers in the form and from the facts that the
\* review page showed.
SuggestionFollows ==
    (submitted # NotYet /\ ~submitted.women) =>
        submitted.cat = Suggested(submitted.seen, person.young)

\* An answer that the category follows from was given by the user: where the
\* review page showed an escape alert, category C is not offered to a user
\* who was not asked what the alert means.
AnswersAreTheirs ==
    \A t \in DOMAIN tabs :
        (tabs[t].page = "provisionalCategory" /\ tabs[t].cat = "C" /\ "alert" \in tabs[t].seen)
            => asked
=============================================================================
