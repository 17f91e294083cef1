----------------------------- MODULE PagesProofs -----------------------------
(***************************************************************************)
(* Proofs about the pages of both kinds of categorisation, for any tabs,   *)
(* any way of filling them in and any number of returns.                   *)
(*                                                                         *)
(* RecatInv and InitialInv say of the stored document that each page of it *)
(* is whole (what a page accepts leaves no text behind that an answer has  *)
(* dropped), and of each tab what its screen and its links stand for: a    *)
(* link to the review page is as good as the form was when it was shown.   *)
(* In a recategorisation that cannot change, as its pages are only ever    *)
(* replaced; in a first one it can, and the tab has to be the only one.    *)
(***************************************************************************)
EXTENDS CategoriserPages, TLAPS
-----------------------------------------------------------------------------
(* The invariant of the recategorisations *)

\* Pages of the document: whole, and with nothing that was hidden, the risk
\* assessment apart.
RecatWholePage(p, answers) ==
    /\ p \in Recat!Pages
    /\ DOMAIN answers \subseteq DOMAIN Recat!FieldsOf(p)
    /\ Recat!Valid(Recat!FieldsOf(p), answers)
    /\ p # "riskAssessment" => \A f \in DOMAIN answers :
          Recat!FieldsOf(p)[f][1] = "if" =>
              Recat!Is(answers, Recat!FieldsOf(p)[f][2], Recat!FieldsOf(p)[f][3])

\* A document that can be submitted, and its review by security.
RecatReady(d, rev) ==
    /\ {"prisonerBackground", "riskAssessment", "decision"} \subseteq DOMAIN d
    /\ "oasysInput" \in DOMAIN d \/ "bcstInput" \in DOMAIN d
    /\ rev

\* The statuses of what security has not been asked about.
Unasked == {Recat!Undefined, "STARTED"}

\* A tab that leads to `page', or is there.
At(tab, page) == page \in tab.links \/ tab.page = page

\* What a tab offers, when the document is d, the status st.
RecatOffers(tab, d, st, rev) ==
    /\ At(tab, "review") => RecatReady(d, rev)
    /\ At(tab, "securityBack") => st \notin Unasked

\* The decision d is one that asks for a higher security review.
RecatHigher(d, who) ==
    "decision" \in DOMAIN d /\ Recat!Higher(who.current, d["decision"]["category"])

\* The screen of a page that asks, shown of `who'.
RecatShows(page, screen, who) ==
    /\ page = "oasysInput" => screen = Recat!OasysScreen
    /\ page = "bcstInput" => screen = Recat!BcstScreen
    /\ page = "securityInput" => screen = Recat!SecurityInputScreen
    /\ page = "higherSecurityReview" => screen = Recat!HigherSecurityReviewScreen
    /\ page = "decision" => /\ "currentCategory" \notin screen.texts \cup DOMAIN screen.choices
                            /\ screen.hidden = [currentCategory |-> who.current]

RecatTypes ==
    /\ person \in Recat!People
    /\ status \in Recat!InProgress \cup {Recat!Undefined}
    /\ message \in {"none", "unread", "read"}
    /\ said \in {"none", "yes", "no", "notRequired"}
    /\ reviews \in BOOLEAN /\ submitted \in BOOLEAN /\ returns \in 0 .. MaxReturns

RecatDoc ==
    /\ \A p \in DOMAIN doc : RecatWholePage(p, doc[p])
    /\ ~("oasysInput" \in DOMAIN doc /\ "bcstInput" \in DOMAIN doc)

RecatSecurity ==
    /\ status \notin Unasked \cup Recat!Referred => reviews
    /\ "securityInput" \in DOMAIN doc \/ "securityBack" \in DOMAIN doc => status \notin Unasked

RecatTabs ==
    \A t \in DOMAIN tabs : RecatOffers(tabs[t], doc, status, reviews)
RecatScreens ==
    \A t \in DOMAIN tabs : RecatShows(tabs[t].page, tabs[t].screen, person)

RecatReviews == OneTab =>
    /\ "higherSecurityReview" \in DOMAIN doc => RecatHigher(doc, person)
    /\ \A t \in DOMAIN tabs : At(tabs[t], "higherSecurityReview") => RecatHigher(doc, person)

RecatInv ==
    /\ RecatTypes /\ RecatDoc /\ RecatSecurity /\ RecatTabs /\ RecatScreens /\ RecatReviews
    /\ submitted => RecatReady(doc, reviews)
-----------------------------------------------------------------------------
\* What is kept of a body is some of it.
LEMMA RecatKept ==
    ASSUME NEW fields, NEW body
    PROVE  /\ \A f : f \in DOMAIN Recat!Kept(fields, body) <=> f \in DOMAIN body /\ f \in DOMAIN fields
           /\ \A f \in DOMAIN Recat!Kept(fields, body) : Recat!Kept(fields, body)[f] = body[f]
  BY DEF Recat!Kept, Recat!Keep, Recat!Restrict

LEMMA RecatCleared ==
    ASSUME NEW conditions, NEW body
    PROVE  /\ \A f : f \in DOMAIN Recat!Cleared(conditions, body) <=>
                 f \in DOMAIN body /\ f \notin Recat!Dropped(conditions, body)
           /\ \A f \in DOMAIN Recat!Cleared(conditions, body) :
                 Recat!Cleared(conditions, body)[f] = body[f]
  BY DEF Recat!Cleared, Recat!Keep, Recat!Restrict

LEMMA RecatStored ==
    ASSUME NEW d, NEW page, NEW answers
    PROVE  /\ \A p : p \in DOMAIN Recat!Stored(d, page, answers) <=> p \in DOMAIN d \/ p = page
           /\ Recat!Stored(d, page, answers)[page] = answers
           /\ \A p \in DOMAIN d : p # page => Recat!Stored(d, page, answers)[p] = d[p]
  BY DEF Recat!Stored

LEMMA RecatWithout ==
    ASSUME NEW d, NEW pages
    PROVE  /\ \A p : p \in DOMAIN Recat!Without(d, pages) <=> p \in DOMAIN d /\ p \notin pages
           /\ \A p \in DOMAIN Recat!Without(d, pages) : Recat!Without(d, pages)[p] = d[p]
  BY DEF Recat!Without, Recat!Restrict

LEMMA RecatBeside ==
    ASSUME NEW f, NEW g
    PROVE  /\ \A q : q \in DOMAIN Recat!Beside(f, g) <=> q \in DOMAIN f \/ q \in DOMAIN g
           /\ \A q \in DOMAIN f : Recat!Beside(f, g)[q] = f[q]
           /\ \A q \in DOMAIN g : q \notin DOMAIN f => Recat!Beside(f, g)[q] = g[q]
  BY DEF Recat!Beside

\* What a browser sends: to a question one of its choices, if anything; texts;
\* and what is hidden as it is.
LEMMA RecatBodies ==
    ASSUME NEW screen, NEW body \in Recat!Bodies(screen), NEW q, q # "_csrf"
    PROVE  /\ q \notin screen.texts \cup DOMAIN screen.hidden /\ q \in DOMAIN body =>
                 q \in DOMAIN screen.choices /\ body[q] \in screen.choices[q]
           /\ q \in DOMAIN screen.hidden /\ q \notin screen.texts \cup DOMAIN screen.choices =>
                 q \in DOMAIN body /\ body[q] = screen.hidden[q]
  <1> DEFINE token == [_csrf |-> "token"]
             H == Recat!Beside(screen.hidden, token)
  <1>1. PICK a \in Recat!Filled(screen.choices) : \E t \in [screen.texts -> Recat!Texts] :
            body = Recat!Beside(Recat!Beside(a, t), H)
    BY DEF Recat!Bodies
  <1>2. PICK t \in [screen.texts -> Recat!Texts] : body = Recat!Beside(Recat!Beside(a, t), H)
    BY <1>1
  <1>3. DOMAIN a \subseteq DOMAIN screen.choices /\ \A r \in DOMAIN a : a[r] \in screen.choices[r]
    BY DEF Recat!Filled
  <1>4. DOMAIN token = {"_csrf"}
    OBVIOUS
  <1>5. /\ \A r : r \in DOMAIN H <=> r \in DOMAIN screen.hidden \/ r = "_csrf"
        /\ \A r \in DOMAIN screen.hidden : H[r] = screen.hidden[r]
    BY <1>4, RecatBeside
  <1> DEFINE A == Recat!Beside(a, t)
  <1> HIDE DEF token, H
  <1>6. /\ \A r : r \in DOMAIN A <=> r \in DOMAIN a \/ r \in screen.texts
        /\ \A r \in DOMAIN a : A[r] = a[r]
    <2>1. DOMAIN t = screen.texts
      OBVIOUS
    <2>2. /\ \A r : r \in DOMAIN A <=> r \in DOMAIN a \/ r \in DOMAIN t
          /\ \A r \in DOMAIN a : A[r] = a[r]
      BY RecatBeside
    <2>3. QED
      BY <2>1, <2>2
  <1> DEFINE B == Recat!Beside(A, H)
  <1>b. body = B
    BY <1>2
  <1> HIDE DEF A
  <1>7. /\ \A r : r \in DOMAIN body <=> r \in DOMAIN A \/ r \in DOMAIN H
        /\ \A r \in DOMAIN A : body[r] = A[r]
        /\ \A r \in DOMAIN H : r \notin DOMAIN A => body[r] = H[r]
    <2>1. /\ \A r : r \in DOMAIN B <=> r \in DOMAIN A \/ r \in DOMAIN H
          /\ \A r \in DOMAIN A : B[r] = A[r]
          /\ \A r \in DOMAIN H : r \notin DOMAIN A => B[r] = H[r]
      BY RecatBeside
    <2> HIDE DEF B
    <2>2. QED
      BY <1>b, <1>5, <1>6, <2>1
  <1>8. QED
    BY <1>3, <1>5, <1>6, <1>7

LEMMA RecatEntered ==
    ASSUME NEW page, NEW screen
    PROVE  Recat!Entered(page, screen) \subseteq Recat!Bodies(screen)
  BY DEF Recat!Entered

LEMMA RecatDropped ==
    ASSUME NEW body
    PROVE  Recat!Dropped(Recat!RecatConditions, body) \subseteq
              {"securityInputNeededText", "transferText", "oasysInputText", "bcstInputText"}
  BY DEF Recat!Dropped, Recat!RecatConditions

\* What is kept of a body, in one.
RecatKeptOf(fields, body) ==
    Recat!Kept(fields, Recat!Cleared(Recat!RecatConditions, body))

LEMMA RecatKeptBody ==
    ASSUME NEW fields, NEW body
    PROVE  /\ \A f : f \in DOMAIN RecatKeptOf(fields, body) <=>
                 /\ f \in DOMAIN body /\ f \in DOMAIN fields
                 /\ f \notin Recat!Dropped(Recat!RecatConditions, body)
           /\ \A f \in DOMAIN RecatKeptOf(fields, body) : RecatKeptOf(fields, body)[f] = body[f]
  BY RecatKept, RecatCleared DEF RecatKeptOf

\* An answer drops the texts that it makes irrelevant.
LEMMA RecatDrops ==
    ASSUME NEW body, NEW q, NEW no, NEW text, Recat!Is(body, q, no),
           <<q, no, {text}>> \in Recat!RecatConditions
    PROVE  text \in Recat!Dropped(Recat!RecatConditions, body)
  <1> DEFINE c == <<q, no, {text}>>
  <1>1. c[1] = q /\ c[2] = no /\ c[3] = {text}
    OBVIOUS
  <1>2. c \in Recat!RecatConditions
    OBVIOUS
  <1> HIDE DEF c
  <1>3. c \in {d \in Recat!RecatConditions : Recat!Is(body, d[1], d[2])}
    BY <1>1, <1>2
  <1>4. QED
    BY <1>1, <1>3 DEF Recat!Dropped

\* A text that is kept beside an answer was asked for by it.
LEMMA RecatTextKept ==
    ASSUME NEW body, NEW fields, NEW q, NEW yes, NEW no, NEW text,
           q \in DOMAIN body => body[q] = yes \/ body[q] = no,
           Recat!Is(body, q, no) => text \in Recat!Dropped(Recat!RecatConditions, body),
           Recat!Given(RecatKeptOf(fields, body), q),
           text \in DOMAIN RecatKeptOf(fields, body)
    PROVE  Recat!Is(RecatKeptOf(fields, body), q, yes)
  <1>1. q \in DOMAIN RecatKeptOf(fields, body)
    BY DEF Recat!Given, Recat!Sent
  <1>2. q \in DOMAIN body /\ RecatKeptOf(fields, body)[q] = body[q]
    BY <1>1, RecatKeptBody
  <1>3. text \notin Recat!Dropped(Recat!RecatConditions, body)
    BY RecatKeptBody
  <1>4. QED
    BY <1>1, <1>2, <1>3 DEF Recat!Is, Recat!Sent

\* The texts that are asked for by an answer, page by page.
LEMMA RecatRules ==
    ASSUME NEW p \in Recat!Pages \ {"riskAssessment"}, NEW f \in DOMAIN Recat!FieldsOf(p),
           Recat!FieldsOf(p)[f][1] = "if"
    PROVE  LET q == Recat!FieldsOf(p)[f][2]
               yes == Recat!FieldsOf(p)[f][3]
           IN  \/ p = "oasysInput" /\ f = "oasysInputText" /\ q = "oasysRelevantInfo" /\ yes = "Yes"
               \/ p = "bcstInput" /\ f = "bcstInputText" /\ q = "bcstRelevantInfo" /\ yes = "Yes"
               \/ p = "securityInput" /\ f = "securityInputNeededText" /\ q = "securityNoteNeeded" /\ yes = "Yes"
               \/ p = "higherSecurityReview" /\ f = "transferText" /\ q = "transfer" /\ yes = "No"
  <1> USE DEF Recat!FieldsOf, Recat!Required, Recat!RequiredIf
  <1>1. CASE p = "oasysInput"
    BY <1>1 DEF Recat!OasysInput
  <1>2. CASE p = "bcstInput"
    BY <1>2 DEF Recat!BcstInput
  <1>3. CASE p = "securityInput"
    BY <1>3 DEF Recat!SecurityInput
  <1>4. CASE p = "higherSecurityReview"
    BY <1>4 DEF Recat!HigherSecurityReview
  <1>5. CASE p = "prisonerBackground"
    BY <1>5 DEF Recat!PrisonerBackground
  <1>6. CASE p = "securityBack"
    BY <1>6 DEF Recat!SecurityBack, Recat!NoHidden
  <1>7. CASE p = "decision"
    BY <1>7 DEF Recat!Decision
  <1>8. CASE p = "miniHigherSecurityReview"
    BY <1>8 DEF Recat!MiniHigherSecurityReview
  <1>9. QED
    BY <1>1, <1>2, <1>3, <1>4, <1>5, <1>6, <1>7, <1>8 DEF Recat!Pages

\* The questions that texts depend on are answered Yes or No.
LEMMA RecatYesNo ==
    ASSUME NEW p, NEW q, NEW screen, NEW who, RecatShows(p, screen, who),
           NEW body \in Recat!Bodies(screen), q \in DOMAIN body,
           \/ p = "oasysInput" /\ q = "oasysRelevantInfo"
           \/ p = "bcstInput" /\ q = "bcstRelevantInfo"
           \/ p = "securityInput" /\ q = "securityNoteNeeded"
           \/ p = "higherSecurityReview" /\ q = "transfer"
    PROVE  body[q] = "Yes" \/ body[q] = "No"
  <1>1. /\ q # "_csrf" /\ q \notin screen.texts \cup DOMAIN screen.hidden
        /\ screen.choices[q] = {"Yes", "No"}
    <2> USE DEF RecatShows, Recat!Screen, Recat!YesNo, Recat!NoHidden
    <2>1. CASE p = "oasysInput"
      BY <2>1 DEF Recat!OasysScreen
    <2>2. CASE p = "bcstInput"
      BY <2>2 DEF Recat!BcstScreen
    <2>3. CASE p = "securityInput"
      BY <2>3 DEF Recat!SecurityInputScreen
    <2>4. CASE p = "higherSecurityReview"
      BY <2>4 DEF Recat!HigherSecurityReviewScreen
    <2>5. QED
      BY <2>1, <2>2, <2>3, <2>4
  <1>3. body[q] \in screen.choices[q]
    BY <1>1, RecatBodies
  <1>4. QED
    BY <1>1, <1>3

LEMMA RecatQuestions ==
    ASSUME NEW p, NEW q,
           \/ p = "oasysInput" /\ q = "oasysRelevantInfo"
           \/ p = "bcstInput" /\ q = "bcstRelevantInfo"
           \/ p = "securityInput" /\ q = "securityNoteNeeded"
           \/ p = "higherSecurityReview" /\ q = "transfer"
    PROVE  q \in DOMAIN Recat!FieldsOf(p) /\ Recat!FieldsOf(p)[q] = Recat!Required
  <1> USE DEF Recat!FieldsOf
  <1>1. CASE p = "oasysInput"
    BY <1>1 DEF Recat!OasysInput
  <1>2. CASE p = "bcstInput"
    BY <1>2 DEF Recat!BcstInput
  <1>3. CASE p = "securityInput"
    BY <1>3 DEF Recat!SecurityInput
  <1>4. CASE p = "higherSecurityReview"
    BY <1>4 DEF Recat!HigherSecurityReview
  <1>5. QED
    BY <1>1, <1>2, <1>3, <1>4

\* What is saved of a page is whole.
LEMMA RecatPageSaved ==
    ASSUME NEW p \in Recat!Pages, NEW screen, NEW who, RecatShows(p, screen, who),
           NEW body \in Recat!Bodies(screen),
           Recat!Valid(Recat!FieldsOf(p), RecatKeptOf(Recat!FieldsOf(p), body))
    PROVE  RecatWholePage(p, RecatKeptOf(Recat!FieldsOf(p), body))
  <1> DEFINE fields == Recat!FieldsOf(p)
             kept == RecatKeptOf(fields, body)
  <1>1. DOMAIN kept \subseteq DOMAIN fields
    BY RecatKeptBody
  <1>2. ASSUME p # "riskAssessment", NEW f \in DOMAIN kept, fields[f][1] = "if"
        PROVE  Recat!Is(kept, fields[f][2], fields[f][3])
    <2> DEFINE q == fields[f][2]
               yes == fields[f][3]
               no == IF yes = "Yes" THEN "No" ELSE "Yes"
    <2>1. \/ p = "oasysInput" /\ f = "oasysInputText" /\ q = "oasysRelevantInfo" /\ yes = "Yes"
          \/ p = "bcstInput" /\ f = "bcstInputText" /\ q = "bcstRelevantInfo" /\ yes = "Yes"
          \/ p = "securityInput" /\ f = "securityInputNeededText" /\ q = "securityNoteNeeded" /\ yes = "Yes"
          \/ p = "higherSecurityReview" /\ f = "transferText" /\ q = "transfer" /\ yes = "No"
      BY <1>1, <1>2, RecatRules
    <2>2. Recat!Given(kept, q)
      <3>1. q \in DOMAIN fields /\ fields[q] = Recat!Required
        BY <2>1, RecatQuestions
      <3>2. Recat!FieldValid(fields[q], kept, q)
        BY <3>1 DEF Recat!Valid
      <3>3. QED
        BY <3>1, <3>2 DEF Recat!FieldValid, Recat!Required
    <2>3. <<q, no, {f}>> \in Recat!RecatConditions
      BY <2>1 DEF Recat!RecatConditions
    <2>4. q \in DOMAIN body => body[q] = yes \/ body[q] = no
      BY <2>1, RecatYesNo
    <2> HIDE DEF q, yes, no, kept, fields
    <2>5. Recat!Is(body, q, no) => f \in Recat!Dropped(Recat!RecatConditions, body)
      BY <2>3, RecatDrops
    <2>6. Recat!Is(RecatKeptOf(fields, body), q, yes)
      BY <1>2, <2>2, <2>4, <2>5, RecatTextKept DEF kept
    <2>7. QED
      BY <2>6 DEF q, yes, kept
  <1>3. QED
    BY <1>1, <1>2 DEF RecatWholePage

\* Document d is `old' with the answers of a page; an assessment replaces the
\* other, and a higher security review may go.
RecatSwapped(page, p) ==
    \/ page = "oasysInput" /\ p = "bcstInput"
    \/ page = "bcstInput" /\ p = "oasysInput"
RecatLeft(d, old, page, answers, goes) ==
    /\ page \in DOMAIN d /\ d[page] = answers
    /\ DOMAIN d \subseteq DOMAIN old \cup {page}
    /\ \A p \in DOMAIN d : p # page => d[p] = old[p] /\ ~RecatSwapped(page, p)
    /\ \A p \in DOMAIN old : p \in DOMAIN d \/ RecatSwapped(page, p) \/ p \in goes

LEMMA RecatUpdated ==
    ASSUME NEW page, NEW answers
    PROVE  RecatLeft(Recat!Updated(page, answers), doc, page, answers, {})
  <1> DEFINE gone == (IF page = "oasysInput" THEN {"bcstInput"} ELSE {})
                        \cup (IF page = "bcstInput" THEN {"oasysInput"} ELSE {})
             rest == Recat!Without(doc, gone)
             d == Recat!Stored(rest, page, answers)
  <1>0. \A p : p \in gone <=> RecatSwapped(page, p)
    BY DEF RecatSwapped
  <1>1. /\ \A p : p \in DOMAIN rest <=> p \in DOMAIN doc /\ p \notin gone
        /\ \A p \in DOMAIN rest : rest[p] = doc[p]
    BY RecatWithout
  <1>2. d = Recat!Updated(page, answers)
    BY DEF Recat!Updated
  <1> HIDE DEF rest, gone
  <1>3. /\ \A p : p \in DOMAIN d <=> p \in DOMAIN rest \/ p = page
        /\ d[page] = answers
        /\ \A p \in DOMAIN rest : p # page => d[p] = rest[p]
    BY RecatStored
  <1>5. ~RecatSwapped(page, page)
    BY DEF RecatSwapped
  <1> HIDE DEF d
  <1>4. RecatLeft(d, doc, page, answers, {})
    BY <1>0, <1>1, <1>3, <1>5 DEF RecatLeft
  <1> QED
    BY <1>2, <1>4

LEMMA RecatLeftWithout ==
    ASSUME NEW d, NEW old, NEW page, NEW answers, NEW pages, page \notin pages,
           RecatLeft(d, old, page, answers, {})
    PROVE  RecatLeft(Recat!Without(d, pages), old, page, answers, pages)
  <1> DEFINE e == Recat!Without(d, pages)
  <1>1. /\ \A p : p \in DOMAIN e <=> p \in DOMAIN d /\ p \notin pages
        /\ \A p \in DOMAIN e : e[p] = d[p]
    BY RecatWithout
  <1> HIDE DEF e
  <1>2. RecatLeft(e, old, page, answers, pages)
    BY <1>1 DEF RecatLeft
  <1>3. QED
    BY <1>2 DEF e

HigherReviewPages == {"higherSecurityReview", "miniHigherSecurityReview"}

\* The document that a page leaves, and the page that follows.
LEMMA RecatAfter ==
    ASSUME NEW page \in Recat!Pages, NEW input
    PROVE  LET d == Recat!After(page, input)[1]
               next == Recat!After(page, input)[2]
               higher == Recat!Higher(input["currentCategory"], input["category"])
           IN  /\ RecatLeft(d, doc, page, Recat!Kept(Recat!FieldsOf(page), input), HigherReviewPages)
               /\ page = "decision" /\ ~higher /\ "higherSecurityReview" \in DOMAIN d =>
                     input["currentCategory"] = "I"
               /\ next \in {"tasklist", "higherSecurityReview", "miniHigherSecurityReview"}
               /\ next = "higherSecurityReview" => page = "decision" /\ higher
  <1> DEFINE answers == Recat!Kept(Recat!FieldsOf(page), input)
             d == Recat!Updated(page, answers)
             higher == Recat!Higher(input["currentCategory"], input["category"])
  <1>1. RecatLeft(d, doc, page, answers, {})
    BY RecatUpdated
  <1>0. RecatLeft(d, doc, page, answers, HigherReviewPages)
    BY <1>1 DEF RecatLeft
  <1>w. \A pages \in SUBSET HigherReviewPages : page \notin pages =>
            RecatLeft(Recat!Without(d, pages), doc, page, answers, HigherReviewPages)
    <2>1. ASSUME NEW pages \in SUBSET HigherReviewPages, page \notin pages
          PROVE  RecatLeft(Recat!Without(d, pages), doc, page, answers, HigherReviewPages)
      <3> HIDE DEF d
      <3>1. RecatLeft(Recat!Without(d, pages), doc, page, answers, pages)
        BY <1>1, <2>1, RecatLeftWithout
      <3>2. QED
        BY <3>1 DEF RecatLeft
    <2>2. QED
      BY <2>1
  <1> HIDE DEF d, answers, higher
  <1>2. CASE page = "decision"
    <2>1. Recat!After(page, input) = Recat!AfterDecision(d, input)
      BY <1>2 DEF Recat!After, d, answers
    <2>2. CASE input["currentCategory"] = "I" /\ Recat!Is(input, "category", "B")
      <3>1. Recat!After(page, input) = <<d, "miniHigherSecurityReview">>
        BY <2>1, <2>2 DEF Recat!AfterDecision
      <3>2. QED
        BY <1>0, <2>2, <3>1 DEF answers
    <2>3. CASE ~(input["currentCategory"] = "I" /\ Recat!Is(input, "category", "B")) /\ higher
      <3>1. Recat!After(page, input) = <<d, "higherSecurityReview">>
        BY <2>1, <2>3 DEF Recat!AfterDecision, higher
      <3>2. QED
        BY <1>0, <1>2, <2>3, <3>1 DEF answers, higher
    <2>4. CASE ~(input["currentCategory"] = "I" /\ Recat!Is(input, "category", "B")) /\ ~higher
      <3>1. Recat!After(page, input) = <<Recat!Without(d, HigherReviewPages), "tasklist">>
        BY <2>1, <2>4 DEF Recat!AfterDecision, HigherReviewPages, higher
      <3>2. RecatLeft(Recat!Without(d, HigherReviewPages), doc, page, answers, HigherReviewPages)
        BY <1>2, <1>w DEF HigherReviewPages
      <3>3. "higherSecurityReview" \notin DOMAIN Recat!Without(d, HigherReviewPages)
        BY RecatWithout DEF HigherReviewPages
      <3>4. QED
        BY <3>1, <3>2, <3>3 DEF answers
    <2>5. QED
      BY <2>2, <2>3, <2>4
  <1>3. CASE page = "higherSecurityReview"
    <2>1. Recat!After(page, input) = <<Recat!Without(d, {"miniHigherSecurityReview"}), "tasklist">>
      BY <1>3 DEF Recat!After, d, answers
    <2>2. RecatLeft(Recat!Without(d, {"miniHigherSecurityReview"}), doc, page, answers, HigherReviewPages)
      BY <1>3, <1>w DEF HigherReviewPages
    <2>3. QED
      BY <1>3, <2>1, <2>2 DEF answers
  <1>4. CASE page = "miniHigherSecurityReview"
    <2>1. Recat!After(page, input) = <<Recat!Without(d, {"higherSecurityReview"}), "tasklist">>
      BY <1>4 DEF Recat!After, d, answers
    <2>2. RecatLeft(Recat!Without(d, {"higherSecurityReview"}), doc, page, answers, HigherReviewPages)
      BY <1>4, <1>w DEF HigherReviewPages
    <2>3. QED
      BY <1>4, <2>1, <2>2 DEF answers
  <1>5. CASE page \notin {"decision", "higherSecurityReview", "miniHigherSecurityReview"}
    <2>1. Recat!After(page, input) = <<d, "tasklist">>
      BY <1>5 DEF Recat!After, d, answers
    <2>2. QED
      BY <1>0, <1>5, <2>1 DEF answers
  <1>6. QED
    BY <1>2, <1>3, <1>4, <1>5

-----------------------------------------------------------------------------
(* The steps of a recategorisation *)

LEMMA RecatScreenOf ==
    ASSUME NEW p \in Recat!Asking
    PROVE  RecatShows(p, Recat!ScreenOf(p), person)
  <1> USE DEF RecatShows, Recat!ScreenOf
  <1>1. CASE p = "decision"
    BY <1>1 DEF Recat!DecisionScreen, Recat!Screen
  <1>2. CASE p # "decision"
    BY <1>2
  <1>3. QED
    BY <1>1, <1>2

\* A document that can be submitted stays one, and what was asked stays asked.
RecatGrows(d, st, rev, e, su, sv) ==
    /\ RecatReady(d, rev) => RecatReady(e, sv)
    /\ st \notin Unasked => su \notin Unasked

\* One tab shows something else.
LEMMA RecatShown ==
    ASSUME NEW t \in DOMAIN tabs, NEW tab, Recat!Show(t, tab), person' = person,
           RecatTabs, RecatScreens, RecatReviews,
           RecatGrows(doc, status, reviews, doc', status', reviews'),
           RecatOffers(tab, doc', status', reviews'),
           RecatShows(tab.page, tab.screen, person),
           OneTab /\ ("higherSecurityReview" \in DOMAIN doc' \/ At(tab, "higherSecurityReview"))
              => RecatHigher(doc', person)
    PROVE  RecatTabs' /\ RecatScreens' /\ RecatReviews'
  <1>1. DOMAIN tabs' = DOMAIN tabs /\ tabs'[t] = tab
    BY DEF Recat!Show
  <1>2. \A u \in DOMAIN tabs : u # t => tabs'[u] = tabs[u]
    BY DEF Recat!Show
  <1>3. RecatTabs'
    <2>1. ASSUME NEW u \in DOMAIN tabs
          PROVE  RecatOffers(tabs'[u], doc', status', reviews')
      BY <1>1, <1>2 DEF RecatTabs, RecatOffers, RecatGrows
    <2>2. QED
      BY <1>1, <2>1 DEF RecatTabs
  <1>4. RecatScreens'
    <2>1. ASSUME NEW u \in DOMAIN tabs
          PROVE  RecatShows(tabs'[u].page, tabs'[u].screen, person')
      BY <1>1, <1>2 DEF RecatScreens
    <2>2. QED
      BY <1>1, <2>1 DEF RecatScreens
  <1>5. RecatReviews'
    <2>1. SUFFICES ASSUME OneTab'
                   PROVE  /\ "higherSecurityReview" \in DOMAIN doc' => RecatHigher(doc', person')
                          /\ \A u \in DOMAIN tabs' :
                                At(tabs'[u], "higherSecurityReview") => RecatHigher(doc', person')
      BY DEF RecatReviews
    <2>2. OneTab /\ \A u \in DOMAIN tabs' : u = t
      BY <1>1, <2>1 DEF OneTab
    <2>3. QED
      BY <1>1, <2>2
  <1>6. QED
    BY <1>3, <1>4, <1>5

LEMMA RecatElsewhere ==
    ASSUME NEW links, NEW d, NEW st, NEW rev, NEW who,
           "review" \notin links, "securityBack" \notin links
    PROVE  LET tab == Recat!Elsewhere(links)
           IN  /\ RecatOffers(tab, d, st, rev)
               /\ RecatShows(tab.page, tab.screen, who)
               /\ At(tab, "higherSecurityReview") <=> "higherSecurityReview" \in links
  BY DEF Recat!Elsewhere, Recat!Tab, RecatOffers, RecatShows, At

LEMMA RecatInitially ==
    ASSUME Recat!Init PROVE RecatInv
  <1> USE DEF Recat!Init
  <1>1. PICK open \in SUBSET Tabs : tabs = [t \in open |-> Recat!Elsewhere({"tasklist"})]
    OBVIOUS
  <1>2. \A t \in DOMAIN tabs : tabs[t] = Recat!Elsewhere({"tasklist"})
    BY <1>1
  <1>3. DOMAIN doc = {}
    BY DEF Recat!NoPages
  <1>4. RecatTypes
    <2>1. returns \in 0 .. MaxReturns
      BY MaxReturnsAssumption
    <2>2. QED
      BY <2>1 DEF RecatTypes
  <1>5. RecatDoc /\ RecatSecurity
    BY <1>3 DEF RecatDoc, RecatSecurity, Unasked
  <1>6. \A t \in DOMAIN tabs : /\ RecatOffers(tabs[t], doc, status, reviews)
                               /\ RecatShows(tabs[t].page, tabs[t].screen, person)
                               /\ ~At(tabs[t], "higherSecurityReview")
    BY <1>2, RecatElsewhere
  <1>7. RecatTabs /\ RecatScreens /\ RecatReviews
    BY <1>3, <1>6 DEF RecatTabs, RecatScreens, RecatReviews
  <1>8. QED
    BY <1>4, <1>5, <1>7 DEF RecatInv

\* The tasklist leads to the submission when the form is whole and security has
\* reviewed it, and to the answer of security when it was asked.
LEMMA RecatTasklist ==
    ASSUME RecatInv, NEW st, st = status \/ (status = Recat!Undefined /\ st \in {"SECURITY_AUTO", "STARTED"}),
           "review" \in Recat!TasklistLinks(st)
    PROVE  RecatReady(doc, reviews)
  <1>1. Recat!AllSectionsCompleted(st)
    BY DEF Recat!TasklistLinks
  <1>2. st \notin Recat!Referred /\ ("securityInput" \in DOMAIN doc \/ "securityBack" \in DOMAIN doc)
    BY <1>1 DEF Recat!AllSectionsCompleted, Recat!Saved
  <1>3. status \notin Unasked
    BY <1>2 DEF RecatInv, RecatSecurity
  <1>4. reviews
    BY <1>2, <1>3 DEF Unasked, RecatInv, RecatSecurity
  <1>5. QED
    BY <1>1, <1>4 DEF RecatReady, Recat!AllSectionsCompleted, Recat!Saved, Recat!PrevRiskAssessmentsCompleted

LEMMA RecatOpenTasklist ==
    ASSUME RecatInv, NEW t \in DOMAIN tabs, Recat!OpenTasklist(t)
    PROVE  RecatInv'
  <1> DEFINE tab == Recat!Tab("tasklist", Recat!TasklistLinks(status'), Recat!NoScreen)
  <1>0. /\ UNCHANGED <<person, doc, message, said, reviews, submitted, returns>>
        /\ Recat!Show(t, tab)
        /\ \/ status' = status /\ status # Recat!Undefined
           \/ status = Recat!Undefined /\ status' \in {"SECURITY_AUTO", "STARTED"}
    BY DEF Recat!OpenTasklist
  <1>1. tab.page = "tasklist" /\ tab.links = Recat!TasklistLinks(status')
    BY DEF Recat!Tab
  <1> HIDE DEF tab
  <1>2. RecatOffers(tab, doc, status', reviews)
    <2>1. At(tab, "review") => RecatReady(doc, reviews)
      <3>1. SUFFICES ASSUME "review" \in Recat!TasklistLinks(status')
                     PROVE  RecatReady(doc, reviews)
        BY <1>1 DEF At
      <3> DEFINE st == status'
      <3>2. st = status \/ (status = Recat!Undefined /\ st \in {"SECURITY_AUTO", "STARTED"})
        BY <1>0
      <3> HIDE DEF st
      <3>3. "review" \in Recat!TasklistLinks(st)
        BY <3>1 DEF st
      <3>4. QED
        BY <3>2, <3>3, RecatTasklist
    <2>2. At(tab, "securityBack") => status' \notin Unasked
      BY <1>1 DEF At, Recat!TasklistLinks, Recat!BackFromSecurity, Unasked, Recat!Undefined
    <2>3. QED
      BY <2>1, <2>2 DEF RecatOffers
  <1>3. RecatShows(tab.page, tab.screen, person)
    BY <1>1 DEF RecatShows
  <1>4. ~At(tab, "higherSecurityReview")
    BY <1>1 DEF At, Recat!TasklistLinks
  <1>5. RecatGrows(doc, status, reviews, doc', status', reviews')
    BY <1>0 DEF RecatGrows, Unasked
  <1>6. RecatTabs' /\ RecatScreens' /\ RecatReviews'
    BY <1>0, <1>2, <1>3, <1>4, <1>5, RecatShown DEF RecatInv, RecatReviews
  <1>7. RecatTypes'
    BY <1>0 DEF RecatInv, RecatTypes, Recat!InProgress
  <1>8. RecatDoc' /\ RecatSecurity'
    BY <1>0 DEF RecatInv, RecatDoc, RecatSecurity, Unasked, Recat!Referred
  <1>9. QED
    BY <1>0, <1>6, <1>7, <1>8 DEF RecatInv

LEMMA RecatOpenPage ==
    ASSUME RecatInv, NEW t \in DOMAIN tabs, NEW page \in Recat!Asking, Recat!OpenPage(t, page)
    PROVE  RecatInv'
  <1> DEFINE tab == IF Recat!WithSecurity(page) THEN Recat!Elsewhere({"tasklist"})
                    ELSE Recat!Rendered(page)
  <1>0. /\ UNCHANGED <<person, doc, status, message, said, reviews, submitted, returns>>
        /\ Recat!Show(t, tab) /\ page \in tabs[t].links
    BY DEF Recat!OpenPage
  <1>1. /\ RecatOffers(tab, doc, status, reviews)
        /\ RecatShows(tab.page, tab.screen, person)
        /\ At(tab, "higherSecurityReview") => At(tabs[t], "higherSecurityReview")
    <2>1. CASE Recat!WithSecurity(page)
      BY <2>1, RecatElsewhere
    <2>2. CASE ~Recat!WithSecurity(page)
      <3>1. tab.page = page /\ tab.links = {"tasklist"} /\ tab.screen = Recat!ScreenOf(page)
        BY <2>2 DEF Recat!Rendered, Recat!Tab
      <3> HIDE DEF tab
      <3>2. At(tab, "higherSecurityReview") => At(tabs[t], "higherSecurityReview")
        BY <1>0, <3>1 DEF At
      <3>3. page # "review"
        BY DEF Recat!Asking, Recat!Pages
      <3>4. RecatOffers(tab, doc, status, reviews)
        BY <1>0, <3>1, <3>3 DEF RecatInv, RecatTabs, RecatOffers, At
      <3>5. RecatShows(tab.page, tab.screen, person)
        BY <3>1, RecatScreenOf
      <3>6. QED
        BY <3>2, <3>4, <3>5
    <2>3. QED
      BY <2>1, <2>2
  <1> HIDE DEF tab
  <1>2. RecatGrows(doc, status, reviews, doc', status', reviews')
    BY <1>0 DEF RecatGrows
  <1>3. RecatTabs' /\ RecatScreens' /\ RecatReviews'
    BY <1>0, <1>1, <1>2, RecatShown DEF RecatInv, RecatReviews
  <1>4. RecatTypes' /\ RecatDoc' /\ RecatSecurity'
    BY <1>0 DEF RecatInv, RecatTypes, RecatDoc, RecatSecurity
  <1>5. QED
    BY <1>0, <1>3, <1>4 DEF RecatInv

LEMMA RecatPostPrevious ==
    ASSUME RecatInv, NEW t \in DOMAIN tabs, Recat!PostPreviousRiskAssessments(t)
    PROVE  RecatInv'
  <1> USE DEF Recat!PostPreviousRiskAssessments
  <1>1. PICK answer \in {"yes", "no", "notRequired"} :
            /\ said' = answer
            /\ Recat!Show(t, CASE answer = "yes"         -> Recat!Elsewhere({"oasysInput"})
                               [] answer = "notRequired" -> Recat!Elsewhere({"bcstInput"})
                               [] answer = "no" -> Recat!Elsewhere({"tasklist", "previousRiskAssessments"}))
    OBVIOUS
  <1>2. PICK links \in {{"oasysInput"}, {"bcstInput"}, {"tasklist", "previousRiskAssessments"}} :
            Recat!Show(t, Recat!Elsewhere(links))
    BY <1>1
  <1> DEFINE tab == Recat!Elsewhere(links)
  <1>3. /\ RecatOffers(tab, doc, status, reviews)
        /\ RecatShows(tab.page, tab.screen, person)
        /\ ~At(tab, "higherSecurityReview")
    BY RecatElsewhere
  <1>4. Recat!Show(t, tab)
    BY <1>2
  <1> HIDE DEF tab
  <1>5. RecatGrows(doc, status, reviews, doc', status', reviews')
    BY DEF RecatGrows
  <1>6. RecatTabs' /\ RecatScreens' /\ RecatReviews'
    BY <1>3, <1>4, <1>5, RecatShown DEF RecatInv, RecatReviews
  <1>7. RecatTypes' /\ RecatDoc' /\ RecatSecurity'
    BY <1>1 DEF RecatInv, RecatTypes, RecatDoc, RecatSecurity
  <1>8. QED
    BY <1>6, <1>7 DEF RecatInv

LEMMA RecatOpenReview ==
    ASSUME RecatInv, NEW t \in DOMAIN tabs, Recat!OpenReview(t)
    PROVE  RecatInv'
  <1> DEFINE tab == Recat!Tab("review", Recat!ReviewLinks \cup {"tasklist"}, Recat!NoScreen)
  <1>0. /\ UNCHANGED <<person, doc, status, message, said, reviews, submitted, returns>>
        /\ Recat!Show(t, tab) /\ "review" \in tabs[t].links
    BY DEF Recat!OpenReview
  <1>1. tab.page = "review" /\ tab.links = Recat!ReviewLinks \cup {"tasklist"}
    BY DEF Recat!Tab
  <1> HIDE DEF tab
  <1>2. RecatReady(doc, reviews)
    BY <1>0 DEF RecatInv, RecatTabs, RecatOffers, At
  <1>3. ~At(tab, "securityBack")
    BY <1>1 DEF At, Recat!ReviewLinks
  <1>4. At(tab, "higherSecurityReview") => "higherSecurityReview" \in DOMAIN doc
    BY <1>1 DEF At, Recat!ReviewLinks, Recat!Saved
  <1>5. RecatOffers(tab, doc, status, reviews)
    BY <1>2, <1>3 DEF RecatOffers
  <1>6. RecatShows(tab.page, tab.screen, person)
    BY <1>1 DEF RecatShows
  <1>7. RecatGrows(doc, status, reviews, doc', status', reviews')
    BY <1>0 DEF RecatGrows
  <1>8. RecatTabs' /\ RecatScreens' /\ RecatReviews'
    BY <1>0, <1>4, <1>5, <1>6, <1>7, RecatShown DEF RecatInv, RecatReviews
  <1>9. RecatTypes' /\ RecatDoc' /\ RecatSecurity'
    BY <1>0 DEF RecatInv, RecatTypes, RecatDoc, RecatSecurity
  <1>10. QED
    BY <1>0, <1>8, <1>9 DEF RecatInv

LEMMA RecatPostReview ==
    ASSUME RecatInv, NEW t \in DOMAIN tabs, Recat!PostReview(t)
    PROVE  RecatInv'
  <1>0. /\ UNCHANGED <<person, doc, message, said, reviews, returns>>
        /\ tabs[t].page = "review"
        /\ \/ status' = "AWAITING_APPROVAL" /\ submitted' = TRUE
              /\ status \in Recat!Previous["AWAITING_APPROVAL"]
           \/ UNCHANGED <<status, submitted>>
    BY DEF Recat!PostReview, Recat!Allowed
  <1>1. PICK links \in {{}, {"tasklist"}} : Recat!Show(t, Recat!Elsewhere(links))
    BY DEF Recat!PostReview
  <1> DEFINE tab == Recat!Elsewhere(links)
  <1>2. /\ RecatOffers(tab, doc, status', reviews)
        /\ RecatShows(tab.page, tab.screen, person)
        /\ ~At(tab, "higherSecurityReview")
    BY RecatElsewhere
  <1>3. Recat!Show(t, tab)
    BY <1>1
  <1> HIDE DEF tab
  <1>4. RecatReady(doc, reviews)
    BY <1>0 DEF RecatInv, RecatTabs, RecatOffers, At
  <1>5. RecatGrows(doc, status, reviews, doc', status', reviews')
    BY <1>0 DEF RecatGrows, Unasked, Recat!Undefined
  <1>6. RecatTabs' /\ RecatScreens' /\ RecatReviews'
    BY <1>0, <1>2, <1>3, <1>5, RecatShown DEF RecatInv, RecatReviews
  <1>7. RecatTypes'
    BY <1>0 DEF RecatInv, RecatTypes, Recat!InProgress
  <1>8. RecatSecurity'
    BY <1>0, <1>4 DEF RecatInv, RecatSecurity, RecatReady, Unasked, Recat!Undefined
  <1>9. RecatDoc'
    BY <1>0 DEF RecatInv, RecatDoc
  <1>10. QED
    BY <1>0, <1>4, <1>6, <1>7, <1>8, <1>9 DEF RecatInv

LEMMA RecatReadMessage ==
    ASSUME RecatInv, NEW t \in DOMAIN tabs, Recat!ReadMessage(t)
    PROVE  RecatInv'
  <1>0. /\ UNCHANGED <<person, doc, status, said, reviews, submitted, returns>>
        /\ message' = "read"
        /\ Recat!Show(t, Recat!Elsewhere({"tasklist"}))
    BY DEF Recat!ReadMessage
  <1> DEFINE tab == Recat!Elsewhere({"tasklist"})
  <1>1. /\ RecatOffers(tab, doc, status, reviews)
        /\ RecatShows(tab.page, tab.screen, person)
        /\ ~At(tab, "higherSecurityReview")
    BY RecatElsewhere
  <1>2. Recat!Show(t, tab)
    BY <1>0
  <1> HIDE DEF tab
  <1>3. RecatGrows(doc, status, reviews, doc', status', reviews')
    BY <1>0 DEF RecatGrows
  <1>4. RecatTabs' /\ RecatScreens' /\ RecatReviews'
    BY <1>0, <1>1, <1>2, <1>3, RecatShown DEF RecatInv, RecatReviews
  <1>5. RecatTypes' /\ RecatDoc' /\ RecatSecurity'
    BY <1>0 DEF RecatInv, RecatTypes, RecatDoc, RecatSecurity
  <1>6. QED
    BY <1>0, <1>4, <1>5 DEF RecatInv

LEMMA RecatSecurityReview ==
    ASSUME RecatInv, Recat!SecurityReview
    PROVE  RecatInv'
  <1>0. /\ UNCHANGED <<person, doc, message, tabs, said, submitted, returns>>
        /\ status' = "SECURITY_BACK" /\ reviews' = TRUE
    BY DEF Recat!SecurityReview
  <1>1. RecatGrows(doc, status, reviews, doc', status', reviews')
    BY <1>0 DEF RecatGrows, RecatReady, Unasked, Recat!Undefined
  <1>2. RecatTabs'
    BY <1>0, <1>1 DEF RecatInv, RecatTabs, RecatOffers, RecatGrows
  <1>3. RecatScreens' /\ RecatReviews' /\ RecatDoc'
    BY <1>0 DEF RecatInv, RecatScreens, RecatReviews, RecatDoc, OneTab
  <1>4. RecatTypes'
    BY <1>0 DEF RecatInv, RecatTypes, Recat!InProgress
  <1>5. RecatSecurity'
    BY <1>0 DEF RecatSecurity, Unasked, Recat!Undefined
  <1>6. QED
    BY <1>0, <1>1, <1>2, <1>3, <1>4, <1>5 DEF RecatInv, RecatGrows

LEMMA RecatSendBack ==
    ASSUME RecatInv, Recat!SendBack
    PROVE  RecatInv'
  <1>0. /\ UNCHANGED <<person, doc, said, reviews>>
        /\ status = "AWAITING_APPROVAL" /\ status' = "SUPERVISOR_BACK"
        /\ message' = "unread" /\ submitted' = FALSE
        /\ returns' = returns + 1 /\ returns < MaxReturns
        /\ tabs' = [t \in DOMAIN tabs |->
                       IF tabs[t].links = {} THEN Recat!Elsewhere({"tasklist"}) ELSE tabs[t]]
    BY DEF Recat!SendBack
  <1>1. reviews
    BY <1>0 DEF RecatInv, RecatSecurity, Unasked, Recat!Undefined, Recat!Referred
  <1>2. RecatGrows(doc, status, reviews, doc', status', reviews')
    BY <1>0 DEF RecatGrows, Unasked, Recat!Undefined
  <1>3. /\ DOMAIN tabs' = DOMAIN tabs
        /\ \A t \in DOMAIN tabs : tabs'[t] = tabs[t] \/ tabs'[t] = Recat!Elsewhere({"tasklist"})
    BY <1>0
  <1>4. \A t \in DOMAIN tabs :
            /\ RecatOffers(tabs'[t], doc', status', reviews')
            /\ RecatShows(tabs'[t].page, tabs'[t].screen, person')
            /\ At(tabs'[t], "higherSecurityReview") => At(tabs[t], "higherSecurityReview")
    <2>1. SUFFICES ASSUME NEW t \in DOMAIN tabs
                   PROVE  /\ RecatOffers(tabs'[t], doc', status', reviews')
                          /\ RecatShows(tabs'[t].page, tabs'[t].screen, person')
                          /\ At(tabs'[t], "higherSecurityReview") => At(tabs[t], "higherSecurityReview")
      OBVIOUS
    <2>2. CASE tabs'[t] = tabs[t]
      BY <1>0, <1>2, <2>2 DEF RecatInv, RecatTabs, RecatScreens, RecatOffers, RecatGrows
    <2>3. CASE tabs'[t] = Recat!Elsewhere({"tasklist"})
      BY <2>3, RecatElsewhere
    <2>4. QED
      BY <1>3, <2>2, <2>3
  <1>5. RecatTabs' /\ RecatScreens' /\ RecatReviews'
    BY <1>0, <1>3, <1>4 DEF RecatInv, RecatTabs, RecatScreens, RecatReviews, OneTab
  <1>6. RecatTypes'
    <2>1. returns' \in 0 .. MaxReturns
      <3>1. returns \in 0 .. MaxReturns
        BY DEF RecatInv, RecatTypes
      <3>2. QED
        BY <1>0, <3>1, MaxReturnsAssumption
    <2>2. QED
      BY <1>0, <2>1 DEF RecatInv, RecatTypes, Recat!InProgress
  <1>7. RecatDoc' /\ RecatSecurity'
    BY <1>0, <1>1 DEF RecatInv, RecatDoc, RecatSecurity, Unasked, Recat!Undefined
  <1>8. QED
    BY <1>0, <1>5, <1>6, <1>7 DEF RecatInv

LEMMA RecatHigherStays ==
    ASSUME NEW d, NEW page, NEW answers, NEW who, page # "decision",
           RecatLeft(d, doc, page, answers, HigherReviewPages), RecatHigher(doc, who)
    PROVE  RecatHigher(d, who)
  <1>1. "decision" \in DOMAIN doc /\ "decision" \notin HigherReviewPages /\ ~RecatSwapped(page, "decision")
    BY DEF RecatHigher, HigherReviewPages, RecatSwapped
  <1>2. "decision" \in DOMAIN d /\ d["decision"] = doc["decision"]
    BY <1>1 DEF RecatLeft
  <1>3. QED
    BY <1>2 DEF RecatHigher

LEMMA RecatReadyStays ==
    ASSUME NEW d, NEW page, NEW answers, NEW rev,
           RecatLeft(d, doc, page, answers, HigherReviewPages), RecatReady(doc, rev)
    PROVE  RecatReady(d, rev)
  BY DEF RecatLeft, RecatReady, RecatSwapped, HigherReviewPages

\* The current category is that of the prisoner, what is saved of the decision
\* its category.
LEMMA RecatDecided ==
    ASSUME NEW screen, NEW body \in Recat!Bodies(screen), NEW who,
           RecatShows("decision", screen, who),
           Recat!Valid(Recat!Decision, RecatKeptOf(Recat!Decision, body))
    PROVE  LET input == Recat!Cleared(Recat!RecatConditions, body)
           IN  /\ input["currentCategory"] = who.current
               /\ RecatKeptOf(Recat!Decision, body)["category"] = input["category"]
  <1> DEFINE input == Recat!Cleared(Recat!RecatConditions, body)
             kept == RecatKeptOf(Recat!Decision, body)
  <1>1. "currentCategory" \in DOMAIN body /\ body["currentCategory"] = who.current
    <2>1. /\ "currentCategory" \notin screen.texts \cup DOMAIN screen.choices
          /\ "currentCategory" \in DOMAIN screen.hidden
          /\ screen.hidden["currentCategory"] = who.current
      BY DEF RecatShows
    <2>2. QED
      BY <2>1, RecatBodies
  <1>2. "currentCategory" \notin Recat!Dropped(Recat!RecatConditions, body)
    BY RecatDropped
  <1>3. input["currentCategory"] = who.current
    BY <1>1, <1>2, RecatCleared
  <1>4. "category" \in DOMAIN kept
    <2>1. Recat!FieldValid(Recat!Decision["category"], kept, "category")
      BY DEF Recat!Valid, Recat!Decision
    <2>2. QED
      BY <2>1 DEF Recat!FieldValid, Recat!Decision, Recat!Required, Recat!Given, Recat!Sent
  <1>5. kept["category"] = input["category"]
    <2> HIDE DEF input
    <2>1. "category" \in DOMAIN Recat!Kept(Recat!Decision, input)
      BY <1>4 DEF RecatKeptOf, input
    <2>2. Recat!Kept(Recat!Decision, input)["category"] = input["category"]
      BY <2>1, RecatKept
    <2>3. QED
      BY <2>2 DEF RecatKeptOf, input
  <1>6. QED
    BY <1>3, <1>5

\* Nobody in category I is given a higher one.
LEMMA RecatNotHigher ==
    ASSUME NEW new PROVE ~Recat!Higher("I", new)
  BY DEF Recat!Higher

\* What a page that is saved leaves.
LEMMA RecatSaves ==
    ASSUME RecatInv, NEW t \in DOMAIN tabs, NEW page \in Recat!Pages, page = tabs[t].page,
           NEW body \in Recat!Bodies(tabs[t].screen), NEW input,
           input = Recat!Cleared(Recat!RecatConditions, body), Recat!Accepted(page, input),
           NEW d, d = Recat!After(page, input)[1], NEW next, next = Recat!After(page, input)[2]
    PROVE  /\ RecatLeft(d, doc, page, RecatKeptOf(Recat!FieldsOf(page), body), HigherReviewPages)
           /\ RecatWholePage(page, RecatKeptOf(Recat!FieldsOf(page), body))
           /\ next \in {"tasklist", "higherSecurityReview", "miniHigherSecurityReview"}
           /\ OneTab /\ ("higherSecurityReview" \in DOMAIN d \/ next = "higherSecurityReview")
                 => RecatHigher(d, person)
  <1> DEFINE kept == RecatKeptOf(Recat!FieldsOf(page), body)
             higher == Recat!Higher(input["currentCategory"], input["category"])
  <1>1. /\ RecatLeft(d, doc, page, kept, HigherReviewPages)
        /\ page = "decision" /\ ~higher /\ "higherSecurityReview" \in DOMAIN d =>
              input["currentCategory"] = "I"
        /\ next \in {"tasklist", "higherSecurityReview", "miniHigherSecurityReview"}
        /\ next = "higherSecurityReview" => page = "decision" /\ higher
    BY RecatAfter DEF RecatKeptOf
  <1>2. Recat!Valid(Recat!FieldsOf(page), kept)
    BY DEF Recat!Accepted, RecatKeptOf
  <1>3. RecatShows(page, tabs[t].screen, person)
    BY DEF RecatInv, RecatScreens
  <1>4. RecatWholePage(page, kept)
    BY <1>2, <1>3, RecatPageSaved
  <1>5. ASSUME OneTab, "higherSecurityReview" \in DOMAIN d \/ next = "higherSecurityReview"
        PROVE  RecatHigher(d, person)
    <2>1. "higherSecurityReview" \in DOMAIN doc \/ page = "higherSecurityReview" => RecatHigher(doc, person)
      BY <1>5 DEF RecatInv, RecatReviews, At
    <2>2. CASE page # "decision"
      <3>1. RecatHigher(doc, person)
        BY <1>1, <1>5, <2>1, <2>2 DEF RecatLeft
      <3>2. QED
        BY <1>1, <2>2, <3>1, RecatHigherStays
    <2>3. CASE page = "decision"
      <3>1. Recat!FieldsOf(page) = Recat!Decision
        BY <2>3 DEF Recat!FieldsOf
      <3>2. input["currentCategory"] = person.current /\ kept["category"] = input["category"]
        BY <1>2, <1>3, <2>3, <3>1, RecatDecided
      <3>3. "decision" \in DOMAIN d /\ d["decision"] = kept
        BY <1>1, <2>3 DEF RecatLeft
      <3>4. higher
        <4>1. SUFFICES ASSUME ~higher, "higherSecurityReview" \in DOMAIN d PROVE FALSE
          BY <1>1, <1>5
        <4>2. person.current = "I"
          BY <1>1, <2>3, <3>2, <4>1
        <4>3. "higherSecurityReview" \in DOMAIN doc
          BY <1>1, <2>3, <4>1 DEF RecatLeft
        <4>4. QED
          BY <2>1, <4>2, <4>3, RecatNotHigher DEF RecatHigher
      <3>5. QED
        BY <3>2, <3>3, <3>4 DEF RecatHigher
    <2>4. QED
      BY <2>2, <2>3
  <1>6. QED
    BY <1>1, <1>4, <1>5

\* Whatever is saved of the security page refers to security.
LEMMA RecatAlwaysAsks ==
    ASSUME NEW screen, NEW body \in Recat!Bodies(screen), NEW who,
           RecatShows("securityInput", screen, who)
    PROVE  Recat!Asks("securityInput", Recat!Cleared(Recat!RecatConditions, body))
  <1>1. /\ "securityInputNeeded" \in DOMAIN screen.hidden
        /\ screen.hidden["securityInputNeeded"] = "Yes"
        /\ "securityInputNeeded" \notin screen.texts \cup DOMAIN screen.choices
    BY DEF RecatShows, Recat!SecurityInputScreen, Recat!Screen
  <1>2. "securityInputNeeded" \in DOMAIN body /\ body["securityInputNeeded"] = "Yes"
    BY <1>1, RecatBodies
  <1>3. "securityInputNeeded" \notin Recat!Dropped(Recat!RecatConditions, body)
    BY RecatDropped
  <1>4. QED
    BY <1>2, <1>3, RecatCleared DEF Recat!Asks, Recat!Is, Recat!Sent

LEMMA RecatPageIsSaved ==
    ASSUME RecatInv, NEW t \in DOMAIN tabs, NEW page \in Recat!Pages, page = tabs[t].page,
           NEW body \in Recat!Bodies(tabs[t].screen), NEW input,
           input = Recat!Cleared(Recat!RecatConditions, body), Recat!Accepted(page, input),
           UNCHANGED <<person, message, said, reviews, submitted, returns>>,
           doc' = Recat!After(page, input)[1],
           Recat!Show(t, Recat!Elsewhere({Recat!After(page, input)[2]})),
           status' = IF Recat!Asks(page, input) THEN "SECURITY_MANUAL" ELSE status
    PROVE  RecatInv'
  <1> DEFINE next == Recat!After(page, input)[2]
             tab == Recat!Elsewhere({next})
             kept == RecatKeptOf(Recat!FieldsOf(page), body)
  <1>0. next = Recat!After(page, input)[2] /\ Recat!Show(t, tab)
    OBVIOUS
  <1> HIDE DEF next
  <1>1. /\ RecatLeft(doc', doc, page, kept, HigherReviewPages)
        /\ RecatWholePage(page, kept)
        /\ next \in {"tasklist", "higherSecurityReview", "miniHigherSecurityReview"}
        /\ OneTab /\ ("higherSecurityReview" \in DOMAIN doc' \/ next = "higherSecurityReview")
              => RecatHigher(doc', person)
    BY <1>0, RecatSaves
  <1>2. /\ RecatOffers(tab, doc', status', reviews')
        /\ RecatShows(tab.page, tab.screen, person)
        /\ At(tab, "higherSecurityReview") <=> next = "higherSecurityReview"
    BY <1>1, RecatElsewhere
  <1> HIDE DEF tab, kept
  <1>3. status' \in {status, "SECURITY_MANUAL"}
    OBVIOUS
  <1>4. RecatGrows(doc, status, reviews, doc', status', reviews')
    <2>1. RecatReady(doc, reviews) => RecatReady(doc', reviews')
      BY <1>1, RecatReadyStays
    <2>2. QED
      BY <1>3, <2>1 DEF RecatGrows, Unasked, Recat!Undefined
  <1>5. RecatTabs' /\ RecatScreens' /\ RecatReviews'
    BY <1>0, <1>1, <1>2, <1>4, RecatShown DEF RecatInv
  <1>6. RecatTypes'
    BY <1>3 DEF RecatInv, RecatTypes, Recat!InProgress
  <1>7. RecatDoc'
    <2>1. ASSUME NEW p \in DOMAIN doc' PROVE RecatWholePage(p, doc'[p])
      BY <1>1 DEF RecatInv, RecatDoc, RecatLeft
    <2>2. ~("oasysInput" \in DOMAIN doc' /\ "bcstInput" \in DOMAIN doc')
      BY <1>1 DEF RecatInv, RecatDoc, RecatLeft, RecatSwapped
    <2>3. QED
      BY <2>1, <2>2 DEF RecatDoc
  <1>8. RecatSecurity'
    <2>1. status' \notin Unasked \cup Recat!Referred => reviews'
      BY <1>3 DEF RecatInv, RecatSecurity, Recat!Referred
    <2>2. "securityInput" \in DOMAIN doc' \/ "securityBack" \in DOMAIN doc' => status' \notin Unasked
      <3>1. page = "securityInput" => Recat!Asks(page, input)
        BY RecatAlwaysAsks DEF RecatInv, RecatScreens
      <3>2. page = "securityInput" => status' \notin Unasked
        BY <3>1 DEF Unasked, Recat!Undefined
      <3>3. page = "securityBack" => status \notin Unasked
        BY DEF RecatInv, RecatTabs, RecatOffers, At
      <3>4. page \in {"securityInput", "securityBack"} => status' \notin Unasked
        BY <1>3, <3>2, <3>3 DEF Unasked, Recat!Undefined
      <3>5. QED
        BY <1>1, <1>4, <3>4 DEF RecatInv, RecatSecurity, RecatLeft, RecatGrows
    <2>3. QED
      BY <2>1, <2>2 DEF RecatSecurity
  <1>9. QED
    BY <1>4, <1>5, <1>6, <1>7, <1>8 DEF RecatInv, RecatGrows

LEMMA RecatPostPage ==
    ASSUME RecatInv, NEW t \in DOMAIN tabs, Recat!PostPage(t)
    PROVE  RecatInv'
  <1> DEFINE page == tabs[t].page
  <1>1. page \in Recat!Pages /\ UNCHANGED <<person, message, said, reviews, submitted, returns>>
    BY DEF Recat!PostPage
  <1>2. PICK body \in Recat!Entered(page, tabs[t].screen) :
            LET input == Recat!Cleared(Recat!RecatConditions, body)
            IN  IF ~Recat!Accepted(page, input)
                  THEN Recat!Show(t, Recat!Rendered(page)) /\ UNCHANGED <<doc, status>>
                ELSE IF Recat!CannotRefer(page, input)
                  THEN Recat!Show(t, Recat!Elsewhere({"tasklist"})) /\ UNCHANGED <<doc, status>>
                ELSE /\ doc' = Recat!After(page, input)[1]
                     /\ Recat!Show(t, Recat!Elsewhere({Recat!After(page, input)[2]}))
                     /\ status' = IF Recat!Asks(page, input) THEN "SECURITY_MANUAL" ELSE status
    BY DEF Recat!PostPage
  <1>3. body \in Recat!Bodies(tabs[t].screen)
    BY RecatEntered
  <1> DEFINE input == Recat!Cleared(Recat!RecatConditions, body)
  <1>4. CASE /\ doc' = Recat!After(page, input)[1]
             /\ Recat!Show(t, Recat!Elsewhere({Recat!After(page, input)[2]}))
             /\ status' = IF Recat!Asks(page, input) THEN "SECURITY_MANUAL" ELSE status
             /\ Recat!Accepted(page, input)
    BY <1>1, <1>3, <1>4, RecatPageIsSaved
  <1>5. ASSUME NEW tab, Recat!Show(t, tab), UNCHANGED <<doc, status>>,
               RecatOffers(tab, doc, status, reviews), RecatShows(tab.page, tab.screen, person),
               At(tab, "higherSecurityReview") => At(tabs[t], "higherSecurityReview")
        PROVE  RecatInv'
    <2>1. RecatGrows(doc, status, reviews, doc', status', reviews')
      BY <1>1, <1>5 DEF RecatGrows
    <2>2. RecatTabs' /\ RecatScreens' /\ RecatReviews'
      BY <1>1, <1>5, <2>1, RecatShown DEF RecatInv, RecatReviews
    <2>3. RecatTypes' /\ RecatDoc' /\ RecatSecurity'
      BY <1>1, <1>5 DEF RecatInv, RecatTypes, RecatDoc, RecatSecurity
    <2>4. QED
      BY <1>1, <1>5, <2>2, <2>3 DEF RecatInv
  <1>6. CASE Recat!Show(t, Recat!Rendered(page)) /\ UNCHANGED <<doc, status>>
    <2> DEFINE tab == Recat!Rendered(page)
    <2>1. tab.page = page /\ tab.links = {"tasklist"} /\ tab.screen = Recat!ScreenOf(page)
      BY DEF Recat!Rendered, Recat!Tab
    <2>0. Recat!Show(t, tab)
      BY <1>6
    <2> HIDE DEF tab
    <2>2. RecatShows(tab.page, tab.screen, person)
      BY <1>1, <2>1, RecatScreenOf DEF Recat!Asking
    <2>3. RecatOffers(tab, doc, status, reviews)
      BY <1>1, <2>1 DEF RecatInv, RecatTabs, RecatOffers, At, Recat!Pages
    <2>4. At(tab, "higherSecurityReview") => At(tabs[t], "higherSecurityReview")
      BY <2>1 DEF At
    <2>5. QED
      BY <1>5, <1>6, <2>0, <2>2, <2>3, <2>4
  <1>7. CASE Recat!Show(t, Recat!Elsewhere({"tasklist"})) /\ UNCHANGED <<doc, status>>
    <2> DEFINE tab == Recat!Elsewhere({"tasklist"})
    <2>1. /\ RecatOffers(tab, doc, status, reviews)
          /\ RecatShows(tab.page, tab.screen, person)
          /\ ~At(tab, "higherSecurityReview")
      BY RecatElsewhere
    <2>2. Recat!Show(t, tab)
      BY <1>7
    <2> HIDE DEF tab
    <2>3. QED
      BY <1>5, <1>7, <2>1, <2>2
  <1>8. QED
    BY <1>2, <1>4, <1>6, <1>7

LEMMA RecatNext ==
    ASSUME RecatInv, Recat!Next
    PROVE  RecatInv'
  BY RecatOpenTasklist, RecatOpenPage, RecatPostPage, RecatPostPrevious, RecatOpenReview,
     RecatPostReview, RecatReadMessage, RecatSecurityReview, RecatSendBack DEF Recat!Next

LEMMA RecatStutters ==
    ASSUME RecatInv, UNCHANGED pageVars
    PROVE  RecatInv'
  BY DEF pageVars, RecatInv, RecatTypes, RecatDoc, RecatSecurity, RecatTabs, RecatScreens,
         RecatReviews, RecatReady, OneTab

\* What the invariant of the recategorisations implies.
LEMMA RecatImplies ==
    ASSUME RecatInv
    PROVE  /\ Recat!TypeOK /\ Recat!RecatWhole /\ Recat!SecurityReviewed /\ Recat!RecatHidden
           /\ OneTab => Recat!NoNeedlessReview
  <1>1. Recat!TypeOK
    BY DEF RecatInv, RecatTypes, RecatDoc, RecatWholePage, Recat!TypeOK
  <1>2. \A p \in DOMAIN doc : Recat!Complete(p)
    BY DEF RecatInv, RecatDoc, RecatWholePage, Recat!Complete
  <1>3. Recat!RecatWhole
    BY <1>2 DEF RecatInv, RecatDoc, RecatReady, Recat!RecatWhole, Recat!Complete
  <1>4. Recat!SecurityReviewed
    BY DEF RecatInv, RecatReady, Recat!SecurityReviewed
  <1>5. Recat!RecatHidden
    <2>1. SUFFICES ASSUME NEW p \in DOMAIN doc, NEW f \in DOMAIN doc[p],
                          Recat!FieldsOf(p)[f][1] = "if",
                          <<p, f>> # <<"riskAssessment", "otherRelevantText">>
                   PROVE  Recat!Is(doc[p], Recat!FieldsOf(p)[f][2], Recat!FieldsOf(p)[f][3])
      BY DEF Recat!RecatHidden
    <2>2. CASE p = "riskAssessment"
      <3>1. f \in DOMAIN Recat!RiskAssessment /\ Recat!RiskAssessment[f][1] = "if"
        BY <2>1, <2>2 DEF RecatInv, RecatDoc, RecatWholePage, Recat!FieldsOf
      <3>2. f = "otherRelevantText"
        BY <3>1 DEF Recat!RiskAssessment, Recat!Required, Recat!RequiredIf
      <3> QED
        BY <2>1, <2>2, <3>2
    <2>3. CASE p # "riskAssessment"
      BY <2>1, <2>3 DEF RecatInv, RecatDoc, RecatWholePage
    <2> QED
      BY <2>2, <2>3
  <1>6. OneTab => Recat!NoNeedlessReview
    BY <1>2 DEF RecatInv, RecatReviews, RecatHigher, Recat!NoNeedlessReview
  <1>7. QED
    BY <1>1, <1>3, <1>4, <1>5, <1>6

-----------------------------------------------------------------------------
(* The invariant of the first categorisations *)

\* The prisoner stays in one estate; a life sentence stays one.
Settled == "transfer" \notin Changes
Lasting == "life" \notin Changes

\* Pages of the document.  A woman's page of what security answered asks
\* nothing, and the category has rules of its own.
InitialWholePage(p, answers) ==
    /\ p \in Initial!Pages \cup {"provisionalCategory"}
    /\ DOMAIN answers \subseteq DOMAIN Initial!FieldsOf(p)
    /\ p \notin {"securityBack", "provisionalCategory"} => Initial!Valid(Initial!FieldsOf(p), answers)
    /\ \A f \in DOMAIN answers :
          Initial!FieldsOf(p)[f][1] = "if" =>
              Initial!Is(answers, Initial!FieldsOf(p)[f][2], Initial!FieldsOf(p)[f][3])

\* Initial!Complete, Initial!Whole and Initial!Suggested of a document d.
CompleteIn(d, page) == page \in DOMAIN d /\ Initial!Valid(Initial!FieldsOf(page), d[page])
SaysIn(d, page, field, answer) == page \in DOMAIN d /\ Initial!Is(d[page], field, answer)
WholeIn(d, women) ==
    /\ \A page \in Initial!CommonPages : CompleteIn(d, page)
    /\ CompleteIn(d, Initial!EstatePage(women))
    /\ \/ CompleteIn(d, "securityInput") /\ ~SaysIn(d, "securityInput", "securityInputNeeded", "Yes")
       \/ IF women THEN "securityBack" \in DOMAIN d ELSE CompleteIn(d, "securityBack")
SuggestedIn(d, facts, young) ==
    IF young THEN "I"
    ELSE IF \/ "risk" \in facts \/ "life" \in facts
            \/ SaysIn(d, "securityBack", "catB", "Yes")
            \/ SaysIn(d, "escapeRating", "escapeCatB", "Yes")
            \/ SaysIn(d, "extremismRating", "previousTerrorismOffences", "Yes")
            \/ SaysIn(d, "furtherCharges", "furtherChargesCatB", "Yes")
         THEN "B" ELSE "C"

\* The screen of a page that asks, shown of `who'.
InitialShows(page, screen, who) ==
    /\ page \in Initial!Pages => \E w \in BOOLEAN, y \in BOOLEAN, a \in BOOLEAN :
          screen = Initial!ScreenOf(page, w, y, a) /\ (Settled => w = who.women)
    /\ page = "provisionalCategory" => \E cat \in {"I", "B", "C"} :
          screen = Initial!ProvisionalScreen(cat)

\* A tab on the way from the review page to the submission, in the men's estate
\* by way of the suggested category.
Deciding(tab) ==
    tab.page \in {"continue", "provisionalCategory"} \/ "provisionalCategory" \in tab.links
Reviewing(tab) == tab.page = "review" \/ Deciding(tab)

\* What one tab offers and shows when the document is d.
InitialTab(tab, d, who, facts) ==
    /\ "review" \in tab.links \/ Reviewing(tab) => WholeIn(d, who.women)
    /\ Deciding(tab) => ~who.women
    /\ Lasting /\ Reviewing(tab) => \A fact \in {"risk", "life"} : fact \in facts <=> fact \in tab.seen
    /\ tab.page = "provisionalCategory" =>
          tab.screen = Initial!ProvisionalScreen(SuggestedIn(d, facts, who.young))

InitialSubmission(sub, d, st, who) == sub # Initial!NotYet =>
    /\ st = "AWAITING_APPROVAL"
    /\ WholeIn(d, sub.women)
    /\ Lasting /\ ~sub.women => sub.cat = SuggestedIn(d, sub.seen, who.young)

Idle(tab) == tab.page = "elsewhere" /\ tab.links = {}

InitialTypes ==
    /\ person \in [women : BOOLEAN, young : BOOLEAN]
    /\ live \subseteq Initial!Facts /\ profile \subseteq Initial!Facts
    /\ status \in Initial!InProgress \cup {Initial!Undefined}
    /\ message \in {"none", "unread", "read"}
    /\ asked \in BOOLEAN /\ returns \in 0 .. MaxReturns

InitialDoc == \A p \in DOMAIN doc : InitialWholePage(p, doc[p])
InitialScreens == \A t \in DOMAIN tabs : InitialShows(tabs[t].page, tabs[t].screen, person)
InitialFacts == Lasting => ("life" \in profile => "life" \in live)
InitialOneTab == Settled /\ OneTab =>
    /\ \A t \in DOMAIN tabs : InitialTab(tabs[t], doc, person, profile)
    /\ InitialSubmission(submitted, doc, status, person)
    /\ submitted # Initial!NotYet => \A t \in DOMAIN tabs : Idle(tabs[t])

InitialInv == InitialTypes /\ InitialDoc /\ InitialScreens /\ InitialFacts /\ InitialOneTab

-----------------------------------------------------------------------------
(* Bodies and documents, as in a recategorisation *)

\* The pages of both kinds are filled in alike.
LEMMA SameBodies ==
    ASSUME NEW screen PROVE Initial!Bodies(screen) = Recat!Bodies(screen)
  BY DEF Initial!Bodies, Initial!Beside, Initial!Filled, Initial!Texts, Initial!Range,
         Recat!Bodies, Recat!Beside, Recat!Filled, Recat!Texts, Recat!Range

\* What is kept of a body, in one.
InitialKeptOf(fields, body) ==
    Initial!Kept(fields, Initial!Cleared(Initial!InitialConditions, body))

LEMMA InitialKeptBody ==
    ASSUME NEW fields, NEW body
    PROVE  /\ \A f : f \in DOMAIN InitialKeptOf(fields, body) <=>
                 /\ f \in DOMAIN body /\ f \in DOMAIN fields
                 /\ f \notin Initial!Dropped(Initial!InitialConditions, body)
           /\ \A f \in DOMAIN InitialKeptOf(fields, body) : InitialKeptOf(fields, body)[f] = body[f]
  <1> DEFINE gone == Initial!Dropped(Initial!InitialConditions, body)
             input == Initial!Cleared(Initial!InitialConditions, body)
  <1>1. /\ \A f : f \in DOMAIN input <=> f \in DOMAIN body /\ f \notin gone
        /\ \A f \in DOMAIN input : input[f] = body[f]
    BY DEF Initial!Cleared, Initial!Keep, Initial!Restrict
  <1> HIDE DEF input
  <1>2. /\ \A f : f \in DOMAIN Initial!Kept(fields, input) <=> f \in DOMAIN input /\ f \in DOMAIN fields
        /\ \A f \in DOMAIN Initial!Kept(fields, input) : Initial!Kept(fields, input)[f] = input[f]
    BY DEF Initial!Kept, Initial!Keep, Initial!Restrict
  <1>3. InitialKeptOf(fields, body) = Initial!Kept(fields, input)
    BY DEF InitialKeptOf, input
  <1>4. QED
    BY <1>1, <1>2, <1>3

LEMMA InitialBodies ==
    ASSUME NEW screen, NEW body \in Initial!Bodies(screen), NEW q, q # "_csrf"
    PROVE  /\ q \notin screen.texts \cup DOMAIN screen.hidden /\ q \in DOMAIN body =>
                 q \in DOMAIN screen.choices /\ body[q] \in screen.choices[q]
           /\ q \in DOMAIN screen.hidden /\ q \notin screen.texts \cup DOMAIN screen.choices =>
                 q \in DOMAIN body /\ body[q] = screen.hidden[q]
  <1>1. body \in Recat!Bodies(screen)
    BY SameBodies
  <1>2. QED
    BY <1>1, RecatBodies

LEMMA InitialEntered ==
    ASSUME NEW page, NEW screen \in Initial!AllScreens
    PROVE  Initial!Entered(page, screen) \subseteq Initial!Bodies(screen)
  BY DEF Initial!Entered, Initial!BodiesOf

LEMMA InitialScreenIn ==
    ASSUME NEW page, NEW screen, NEW who, InitialShows(page, screen, who),
           page \in Initial!Pages \/ page = "provisionalCategory"
    PROVE  screen \in Initial!AllScreens
  BY DEF InitialShows, Initial!AllScreens

\* The fields that are asked for by the answer `yes' to q, page by page.
InitialText(p, f, q, yes) ==
    \/ p = "offendingHistory" /\ q = "previousConvictions" /\ f = "previousConvictionsText" /\ yes = "Yes"
    \/ p = "furtherCharges" /\ q = "furtherCharges" /\ f = "furtherChargesText" /\ yes = "Yes"
    \/ p = "furtherCharges" /\ q = "furtherCharges" /\ f = "furtherChargesCatB" /\ yes = "Yes"
    \/ p = "securityInput" /\ q = "securityInputNeeded" /\ f = "securityInputNeededText" /\ yes = "Yes"
    \/ p = "violenceRating" /\ q = "highRiskOfViolence" /\ f = "highRiskOfViolenceText" /\ yes = "Yes"
    \/ p = "violenceRating" /\ q = "seriousThreat" /\ f = "seriousThreatText" /\ yes = "Yes"
    \/ p = "extremismRating" /\ q = "previousTerrorismOffences" /\ f = "previousTerrorismOffencesText" /\ yes = "Yes"
    \/ p = "escapeRating" /\ q = "escapeCatB" /\ f = "escapeCatBText" /\ yes = "Yes"
    \/ p = "escapeRating" /\ q = "escapeOtherEvidence" /\ f = "escapeOtherEvidenceText" /\ yes = "Yes"
    \/ p = "provisionalCategory" /\ q = "categoryAppropriate" /\ f = "overriddenCategory" /\ yes = "No"

LEMMA InitialRules ==
    ASSUME NEW p \in Initial!Pages \cup {"provisionalCategory"}, NEW f \in DOMAIN Initial!FieldsOf(p),
           Initial!FieldsOf(p)[f][1] = "if"
    PROVE  InitialText(p, f, Initial!FieldsOf(p)[f][2], Initial!FieldsOf(p)[f][3])
  <1> USE DEF Initial!FieldsOf, Initial!Required, Initial!RequiredIf, InitialText
  <1>1. CASE p = "offendingHistory"
    BY <1>1 DEF Initial!OffendingHistory
  <1>2. CASE p = "furtherCharges"
    BY <1>2 DEF Initial!FurtherCharges
  <1>3. CASE p = "securityInput"
    BY <1>3 DEF Initial!SecurityInput
  <1>4. CASE p = "securityBack"
    BY <1>4 DEF Initial!SecurityBack
  <1>5. CASE p = "violenceRating"
    BY <1>5 DEF Initial!ViolenceRating
  <1>6. CASE p = "extremismRating"
    BY <1>6 DEF Initial!ExtremismRating
  <1>7. CASE p = "escapeRating"
    BY <1>7 DEF Initial!EscapeRating
  <1>8. CASE p = "decision"
    BY <1>8 DEF Initial!Decision
  <1>9. CASE p = "provisionalCategory"
    BY <1>9 DEF Initial!ProvisionalCategory, Initial!Optional, Initial!RequiredWithout
  <1>10. QED
    BY <1>1, <1>2, <1>3, <1>4, <1>5, <1>6, <1>7, <1>8, <1>9 DEF Initial!Pages

OtherThan(yes) == IF yes = "Yes" THEN "No" ELSE "Yes"

\* Such a question has to be answered, and its other answer drops the text.
LEMMA InitialQuestions ==
    ASSUME NEW p, NEW f, NEW q, NEW yes, InitialText(p, f, q, yes)
    PROVE  /\ q \in DOMAIN Initial!FieldsOf(p) /\ Initial!FieldsOf(p)[q] = Initial!Required
           /\ \E texts : f \in texts /\ <<q, OtherThan(yes), texts>> \in Initial!InitialConditions
           /\ yes \in {"Yes", "No"}
  <1>1. q \in DOMAIN Initial!FieldsOf(p) /\ Initial!FieldsOf(p)[q] = Initial!Required
    <2> USE DEF Initial!FieldsOf, InitialText
    <2>1. CASE p = "offendingHistory"
      BY <2>1 DEF Initial!OffendingHistory
    <2>2. CASE p = "furtherCharges"
      BY <2>2 DEF Initial!FurtherCharges
    <2>3. CASE p = "securityInput"
      BY <2>3 DEF Initial!SecurityInput
    <2>4. CASE p = "violenceRating"
      BY <2>4 DEF Initial!ViolenceRating
    <2>5. CASE p = "extremismRating"
      BY <2>5 DEF Initial!ExtremismRating
    <2>6. CASE p = "escapeRating"
      BY <2>6 DEF Initial!EscapeRating
    <2>7. CASE p = "provisionalCategory"
      BY <2>7 DEF Initial!ProvisionalCategory
    <2>8. QED
      BY <2>1, <2>2, <2>3, <2>4, <2>5, <2>6, <2>7
  <1>2. PICK texts \in {{"furtherChargesCatB", "furtherChargesText"},
                        {"overriddenCategory", "overriddenCategoryText"}, {f}} :
            f \in texts /\ <<q, OtherThan(yes), texts>> \in Initial!InitialConditions
    BY DEF InitialText, OtherThan, Initial!InitialConditions, Initial!Irrelevant
  <1>3. QED
    BY <1>1, <1>2 DEF InitialText

LEMMA InitialYesNo ==
    ASSUME NEW p, NEW f, NEW q, NEW yes, InitialText(p, f, q, yes), NEW screen, NEW who,
           InitialShows(p, screen, who), NEW body \in Initial!Bodies(screen), q \in DOMAIN body
    PROVE  body[q] = "Yes" \/ body[q] = "No"
  <1> USE DEF Initial!Screen, Initial!YesNo, Initial!NoHidden
  <1>1. /\ q # "_csrf" /\ q \notin screen.texts
        /\ \/ q \notin DOMAIN screen.hidden /\ screen.choices[q] = {"Yes", "No"}
           \/ q \in DOMAIN screen.hidden /\ q \notin DOMAIN screen.choices /\ screen.hidden[q] = "No"
    <2>1. CASE p = "provisionalCategory"
      <3>1. PICK cat \in {"I", "B", "C"} : screen = Initial!ProvisionalScreen(cat)
        BY <2>1 DEF InitialShows
      <3>2. q = "categoryAppropriate"
        BY <2>1 DEF InitialText
      <3>3. QED
        BY <3>1, <3>2 DEF Initial!ProvisionalScreen
    <2>2. CASE p # "provisionalCategory"
      <3>1. PICK w \in BOOLEAN, y \in BOOLEAN, a \in BOOLEAN : screen = Initial!ScreenOf(p, w, y, a)
        BY <2>2 DEF InitialShows, InitialText, Initial!Pages
      <3> USE <3>1 DEF Initial!ScreenOf, InitialText
      <3>2. CASE p = "offendingHistory"
        BY <3>2 DEF Initial!OffendingHistoryScreen
      <3>3. CASE p = "furtherCharges"
        BY <3>3 DEF Initial!FurtherChargesScreen
      <3>4. CASE p = "securityInput"
        BY <3>4 DEF Initial!SecurityInputScreen
      <3>5. CASE p = "violenceRating"
        BY <3>5 DEF Initial!ViolenceScreen
      <3>6. CASE p = "extremismRating"
        BY <3>6 DEF Initial!ExtremismScreen
      <3>7. CASE p = "escapeRating"
        <4>1. CASE a /\ ~w
          BY <3>7, <4>1 DEF Initial!EscapeScreen
        <4>2. CASE ~(a /\ ~w)
          BY <3>7, <4>2 DEF Initial!EscapeScreen
        <4>3. QED
          BY <4>1, <4>2
      <3>8. QED
        BY <2>2, <3>2, <3>3, <3>4, <3>5, <3>6, <3>7
    <2>3. QED
      BY <2>1, <2>2
  <1>2. QED
    BY <1>1, InitialBodies

\* An answer drops the texts that it makes irrelevant.
LEMMA InitialDrops ==
    ASSUME NEW body, NEW q, NEW no, NEW texts, NEW text \in texts, Initial!Is(body, q, no),
           <<q, no, texts>> \in Initial!InitialConditions
    PROVE  text \in Initial!Dropped(Initial!InitialConditions, body)
  <1> DEFINE c == <<q, no, texts>>
  <1>1. c[1] = q /\ c[2] = no /\ c[3] = texts
    OBVIOUS
  <1>2. c \in Initial!InitialConditions
    OBVIOUS
  <1> HIDE DEF c
  <1>3. c \in {d \in Initial!InitialConditions : Initial!Is(body, d[1], d[2])}
    BY <1>1, <1>2
  <1>4. QED
    BY <1>1, <1>3 DEF Initial!Dropped

\* What is saved of a page is whole.
LEMMA InitialPageSaved ==
    ASSUME NEW p \in Initial!Pages \cup {"provisionalCategory"}, NEW screen, NEW who,
           InitialShows(p, screen, who), NEW body \in Initial!Bodies(screen),
           p = "securityBack" \/ Initial!Valid(Initial!FieldsOf(p), InitialKeptOf(Initial!FieldsOf(p), body))
    PROVE  InitialWholePage(p, InitialKeptOf(Initial!FieldsOf(p), body))
  <1> DEFINE fields == Initial!FieldsOf(p)
             kept == InitialKeptOf(fields, body)
  <1>1. DOMAIN kept \subseteq DOMAIN fields
    BY InitialKeptBody
  <1>2. ASSUME NEW f \in DOMAIN kept, fields[f][1] = "if"
        PROVE  Initial!Is(kept, fields[f][2], fields[f][3])
    <2> DEFINE q == fields[f][2]
               yes == fields[f][3]
    <2>1. InitialText(p, f, q, yes)
      BY <1>1, <1>2, InitialRules
    <2>2. /\ q \in DOMAIN fields /\ fields[q] = Initial!Required
          /\ yes \in {"Yes", "No"}
      BY <2>1, InitialQuestions
    <2>3. PICK texts : f \in texts /\ <<q, OtherThan(yes), texts>> \in Initial!InitialConditions
      BY <2>1, InitialQuestions
    <2>4. q \in DOMAIN kept
      <3>1. p # "securityBack"
        BY <2>1 DEF InitialText
      <3>2. Initial!FieldValid(fields[q], kept, q)
        BY <2>2, <3>1 DEF Initial!Valid
      <3>3. QED
        <4>1. Initial!Given(kept, q)
          BY <2>2, <3>2 DEF Initial!FieldValid, Initial!Required
        <4>2. QED
          BY <4>1 DEF Initial!Given, Initial!Sent
    <2>5. q \in DOMAIN body /\ kept[q] = body[q]
      BY <2>4, InitialKeptBody
    <2>6. body[q] = "Yes" \/ body[q] = "No"
      BY <2>1, <2>5, InitialYesNo
    <2>7. f \notin Initial!Dropped(Initial!InitialConditions, body)
      BY <1>2, InitialKeptBody
    <2> HIDE DEF q, yes, kept, fields
    <2>8. ~Initial!Is(body, q, OtherThan(yes))
      BY <2>3, <2>7, InitialDrops
    <2>9. body[q] = yes
      BY <2>2, <2>5, <2>6, <2>8 DEF OtherThan, Initial!Is, Initial!Sent
    <2>10. QED
      BY <2>4, <2>5, <2>9 DEF Initial!Is, Initial!Sent, q, yes
  <1>3. QED
    BY <1>1, <1>2 DEF InitialWholePage

LEMMA InitialStored ==
    ASSUME NEW d, NEW page, NEW answers
    PROVE  /\ \A p : p \in DOMAIN Initial!Stored(d, page, answers) <=> p \in DOMAIN d \/ p = page
           /\ Initial!Stored(d, page, answers)[page] = answers
           /\ \A p \in DOMAIN d : p # page => Initial!Stored(d, page, answers)[p] = d[p]
  BY DEF Initial!Stored

\* The page of the category is no page that the category follows from.
LEMMA InitialDecided ==
    ASSUME NEW d, NEW answers, NEW e, e = Initial!Stored(d, "provisionalCategory", answers)
    PROVE  /\ \A women \in BOOLEAN : WholeIn(d, women) => WholeIn(e, women)
           /\ \A facts, young : SuggestedIn(e, facts, young) = SuggestedIn(d, facts, young)
  <1>1. \A p : p # "provisionalCategory" =>
            /\ p \in DOMAIN e <=> p \in DOMAIN d
            /\ p \in DOMAIN d => e[p] = d[p]
    BY InitialStored
  <1>2. \A p : p # "provisionalCategory" => (CompleteIn(d, p) <=> CompleteIn(e, p))
    BY <1>1 DEF CompleteIn
  <1>3. \A p, f, a : p # "provisionalCategory" => (SaysIn(d, p, f, a) <=> SaysIn(e, p, f, a))
    BY <1>1 DEF SaysIn
  <1>4. ASSUME NEW women \in BOOLEAN, WholeIn(d, women) PROVE WholeIn(e, women)
    <2>1. \A p : p \in Initial!CommonPages \/ p = Initial!EstatePage(women) => p # "provisionalCategory"
      BY DEF Initial!CommonPages, Initial!EstatePage
    <2>2. QED
      BY <1>1, <1>2, <1>3, <1>4, <2>1 DEF WholeIn
  <1>5. ASSUME NEW facts, NEW young PROVE SuggestedIn(e, facts, young) = SuggestedIn(d, facts, young)
    BY <1>3 DEF SuggestedIn
  <1>6. QED
    BY <1>4, <1>5

LEMMA SameSuggestion ==
    ASSUME NEW d, NEW A, NEW B, NEW young,
           \A fact \in {"risk", "life"} : fact \in A <=> fact \in B
    PROVE  SuggestedIn(d, A, young) = SuggestedIn(d, B, young)
  BY DEF SuggestedIn

LEMMA InitialSuggested ==
    ASSUME NEW facts, NEW young
    PROVE  /\ Initial!Suggested(facts, young) = SuggestedIn(doc, facts, young)
           /\ SuggestedIn(doc, facts, young) \in {"I", "B", "C"}
  <1>1. (facts \cap {"risk", "life"} # {}) <=> ("risk" \in facts \/ "life" \in facts)
    OBVIOUS
  <1>2. QED
    BY <1>1 DEF Initial!Suggested, SuggestedIn, SaysIn, Initial!Says

LEMMA InitialWhole ==
    ASSUME NEW women
    PROVE  Initial!Whole(women) <=> WholeIn(doc, women)
  BY DEF Initial!Whole, WholeIn, SaysIn, CompleteIn, Initial!Says, Initial!Complete

-----------------------------------------------------------------------------
(* The steps of a first categorisation *)

\* One tab shows something else.
LEMMA InitialShown ==
    ASSUME NEW t \in DOMAIN tabs, NEW tab, Initial!Show(t, tab), person' = person, InitialScreens,
           InitialShows(tab.page, tab.screen, person),
           Settled /\ OneTab =>
               /\ InitialTab(tab, doc', person, profile')
               /\ InitialSubmission(submitted', doc', status', person)
               /\ submitted' # Initial!NotYet => Idle(tab)
    PROVE  InitialScreens' /\ InitialOneTab'
  <1>1. DOMAIN tabs' = DOMAIN tabs /\ tabs'[t] = tab
    BY DEF Initial!Show
  <1>2. \A u \in DOMAIN tabs : u # t => tabs'[u] = tabs[u]
    BY DEF Initial!Show
  <1>3. InitialScreens'
    <2>1. ASSUME NEW u \in DOMAIN tabs
          PROVE  InitialShows(tabs'[u].page, tabs'[u].screen, person')
      BY <1>1, <1>2 DEF InitialScreens
    <2>2. QED
      BY <1>1, <2>1 DEF InitialScreens
  <1>4. InitialOneTab'
    <2>1. SUFFICES ASSUME Settled, OneTab'
                   PROVE  /\ \A u \in DOMAIN tabs' : InitialTab(tabs'[u], doc', person', profile')
                          /\ InitialSubmission(submitted', doc', status', person')
                          /\ submitted' # Initial!NotYet => \A u \in DOMAIN tabs' : Idle(tabs'[u])
      BY DEF InitialOneTab, Settled, Initial!NotYet
    <2>2. OneTab /\ \A u \in DOMAIN tabs' : u = t
      BY <1>1, <2>1 DEF OneTab
    <2>3. QED
      BY <1>1, <2>1, <2>2
  <1>5. QED
    BY <1>3, <1>4

\* The only tab is used before the submission alone.
LEMMA InitialUsed ==
    ASSUME InitialInv, NEW t \in DOMAIN tabs, ~Idle(tabs[t]), NEW tab, Initial!Show(t, tab),
           person' = person, submitted' = submitted, InitialShows(tab.page, tab.screen, person),
           Settled /\ OneTab => InitialTab(tab, doc', person, profile')
    PROVE  InitialScreens' /\ InitialOneTab'
  <1>1. Settled /\ OneTab => submitted' = Initial!NotYet
    BY DEF InitialInv, InitialOneTab
  <1>2. Settled /\ OneTab =>
            /\ InitialSubmission(submitted', doc', status', person)
            /\ submitted' # Initial!NotYet => Idle(tab)
    BY <1>1 DEF InitialSubmission
  <1>3. QED
    BY <1>2, InitialShown DEF InitialInv

LEMMA InitialElsewhere ==
    ASSUME NEW links, NEW d, NEW who, NEW facts,
           "review" \notin links, "provisionalCategory" \notin links
    PROVE  LET tab == Initial!Elsewhere(links)
           IN  /\ InitialShows(tab.page, tab.screen, who)
               /\ InitialTab(tab, d, who, facts)
               /\ links = {} => Idle(tab)
  BY DEF Initial!Elsewhere, Initial!Tab, InitialShows, InitialTab, Initial!Pages, Reviewing, Deciding, Idle

LEMMA InitialRendered ==
    ASSUME NEW page \in Initial!Pages, person \in [women : BOOLEAN, young : BOOLEAN],
           NEW d, NEW facts
    PROVE  LET tab == Initial!Rendered(page)
           IN  /\ InitialShows(tab.page, tab.screen, person)
               /\ InitialTab(tab, d, person, facts)
  <1> DEFINE tab == Initial!Rendered(page)
  <1>1. /\ tab.page = page /\ tab.links = {"tasklist"}
        /\ tab.screen = Initial!ScreenOf(page, person.women, person.young, "alert" \in live)
    BY DEF Initial!Rendered, Initial!Tab
  <1> HIDE DEF tab
  <1>2. person.women \in BOOLEAN /\ person.young \in BOOLEAN /\ ("alert" \in live) \in BOOLEAN
    OBVIOUS
  <1>3. page # "provisionalCategory"
    BY DEF Initial!Pages
  <1>4. InitialShows(tab.page, tab.screen, person)
    BY <1>1, <1>2, <1>3 DEF InitialShows
  <1>5. InitialTab(tab, d, person, facts)
    BY <1>1 DEF InitialTab, Reviewing, Deciding, Initial!Pages
  <1>6. QED
    BY <1>4, <1>5 DEF tab

LEMMA InitialInitially ==
    ASSUME Initial!Init PROVE InitialInv
  <1> USE DEF Initial!Init
  <1>1. PICK open \in SUBSET Tabs : tabs = [t \in open |-> Initial!Elsewhere({"tasklist"})]
    OBVIOUS
  <1>2. \A t \in DOMAIN tabs : tabs[t] = Initial!Elsewhere({"tasklist"})
    BY <1>1
  <1>3. DOMAIN doc = {}
    BY DEF Initial!NoPages
  <1>4. InitialTypes
    <2>1. returns \in 0 .. MaxReturns
      BY MaxReturnsAssumption
    <2>2. QED
      BY <2>1 DEF InitialTypes
  <1>5. InitialDoc /\ InitialFacts
    BY <1>3 DEF InitialDoc, InitialFacts
  <1>6. \A t \in DOMAIN tabs : /\ InitialShows(tabs[t].page, tabs[t].screen, person)
                               /\ InitialTab(tabs[t], doc, person, profile)
    BY <1>2, InitialElsewhere
  <1>7. InitialScreens /\ InitialOneTab
    BY <1>6 DEF InitialScreens, InitialOneTab, InitialSubmission
  <1>8. QED
    BY <1>4, <1>5, <1>7 DEF InitialInv

\* The tasklist leads to the review page when the form is whole.
LEMMA InitialTasklist ==
    ASSUME InitialDoc, NEW women \in BOOLEAN, NEW st, "review" \in Initial!TasklistLinks(women, st)
    PROVE  WholeIn(doc, women)
  <1>1. Initial!AllSectionsCompleted(women, st)
    BY DEF Initial!TasklistLinks, Initial!CommonPages, Initial!EstatePage
  <1>2. \A p \in DOMAIN doc : p \notin {"securityBack", "provisionalCategory"} => CompleteIn(doc, p)
    BY DEF InitialDoc, InitialWholePage, CompleteIn
  <1>3. \A page \in Initial!CommonPages : CompleteIn(doc, page)
    BY <1>1, <1>2 DEF Initial!AllSectionsCompleted, Initial!Saved, Initial!CommonPages
  <1>4. CompleteIn(doc, Initial!EstatePage(women))
    BY <1>1, <1>2 DEF Initial!AllSectionsCompleted, Initial!Saved, Initial!EstatePage
  <1>5. Initial!SecurityInputCompleted(women)
    BY <1>1 DEF Initial!AllSectionsCompleted
  <1>6. CASE Initial!Says("securityInput", "securityInputNeeded", "No")
    BY <1>2, <1>3, <1>4, <1>6 DEF WholeIn, Initial!Says, SaysIn, Initial!Is
  <1>7. CASE women /\ "securityBack" \in DOMAIN doc
    BY <1>3, <1>4, <1>7 DEF WholeIn
  <1>8. CASE Initial!Saved("securityBack", "catB")
    <2>1. "securityBack" \in DOMAIN doc /\ Initial!Given(doc["securityBack"], "catB")
      BY <1>8 DEF Initial!Saved
    <2>2. /\ Initial!FieldsOf("securityBack") = Initial!SecurityBack
          /\ \A f \in DOMAIN Initial!SecurityBack : f = "catB" /\ Initial!SecurityBack[f] = Initial!Required
      BY DEF Initial!FieldsOf, Initial!SecurityBack
    <2>3. CompleteIn(doc, "securityBack")
      BY <2>1, <2>2 DEF CompleteIn, Initial!Valid, Initial!FieldValid, Initial!Required
    <2>4. QED
      BY <1>3, <1>4, <2>1, <2>3 DEF WholeIn
  <1>9. QED
    BY <1>5, <1>6, <1>7, <1>8 DEF Initial!SecurityInputCompleted

LEMMA InitialOpenTasklist ==
    ASSUME InitialInv, NEW t \in DOMAIN tabs, Initial!OpenTasklist(t)
    PROVE  InitialInv'
  <1> DEFINE tab == Initial!Tab("tasklist", Initial!TasklistLinks(person.women, status'),
                                Initial!NoScreen, "none", {})
  <1>0. /\ UNCHANGED <<person, live, doc, message, asked, submitted, returns>>
        /\ Initial!Show(t, tab) /\ "tasklist" \in tabs[t].links
        /\ status' \in {status, "SECURITY_AUTO", "STARTED"}
        /\ profile' \in {profile, live \cap {"crime"}}
    BY DEF Initial!OpenTasklist
  <1>1. tab.page = "tasklist" /\ tab.links = Initial!TasklistLinks(person.women, status')
    BY DEF Initial!Tab
  <1> HIDE DEF tab
  <1>2. InitialShows(tab.page, tab.screen, person)
    BY <1>1 DEF InitialShows, Initial!Pages
  <1>3. InitialTab(tab, doc', person, profile')
    <2>1. "provisionalCategory" \notin tab.links
      BY <1>1 DEF Initial!TasklistLinks, Initial!CommonPages, Initial!EstatePage
    <2>2. "review" \in tab.links => WholeIn(doc, person.women)
      <3>1. person.women \in BOOLEAN
        BY DEF InitialInv, InitialTypes
      <3>2. QED
        BY <1>1, <3>1, InitialTasklist DEF InitialInv
    <2>3. QED
      BY <1>0, <1>1, <2>1, <2>2 DEF InitialTab, Reviewing, Deciding
  <1>4. ~Idle(tabs[t])
    BY <1>0 DEF Idle
  <1>5. InitialScreens' /\ InitialOneTab'
    BY <1>0, <1>2, <1>3, <1>4, InitialUsed
  <1>6. InitialTypes'
    BY <1>0 DEF InitialInv, InitialTypes, Initial!InProgress
  <1>7. InitialDoc' /\ InitialFacts'
    BY <1>0 DEF InitialInv, InitialDoc, InitialFacts, Lasting
  <1>8. QED
    BY <1>5, <1>6, <1>7 DEF InitialInv

LEMMA InitialOpenPage ==
    ASSUME InitialInv, NEW t \in DOMAIN tabs, NEW page \in Initial!Pages, Initial!OpenPage(t, page)
    PROVE  InitialInv'
  <1>0. /\ UNCHANGED <<person, live, profile, doc, status, message, asked, submitted, returns>>
        /\ page \in tabs[t].links
    BY DEF Initial!OpenPage
  <1>1. PICK tab \in {Initial!Elsewhere({"tasklist"}), Initial!Rendered(page)} : Initial!Show(t, tab)
    BY DEF Initial!OpenPage, Initial!OnTasklist
  <1>2. person \in [women : BOOLEAN, young : BOOLEAN]
    BY DEF InitialInv, InitialTypes
  <1>3. InitialShows(tab.page, tab.screen, person) /\ InitialTab(tab, doc', person, profile')
    <2>1. CASE tab = Initial!Elsewhere({"tasklist"})
      BY <2>1, InitialElsewhere
    <2>2. CASE tab = Initial!Rendered(page)
      BY <1>2, <2>2, InitialRendered
    <2>3. QED
      BY <2>1, <2>2
  <1>4. ~Idle(tabs[t])
    BY <1>0 DEF Idle
  <1>5. InitialScreens' /\ InitialOneTab'
    BY <1>0, <1>1, <1>3, <1>4, InitialUsed
  <1>6. InitialTypes' /\ InitialDoc' /\ InitialFacts'
    BY <1>0 DEF InitialInv, InitialTypes, InitialDoc, InitialFacts, Lasting
  <1>7. QED
    BY <1>5, <1>6 DEF InitialInv

LEMMA InitialPostPage ==
    ASSUME InitialInv, NEW t \in DOMAIN tabs, Initial!PostPage(t)
    PROVE  InitialInv'
  <1> DEFINE page == tabs[t].page
  <1>1. page \in Initial!Pages /\ UNCHANGED <<person, live, profile, message, submitted, returns>>
    BY DEF Initial!PostPage
  <1>2. PICK body \in Initial!Entered(page, tabs[t].screen) :
            LET input == Initial!Cleared(Initial!InitialConditions, body)
                answers == Initial!Kept(Initial!FieldsOf(page), input)
            IN  \/ Initial!Show(t, Initial!Rendered(page)) /\ UNCHANGED <<doc, status, asked>>
                \/ Initial!OnTasklist(t) /\ UNCHANGED <<doc, status, asked>>
                \/ /\ Initial!Accepted(page, input)
                   /\ Initial!Save(page, answers)
                   /\ status' \in {status, "SECURITY_MANUAL"}
                   /\ Initial!OnTasklist(t)
    BY DEF Initial!PostPage
  <1>3. InitialShows(page, tabs[t].screen, person)
    BY DEF InitialInv, InitialScreens
  <1>4. body \in Initial!Bodies(tabs[t].screen)
    BY <1>1, <1>3, InitialScreenIn, InitialEntered
  <1>5. person \in [women : BOOLEAN, young : BOOLEAN]
    BY DEF InitialInv, InitialTypes
  <1>6. PICK tab \in {Initial!Elsewhere({"tasklist"}), Initial!Rendered(page)} : Initial!Show(t, tab)
    BY <1>2 DEF Initial!OnTasklist
  <1>7. InitialShows(tab.page, tab.screen, person) /\ InitialTab(tab, doc', person, profile')
    <2>1. CASE tab = Initial!Elsewhere({"tasklist"})
      BY <2>1, InitialElsewhere
    <2>2. CASE tab = Initial!Rendered(page)
      BY <1>1, <1>5, <2>2, InitialRendered
    <2>3. QED
      BY <2>1, <2>2
  <1>8. ~Idle(tabs[t])
    BY <1>1 DEF Idle, Initial!Pages
  <1>9. InitialScreens' /\ InitialOneTab'
    BY <1>1, <1>6, <1>7, <1>8, InitialUsed
  <1>10. InitialTypes'
    <2>1. status' \in {status, "SECURITY_MANUAL"}
      BY <1>2
    <2>2. asked' \in BOOLEAN
      <3> DEFINE asks == "escapeCatB" \in DOMAIN tabs[t].screen.choices
      <3>1. asks \in BOOLEAN /\ asked \in BOOLEAN
        BY DEF InitialInv, InitialTypes
      <3>2. asked' = asked \/ asked' = asks
        BY DEF Initial!PostPage
      <3> HIDE DEF asks
      <3>3. QED
        BY <3>1, <3>2
    <2>3. QED
      BY <1>1, <2>1, <2>2 DEF InitialInv, InitialTypes, Initial!InProgress
  <1>11. InitialFacts'
    BY <1>1 DEF InitialInv, InitialFacts, Lasting
  <1>12. InitialDoc'
    <2> DEFINE input == Initial!Cleared(Initial!InitialConditions, body)
               kept == InitialKeptOf(Initial!FieldsOf(page), body)
    <2>1. CASE doc' = doc
      BY <2>1 DEF InitialInv, InitialDoc
    <2>2. CASE Initial!Accepted(page, input) /\ doc' = Initial!Stored(doc, page, kept)
      <3>1. page = "securityBack" \/ Initial!Valid(Initial!FieldsOf(page), kept)
        BY <2>2 DEF Initial!Accepted, InitialKeptOf
      <3>2. InitialWholePage(page, kept)
        BY <1>1, <1>3, <1>4, <3>1, InitialPageSaved
      <3> HIDE DEF kept
      <3>3. /\ \A p : p \in DOMAIN doc' <=> p \in DOMAIN doc \/ p = page
            /\ doc'[page] = kept
            /\ \A p \in DOMAIN doc : p # page => doc'[p] = doc[p]
        BY <2>2, InitialStored
      <3>4. QED
        BY <3>2, <3>3 DEF InitialInv, InitialDoc
    <2>3. QED
      BY <1>2, <2>1, <2>2 DEF Initial!Save, InitialKeptOf
  <1>13. QED
    BY <1>9, <1>10, <1>11, <1>12 DEF InitialInv

LEMMA InitialOpenReview ==
    ASSUME InitialInv, NEW t \in DOMAIN tabs, Initial!OpenReview(t)
    PROVE  InitialInv'
  <1> DEFINE tab == Initial!Tab("review", Initial!ReviewLinks(person.women) \cup {"tasklist"},
                                Initial!NoScreen, "none", live)
  <1>0. /\ UNCHANGED <<person, live, doc, status, message, asked, submitted, returns>>
        /\ Initial!Show(t, tab) /\ "review" \in tabs[t].links
        /\ profile' = Initial!Merged(profile)
    BY DEF Initial!OpenReview
  <1>1. /\ tab.page = "review" /\ tab.links = Initial!ReviewLinks(person.women) \cup {"tasklist"}
        /\ tab.seen = live
    BY DEF Initial!Tab
  <1> HIDE DEF tab
  <1>2. /\ \A fact : fact \in profile' <=>
               \/ fact \in profile /\ fact \in {"crime", "life"}
               \/ fact \in live /\ fact \in {"alert", "risk", "life"}
    BY <1>0 DEF Initial!Merged
  <1>3. InitialShows(tab.page, tab.screen, person)
    BY <1>1 DEF InitialShows, Initial!Pages
  <1>4. Settled /\ OneTab => InitialTab(tab, doc', person, profile')
    <2>1. SUFFICES ASSUME Settled, OneTab PROVE InitialTab(tab, doc', person, profile')
      OBVIOUS
    <2>2. WholeIn(doc, person.women)
      BY <1>0, <2>1 DEF InitialInv, InitialOneTab, InitialTab
    <2>3. "provisionalCategory" \notin tab.links
      BY <1>1 DEF Initial!ReviewLinks, Initial!CommonPages, Initial!EstatePage
    <2>4. Lasting => \A fact \in {"risk", "life"} : fact \in profile' <=> fact \in tab.seen
      BY <1>1, <1>2 DEF InitialInv, InitialFacts
    <2>5. QED
      BY <1>0, <1>1, <2>2, <2>3, <2>4 DEF InitialTab, Reviewing, Deciding
  <1>5. ~Idle(tabs[t])
    BY <1>0 DEF Idle
  <1>6. InitialScreens' /\ InitialOneTab'
    BY <1>0, <1>3, <1>4, <1>5, InitialUsed
  <1>7. InitialTypes'
    <2>1. profile' \subseteq Initial!Facts
      BY <1>2 DEF Initial!Facts
    <2>2. QED
      BY <1>0, <2>1 DEF InitialInv, InitialTypes
  <1>8. InitialDoc' /\ InitialFacts'
    BY <1>0, <1>2 DEF InitialInv, InitialDoc, InitialFacts, Lasting
  <1>9. QED
    BY <1>6, <1>7, <1>8 DEF InitialInv

LEMMA InitialSubmit ==
    ASSUME InitialInv, NEW t \in DOMAIN tabs, ~Idle(tabs[t]),
           NEW answers, NEW women \in BOOLEAN, NEW cat, Initial!Submit(t, answers, women, cat),
           UNCHANGED <<person, live, profile, message, asked, returns>>,
           InitialWholePage("provisionalCategory", answers),
           Settled /\ OneTab =>
               /\ WholeIn(doc, women)
               /\ Lasting /\ ~women => cat = SuggestedIn(doc, tabs[t].seen, person.young)
    PROVE  InitialInv'
  <1> DEFINE links == IF Initial!Rejected(status, "AWAITING_APPROVAL") THEN {"tasklist"} ELSE {}
             tab == Initial!Elsewhere(links)
  <1>1. Initial!Show(t, tab)
    BY DEF Initial!Submit
  <1>2. /\ InitialShows(tab.page, tab.screen, person)
        /\ InitialTab(tab, doc', person, profile')
        /\ links = {} => Idle(tab)
    BY InitialElsewhere
  <1> HIDE DEF tab
  <1>3. InitialTypes'
    BY DEF Initial!Submit, InitialInv, InitialTypes, Initial!InProgress
  <1>4. InitialFacts'
    BY DEF InitialInv, InitialFacts, Lasting
  <1>5. CASE UNCHANGED <<doc, status, submitted>>
    <2>1. InitialScreens' /\ InitialOneTab'
      BY <1>1, <1>2, <1>5, InitialUsed
    <2>2. InitialDoc'
      BY <1>5 DEF InitialInv, InitialDoc
    <2>3. QED
      BY <1>3, <1>4, <2>1, <2>2 DEF InitialInv
  <1>6. CASE /\ Initial!Allowed(status, "AWAITING_APPROVAL")
             /\ Initial!Save("provisionalCategory", answers)
             /\ status' = "AWAITING_APPROVAL"
             /\ submitted' = [women |-> women, cat |-> cat, seen |-> tabs[t].seen]
    <2>1. links = {}
      BY <1>6 DEF Initial!Rejected
    <2>2. doc' = Initial!Stored(doc, "provisionalCategory", answers)
      BY <1>6 DEF Initial!Save
    <2>3. /\ \A w \in BOOLEAN : WholeIn(doc, w) => WholeIn(doc', w)
          /\ \A facts, young : SuggestedIn(doc', facts, young) = SuggestedIn(doc, facts, young)
      BY <2>2, InitialDecided
    <2>4. /\ submitted'.women = women /\ submitted'.cat = cat /\ submitted'.seen = tabs[t].seen
      BY <1>6
    <2>5. Settled /\ OneTab => InitialSubmission(submitted', doc', status', person)
      BY <1>6, <2>3, <2>4 DEF InitialSubmission
    <2>6. InitialScreens' /\ InitialOneTab'
      BY <1>1, <1>2, <2>1, <2>5, InitialShown DEF InitialInv
    <2>7. InitialDoc'
      <3>1. /\ \A p : p \in DOMAIN doc' <=> p \in DOMAIN doc \/ p = "provisionalCategory"
            /\ doc'["provisionalCategory"] = answers
            /\ \A p \in DOMAIN doc : p # "provisionalCategory" => doc'[p] = doc[p]
        BY <2>2, InitialStored
      <3>2. QED
        BY <3>1 DEF InitialInv, InitialDoc
    <2>8. QED
      BY <1>3, <1>4, <2>6, <2>7 DEF InitialInv
  <1>7. QED
    BY <1>5, <1>6 DEF Initial!Submit

\* The category of a woman, as it is submitted.
LEMMA InitialWomansPage ==
    ASSUME NEW cat
    PROVE  InitialWholePage("provisionalCategory", [suggestedCategory |-> cat, categoryAppropriate |-> "Yes"])
  BY DEF InitialWholePage, Initial!FieldsOf, Initial!ProvisionalCategory, Initial!Required, Initial!Optional

\* The page `continue', where the way to the category begins.
LEMMA InitialContinue ==
    ASSUME InitialInv, NEW t \in DOMAIN tabs, Reviewing(tabs[t]), Initial!OnContinue(t),
           UNCHANGED <<person, live, profile, doc, status, message, asked, submitted, returns>>,
           Settled /\ OneTab => ~person.women
    PROVE  InitialInv'
  <1> DEFINE tab == Initial!Tab("continue", {"provisionalCategory"}, Initial!NoScreen, "none", tabs[t].seen)
  <1>1. Initial!Show(t, tab)
    BY DEF Initial!OnContinue
  <1>2. tab.page = "continue" /\ tab.links = {"provisionalCategory"} /\ tab.seen = tabs[t].seen
    BY DEF Initial!Tab
  <1> HIDE DEF tab
  <1>3. InitialShows(tab.page, tab.screen, person)
    BY <1>2 DEF InitialShows, Initial!Pages
  <1>4. Settled /\ OneTab => InitialTab(tab, doc', person, profile')
    <2>1. SUFFICES ASSUME Settled, OneTab PROVE InitialTab(tab, doc, person, profile)
      OBVIOUS
    <2>2. InitialTab(tabs[t], doc, person, profile)
      BY <2>1 DEF InitialInv, InitialOneTab
    <2>3. QED
      BY <1>2, <2>1, <2>2 DEF InitialTab, Reviewing, Deciding
  <1>5. ~Idle(tabs[t])
    BY DEF Idle, Reviewing, Deciding
  <1>6. InitialScreens' /\ InitialOneTab'
    BY <1>1, <1>3, <1>4, <1>5, InitialUsed
  <1>7. InitialTypes' /\ InitialDoc' /\ InitialFacts'
    BY DEF InitialInv, InitialTypes, InitialDoc, InitialFacts, Lasting
  <1>8. QED
    BY <1>6, <1>7 DEF InitialInv

\* A tab that goes back to the tasklist, or shows what needs nothing of the form.
LEMMA InitialLeaves ==
    ASSUME InitialInv, NEW t \in DOMAIN tabs, ~Idle(tabs[t]), Initial!OnTasklist(t),
           UNCHANGED <<person, live, profile, doc, status, asked, submitted, returns>>,
           message' \in {message, "read"}
    PROVE  InitialInv'
  <1> DEFINE tab == Initial!Elsewhere({"tasklist"})
  <1>1. Initial!Show(t, tab)
    BY DEF Initial!OnTasklist
  <1>2. InitialShows(tab.page, tab.screen, person) /\ InitialTab(tab, doc', person, profile')
    BY InitialElsewhere
  <1> HIDE DEF tab
  <1>3. InitialScreens' /\ InitialOneTab'
    BY <1>1, <1>2, InitialUsed
  <1>4. InitialTypes' /\ InitialDoc' /\ InitialFacts'
    BY DEF InitialInv, InitialTypes, InitialDoc, InitialFacts, Lasting
  <1>5. QED
    BY <1>3, <1>4 DEF InitialInv

LEMMA InitialPostReview ==
    ASSUME InitialInv, NEW t \in DOMAIN tabs, Initial!PostReview(t)
    PROVE  InitialInv'
  <1>0. /\ UNCHANGED <<person, live, profile, message, asked, returns>>
        /\ tabs[t].page = "review"
    BY DEF Initial!PostReview
  <1>1. Reviewing(tabs[t]) /\ ~Idle(tabs[t])
    BY <1>0 DEF Reviewing, Idle
  <1>2. CASE ~person.women
    BY <1>0, <1>1, <1>2, InitialContinue DEF Initial!PostReview
  <1>3. CASE person.women /\ Initial!Saved("decision", "category")
    <2> DEFINE cat == doc["decision"]["category"]
               answers == [suggestedCategory |-> cat, categoryAppropriate |-> "Yes"]
    <2>1. Initial!Submit(t, answers, TRUE, cat)
      BY <1>3 DEF Initial!PostReview
    <2>2. InitialWholePage("provisionalCategory", answers)
      BY InitialWomansPage
    <2> HIDE DEF answers
    <2>3. person.women = TRUE
      BY <1>3 DEF InitialInv, InitialTypes
    <2>4. Settled /\ OneTab => WholeIn(doc, TRUE)
      BY <1>1, <2>3 DEF InitialInv, InitialOneTab, InitialTab
    <2>5. QED
      BY <1>0, <1>1, <2>1, <2>2, <2>4, InitialSubmit
  <1>4. CASE person.women /\ ~Initial!Saved("decision", "category")
    BY <1>0, <1>1, <1>4, InitialLeaves DEF Initial!PostReview
  <1>5. QED
    BY <1>2, <1>3, <1>4

LEMMA InitialOpenProvisional ==
    ASSUME InitialInv, NEW t \in DOMAIN tabs, Initial!OpenProvisional(t)
    PROVE  InitialInv'
  <1> DEFINE cat == Initial!Suggested(profile, person.young)
             tab == Initial!Tab("provisionalCategory", {"tasklist"}, Initial!ProvisionalScreen(cat),
                                cat, tabs[t].seen)
  <1>0. /\ UNCHANGED <<person, live, profile, doc, status, message, asked, submitted, returns>>
        /\ Initial!Show(t, tab) /\ "provisionalCategory" \in tabs[t].links
    BY DEF Initial!OpenProvisional
  <1>1. /\ tab.page = "provisionalCategory" /\ tab.links = {"tasklist"}
        /\ tab.screen = Initial!ProvisionalScreen(cat) /\ tab.seen = tabs[t].seen
    BY DEF Initial!Tab
  <1>2. cat = SuggestedIn(doc, profile, person.young) /\ cat \in {"I", "B", "C"}
    BY InitialSuggested
  <1> HIDE DEF tab, cat
  <1>3. InitialShows(tab.page, tab.screen, person)
    BY <1>1, <1>2 DEF InitialShows, Initial!Pages
  <1>4. Settled /\ OneTab => InitialTab(tab, doc', person, profile')
    <2>1. SUFFICES ASSUME Settled, OneTab PROVE InitialTab(tab, doc, person, profile)
      BY <1>0
    <2>2. InitialTab(tabs[t], doc, person, profile)
      BY <2>1 DEF InitialInv, InitialOneTab
    <2>3. QED
      BY <1>0, <1>1, <1>2, <2>2 DEF InitialTab, Reviewing, Deciding
  <1>5. ~Idle(tabs[t])
    BY <1>0 DEF Idle
  <1>6. InitialScreens' /\ InitialOneTab'
    BY <1>0, <1>3, <1>4, <1>5, InitialUsed
  <1>7. InitialTypes' /\ InitialDoc' /\ InitialFacts'
    BY <1>0 DEF InitialInv, InitialTypes, InitialDoc, InitialFacts, Lasting
  <1>8. QED
    BY <1>6, <1>7 DEF InitialInv

LEMMA InitialDropped ==
    ASSUME NEW body
    PROVE  "suggestedCategory" \notin Initial!Dropped(Initial!InitialConditions, body)
  <1>1. ASSUME NEW c \in Initial!InitialConditions PROVE "suggestedCategory" \notin c[3]
    <2> DEFINE blanks == {"otherInformationText", "justification",
                          "overriddenCategory", "overriddenCategoryText"}
    <2>1. CASE \E field \in blanks : c = <<field, "", {field}>>
      <3>1. PICK field \in blanks : c = <<field, "", {field}>>
        BY <2>1
      <3>2. c[3] = {field}
        BY <3>1
      <3>3. QED
        BY <3>2
    <2>2. CASE c \in Initial!Irrelevant
      BY <2>2 DEF Initial!Irrelevant
    <2>3. QED
      BY <2>1, <2>2 DEF Initial!InitialConditions, Initial!Blank
  <1>2. QED
    BY <1>1 DEF Initial!Dropped

\* The category that is sent back as the suggested one is the one shown.
LEMMA InitialSentBack ==
    ASSUME NEW cat, NEW body \in Initial!Bodies(Initial!ProvisionalScreen(cat))
    PROVE  Initial!Cleared(Initial!InitialConditions, body)["suggestedCategory"] = cat
  <1> DEFINE screen == Initial!ProvisionalScreen(cat)
             gone == Initial!Dropped(Initial!InitialConditions, body)
             input == Initial!Cleared(Initial!InitialConditions, body)
  <1>1. /\ "suggestedCategory" \in DOMAIN screen.hidden
        /\ screen.hidden["suggestedCategory"] = cat
        /\ "suggestedCategory" \notin screen.texts \cup DOMAIN screen.choices
    BY DEF Initial!ProvisionalScreen, Initial!Screen
  <1>2. "suggestedCategory" \in DOMAIN body /\ body["suggestedCategory"] = cat
    BY <1>1, InitialBodies
  <1>3. "suggestedCategory" \notin gone
    BY InitialDropped
  <1>4. \A f : f \in DOMAIN body /\ f \notin gone => input[f] = body[f]
    BY DEF Initial!Cleared, Initial!Keep, Initial!Restrict
  <1>5. QED
    BY <1>2, <1>3, <1>4

LEMMA InitialPostProvisional ==
    ASSUME InitialInv, NEW t \in DOMAIN tabs, Initial!PostProvisional(t)
    PROVE  InitialInv'
  <1>0. /\ UNCHANGED <<person, live, profile, message, asked, returns>>
        /\ tabs[t].page = "provisionalCategory"
    BY DEF Initial!PostProvisional
  <1>1. PICK body \in Initial!Entered("provisionalCategory", tabs[t].screen) :
            LET input == Initial!Cleared(Initial!InitialConditions, body)
                answers == Initial!Kept(Initial!ProvisionalCategory, input)
            IN  IF Initial!Accepted("provisionalCategory", input)
                  THEN Initial!Submit(t, answers, FALSE, input["suggestedCategory"])
                  ELSE Initial!OnContinue(t) /\ UNCHANGED <<doc, status, submitted>>
    BY DEF Initial!PostProvisional
  <1> DEFINE input == Initial!Cleared(Initial!InitialConditions, body)
             kept == InitialKeptOf(Initial!ProvisionalCategory, body)
  <1>2. Reviewing(tabs[t]) /\ Deciding(tabs[t]) /\ ~Idle(tabs[t])
    BY <1>0 DEF Reviewing, Deciding, Idle
  <1>3. InitialShows("provisionalCategory", tabs[t].screen, person)
    BY <1>0 DEF InitialInv, InitialScreens
  <1>4. body \in Initial!Bodies(tabs[t].screen)
    BY <1>3, InitialScreenIn, InitialEntered
  <1>5. person.women \in BOOLEAN
    BY DEF InitialInv, InitialTypes
  <1>6. Settled /\ OneTab => InitialTab(tabs[t], doc, person, profile)
    BY DEF InitialInv, InitialOneTab
  <1>7. Settled /\ OneTab => ~person.women /\ person.women = FALSE
    BY <1>2, <1>5, <1>6 DEF InitialTab
  <1>8. CASE Initial!Accepted("provisionalCategory", input)
    <2>1. Initial!Submit(t, kept, FALSE, input["suggestedCategory"])
      BY <1>1, <1>8 DEF InitialKeptOf
    <2>2. InitialWholePage("provisionalCategory", kept)
      <3>1. Initial!FieldsOf("provisionalCategory") = Initial!ProvisionalCategory
        BY DEF Initial!FieldsOf
      <3>2. Initial!Valid(Initial!ProvisionalCategory, kept)
        BY <1>8, <3>1 DEF Initial!Accepted, InitialKeptOf
      <3>3. QED
        BY <1>3, <1>4, <3>1, <3>2, InitialPageSaved
    <2>3. ASSUME Settled, OneTab
          PROVE  /\ WholeIn(doc, FALSE)
                 /\ Lasting => input["suggestedCategory"] = SuggestedIn(doc, tabs[t].seen, person.young)
      <3>1. WholeIn(doc, FALSE)
        BY <1>2, <1>6, <1>7, <2>3 DEF InitialTab
      <3>2. tabs[t].screen = Initial!ProvisionalScreen(SuggestedIn(doc, profile, person.young))
        BY <1>0, <1>6, <2>3 DEF InitialTab
      <3>3. input["suggestedCategory"] = SuggestedIn(doc, profile, person.young)
        BY <1>4, <3>2, InitialSentBack
      <3>4. Lasting => \A fact \in {"risk", "life"} : fact \in profile <=> fact \in tabs[t].seen
        BY <1>2, <1>6, <2>3 DEF InitialTab
      <3>5. ASSUME Lasting
            PROVE  SuggestedIn(doc, profile, person.young) = SuggestedIn(doc, tabs[t].seen, person.young)
        BY <3>4, <3>5, SameSuggestion
      <3> HIDE DEF input
      <3>6. QED
        BY <3>1, <3>3, <3>5
    <2> HIDE DEF input, kept
    <2>4. QED
      BY <1>0, <1>2, <2>1, <2>2, <2>3, InitialSubmit
  <1>9. CASE ~Initial!Accepted("provisionalCategory", input)
    BY <1>0, <1>1, <1>2, <1>7, <1>9, InitialContinue
  <1>10. QED
    BY <1>8, <1>9

LEMMA InitialReadMessage ==
    ASSUME InitialInv, NEW t \in DOMAIN tabs, Initial!ReadMessage(t)
    PROVE  InitialInv'
  BY InitialLeaves DEF Initial!ReadMessage, Idle

LEMMA InitialSecurityReview ==
    ASSUME InitialInv, Initial!SecurityReview
    PROVE  InitialInv'
  <1>0. /\ UNCHANGED <<person, live, profile, doc, message, tabs, asked, submitted, returns>>
        /\ status' = "SECURITY_BACK" /\ status # "AWAITING_APPROVAL"
    BY DEF Initial!SecurityReview, Initial!Allowed, Initial!Previous
  <1>1. InitialTypes' /\ InitialDoc' /\ InitialScreens' /\ InitialFacts'
    BY <1>0 DEF InitialInv, InitialTypes, InitialDoc, InitialScreens, InitialFacts, Lasting, Initial!InProgress
  <1>2. InitialOneTab'
    BY <1>0 DEF InitialInv, InitialOneTab, InitialSubmission, OneTab, Settled, Initial!NotYet
  <1>3. QED
    BY <1>1, <1>2 DEF InitialInv

LEMMA InitialSendBack ==
    ASSUME InitialInv, Initial!SendBack
    PROVE  InitialInv'
  <1>0. /\ UNCHANGED <<person, live, profile, doc, asked>>
        /\ status' = "SUPERVISOR_BACK" /\ message' = "unread" /\ submitted' = Initial!NotYet
        /\ returns' = returns + 1 /\ returns < MaxReturns
        /\ tabs' = [t \in DOMAIN tabs |->
                       IF tabs[t].links = {} THEN Initial!Elsewhere({"tasklist"}) ELSE tabs[t]]
    BY DEF Initial!SendBack
  <1>1. /\ DOMAIN tabs' = DOMAIN tabs
        /\ \A t \in DOMAIN tabs : tabs'[t] = tabs[t] \/ tabs'[t] = Initial!Elsewhere({"tasklist"})
    BY <1>0
  <1>2. InitialTypes'
    <2>1. returns' \in 0 .. MaxReturns
      <3>1. returns \in 0 .. MaxReturns
        BY DEF InitialInv, InitialTypes
      <3>2. QED
        BY <1>0, <3>1, MaxReturnsAssumption
    <2>2. QED
      BY <1>0, <2>1 DEF InitialInv, InitialTypes, Initial!InProgress
  <1>3. InitialDoc' /\ InitialFacts'
    BY <1>0 DEF InitialInv, InitialDoc, InitialFacts, Lasting
  <1>4. InitialScreens'
    <2>1. ASSUME NEW t \in DOMAIN tabs
          PROVE  InitialShows(tabs'[t].page, tabs'[t].screen, person')
      <3>1. CASE tabs'[t] = tabs[t]
        BY <1>0, <3>1 DEF InitialInv, InitialScreens
      <3>2. CASE tabs'[t] = Initial!Elsewhere({"tasklist"})
        BY <3>2, InitialElsewhere
      <3>3. QED
        BY <1>1, <3>1, <3>2
    <2>2. QED
      BY <1>1, <2>1 DEF InitialScreens
  <1>5. InitialOneTab'
    <2>1. SUFFICES ASSUME Settled, OneTab'
                   PROVE  \A t \in DOMAIN tabs' : InitialTab(tabs'[t], doc', person', profile')
      BY <1>0 DEF InitialOneTab, InitialSubmission, Settled, Initial!NotYet
    <2>2. OneTab
      BY <1>1, <2>1 DEF OneTab
    <2>3. ASSUME NEW t \in DOMAIN tabs PROVE InitialTab(tabs'[t], doc', person', profile')
      <3>1. CASE tabs'[t] = tabs[t]
        BY <1>0, <2>1, <2>2, <3>1 DEF InitialInv, InitialOneTab
      <3>2. CASE tabs'[t] = Initial!Elsewhere({"tasklist"})
        BY <3>2, InitialElsewhere
      <3>3. QED
        BY <1>1, <3>1, <3>2
    <2>4. QED
      BY <1>1, <2>3
  <1>6. QED
    BY <1>2, <1>3, <1>4, <1>5 DEF InitialInv

LEMMA InitialChange ==
    ASSUME InitialInv, NEW what \in Initial!Facts \cup {"transfer"}, Initial!Change(what)
    PROVE  InitialInv'
  <1>0. /\ UNCHANGED <<profile, doc, status, message, tabs, asked, submitted, returns>>
        /\ what \in Changes
    BY DEF Initial!Change
  <1>1. CASE what = "transfer"
    <2>1. ~Settled /\ live' = live /\ person' = [person EXCEPT !.women = ~@]
      BY <1>0, <1>1 DEF Settled, Initial!Change
    <2>2. person' \in [women : BOOLEAN, young : BOOLEAN]
      BY <2>1 DEF InitialInv, InitialTypes
    <2>3. InitialTypes'
      BY <1>0, <2>1, <2>2 DEF InitialInv, InitialTypes
    <2>4. InitialDoc' /\ InitialFacts'
      BY <1>0, <2>1 DEF InitialInv, InitialDoc, InitialFacts, Lasting
    <2>5. InitialScreens'
      BY <1>0, <2>1 DEF InitialInv, InitialScreens, InitialShows, Settled
    <2>6. InitialOneTab'
      BY <2>1 DEF InitialOneTab, Settled
    <2>7. QED
      BY <2>3, <2>4, <2>5, <2>6 DEF InitialInv
  <1>2. CASE what # "transfer"
    <2>1. person' = person /\ live' \in {live \ {what}, live \cup {what}}
      BY <1>2 DEF Initial!Change
    <2>2. what \in Initial!Facts
      BY <1>2
    <2>3. InitialTypes'
      <3>1. live' \subseteq Initial!Facts
        BY <2>1, <2>2 DEF InitialInv, InitialTypes
      <3>2. QED
        BY <1>0, <2>1, <3>1 DEF InitialInv, InitialTypes
    <2>4. InitialFacts'
      BY <1>0, <2>1 DEF InitialInv, InitialFacts, Lasting
    <2>5. InitialDoc' /\ InitialScreens' /\ InitialOneTab'
      BY <1>0, <2>1 DEF InitialInv, InitialDoc, InitialScreens, InitialOneTab, InitialSubmission,
                        OneTab, Settled
    <2>6. QED
      BY <2>3, <2>4, <2>5 DEF InitialInv
  <1>3. QED
    BY <1>1, <1>2

LEMMA InitialNext ==
    ASSUME InitialInv, Initial!Next
    PROVE  InitialInv'
  BY InitialOpenTasklist, InitialOpenPage, InitialPostPage, InitialOpenReview, InitialPostReview,
     InitialOpenProvisional, InitialPostProvisional, InitialReadMessage, InitialSecurityReview,
     InitialSendBack, InitialChange DEF Initial!Next

LEMMA InitialStutters ==
    ASSUME InitialInv, UNCHANGED pageVars
    PROVE  InitialInv'
  BY DEF pageVars, InitialInv, InitialTypes, InitialDoc, InitialScreens, InitialFacts, InitialOneTab,
         InitialSubmission, OneTab, Settled, Lasting
-----------------------------------------------------------------------------
(* Every page can be answered *)

PlainAnswer(q) == IF q = "category" THEN "R" ELSE "No"
Plain == {"No", "R", "text", "token"}

\* A body with the plain answers.
LEMMA InitialPlainBody ==
    ASSUME NEW screen, \A q \in DOMAIN screen.choices : PlainAnswer(q) \in screen.choices[q],
           \A q \in DOMAIN screen.hidden : screen.hidden[q] = "No"
    PROVE  \E body \in Initial!Bodies(screen) :
              /\ \A q : q \in DOMAIN screen.choices \/ q \in screen.texts \/ q \in DOMAIN screen.hidden
                           => q \in DOMAIN body
              /\ \A q \in DOMAIN body : body[q] \in Plain
  <1> DEFINE a == [q \in DOMAIN screen.choices |-> PlainAnswer(q)]
             t == [x \in screen.texts |-> "text"]
             token == [_csrf |-> "token"]
             H == Initial!Beside(screen.hidden, token)
             A == Initial!Beside(a, t)
             body == Initial!Beside(A, H)
  <1>1. a \in Initial!Filled(screen.choices)
    <2> DEFINE all == UNION Initial!Range(screen.choices)
    <2>1. \A q \in DOMAIN screen.choices : screen.choices[q] \in Initial!Range(screen.choices)
      BY DEF Initial!Range
    <2>2. \A q \in DOMAIN screen.choices : a[q] \in all
      BY <2>1
    <2>3. a \in [DOMAIN screen.choices -> all]
      BY <2>2
    <2>4. a \in UNION {[q -> all] : q \in SUBSET DOMAIN screen.choices}
      BY <2>3
    <2>5. \A q \in DOMAIN a : a[q] \in screen.choices[q]
      OBVIOUS
    <2> HIDE DEF a, all
    <2>6. QED
      BY <2>4, <2>5 DEF Initial!Filled, all
  <1>2. t \in [screen.texts -> Initial!Texts]
    <2>1. "text" \in Initial!Texts
      BY DEF Initial!Texts
    <2>2. QED
      BY <2>1
  <1>3. body \in Initial!Bodies(screen)
    BY <1>1, <1>2 DEF Initial!Bodies
  <1>4. /\ \A q : q \in DOMAIN H <=> q \in DOMAIN screen.hidden \/ q = "_csrf"
        /\ \A q \in DOMAIN H : H[q] \in Plain
    BY DEF Initial!Beside, Plain
  <1>5. /\ \A q : q \in DOMAIN A <=> q \in DOMAIN screen.choices \/ q \in screen.texts
        /\ \A q \in DOMAIN A : A[q] \in Plain
    BY DEF Initial!Beside, Plain, PlainAnswer
  <1> HIDE DEF A, H
  <1>6. /\ \A q : q \in DOMAIN body <=> q \in DOMAIN A \/ q \in DOMAIN H
        /\ \A q \in DOMAIN body : (body[q] = A[q] /\ q \in DOMAIN A) \/ (body[q] = H[q] /\ q \in DOMAIN H)
    BY DEF Initial!Beside
  <1> HIDE DEF body
  <1>7. QED
    BY <1>3, <1>4, <1>5, <1>6

\* What the plain answers may drop.
DroppedByPlain ==
    {"securityInputNeededText", "escapeOtherEvidenceText", "escapeCatBText", "highRiskOfViolenceText",
     "seriousThreatText", "furtherChargesCatB", "furtherChargesText", "previousConvictionsText",
     "previousTerrorismOffencesText"}

LEMMA InitialPlainDrops ==
    ASSUME NEW body, \A q \in DOMAIN body : body[q] \in Plain
    PROVE  Initial!Dropped(Initial!InitialConditions, body) \subseteq DroppedByPlain
  <1>1. ASSUME NEW c \in Initial!InitialConditions, Initial!Is(body, c[1], c[2])
        PROVE  c[3] \subseteq DroppedByPlain
    <2>1. c[2] \in Plain
      BY <1>1 DEF Initial!Is, Initial!Sent
    <2>2. CASE c \in Initial!Irrelevant
      <3>1. c[2] # "Yes"
        BY <2>1 DEF Plain
      <3>2. QED
        BY <2>2, <3>1 DEF Initial!Irrelevant, DroppedByPlain
    <2>3. CASE c \in Initial!Blank
      <3>1. PICK field : c = <<field, "", {field}>>
        BY <2>3 DEF Initial!Blank
      <3>2. c[2] = ""
        BY <3>1
      <3>3. QED
        BY <2>1, <3>2 DEF Plain
    <2>4. QED
      BY <2>2, <2>3 DEF Initial!InitialConditions
  <1>2. QED
    BY <1>1 DEF Initial!Dropped

\* What a page requires, it shows; what it does not require, it asks for by an
\* answer.
LEMMA InitialPlain ==
    ASSUME NEW p \in Initial!Pages, NEW w \in BOOLEAN, NEW y \in BOOLEAN, NEW a \in BOOLEAN,
           NEW screen, screen = Initial!ScreenOf(p, w, y, a)
    PROVE  /\ \A q \in DOMAIN screen.choices : PlainAnswer(q) \in screen.choices[q]
           /\ \A q \in DOMAIN screen.hidden : screen.hidden[q] = "No"
           /\ ~(p = "securityBack" /\ w) => \A f \in DOMAIN Initial!FieldsOf(p) :
                 \/ /\ Initial!FieldsOf(p)[f] = Initial!Required /\ f \notin DroppedByPlain
                    /\ f \in DOMAIN screen.choices \/ f \in screen.texts \/ f \in DOMAIN screen.hidden
                 \/ Initial!FieldsOf(p)[f][1] = "if"
  <1> USE DEF Initial!FieldsOf, Initial!ScreenOf, Initial!Screen, Initial!YesNo, Initial!NoHidden,
              Initial!RequiredIf, PlainAnswer, DroppedByPlain
  <1>1. CASE p = "offendingHistory"
    BY <1>1 DEF Initial!OffendingHistory, Initial!OffendingHistoryScreen
  <1>2. CASE p = "furtherCharges"
    BY <1>2 DEF Initial!FurtherCharges, Initial!FurtherChargesScreen
  <1>3. CASE p = "securityInput"
    BY <1>3 DEF Initial!SecurityInput, Initial!SecurityInputScreen
  <1>4. CASE p = "securityBack"
    BY <1>4 DEF Initial!SecurityBack, Initial!SecurityBackScreen
  <1>5. CASE p = "violenceRating"
    BY <1>5 DEF Initial!ViolenceRating, Initial!ViolenceScreen
  <1>6. CASE p = "extremismRating"
    BY <1>6 DEF Initial!ExtremismRating, Initial!ExtremismScreen
  <1>7. CASE p = "escapeRating"
    <2>1. CASE a /\ ~w
      BY <1>7, <2>1 DEF Initial!EscapeRating, Initial!EscapeScreen
    <2>2. CASE ~(a /\ ~w)
      BY <1>7, <2>2 DEF Initial!EscapeRating, Initial!EscapeScreen
    <2>3. QED
      BY <2>1, <2>2
  <1>8. CASE p = "decision"
    BY <1>8 DEF Initial!Decision, Initial!DecisionScreen
  <1>9. QED
    BY <1>1, <1>2, <1>3, <1>4, <1>5, <1>6, <1>7, <1>8 DEF Initial!Pages

\* The plain answers are accepted.
LEMMA InitialPlainAccepted ==
    ASSUME NEW p \in Initial!Pages, NEW screen, NEW y \in BOOLEAN, NEW a \in BOOLEAN,
           person.women \in BOOLEAN, screen = Initial!ScreenOf(p, person.women, y, a)
    PROVE  \E body \in Initial!Bodies(screen) :
              Initial!Accepted(p, Initial!Cleared(Initial!InitialConditions, body))
  <1> DEFINE fields == Initial!FieldsOf(p)
  <1>1. /\ \A q \in DOMAIN screen.choices : PlainAnswer(q) \in screen.choices[q]
        /\ \A q \in DOMAIN screen.hidden : screen.hidden[q] = "No"
        /\ ~(p = "securityBack" /\ person.women) => \A f \in DOMAIN fields :
              \/ /\ fields[f] = Initial!Required /\ f \notin DroppedByPlain
                 /\ f \in DOMAIN screen.choices \/ f \in screen.texts \/ f \in DOMAIN screen.hidden
              \/ fields[f][1] = "if"
    BY InitialPlain
  <1>2. PICK body \in Initial!Bodies(screen) :
            /\ \A q : q \in DOMAIN screen.choices \/ q \in screen.texts \/ q \in DOMAIN screen.hidden
                         => q \in DOMAIN body
            /\ \A q \in DOMAIN body : body[q] \in Plain
    BY <1>1, InitialPlainBody
  <1> DEFINE kept == InitialKeptOf(fields, body)
  <1>3. CASE p = "securityBack" /\ person.women
    BY <1>3 DEF Initial!Accepted
  <1>4. CASE ~(p = "securityBack" /\ person.women)
    <2>1. \A q \in DOMAIN kept : kept[q] \in Plain
      BY <1>2, InitialKeptBody
    <2>2. ASSUME NEW f \in DOMAIN fields, fields[f] = Initial!Required, f \notin DroppedByPlain,
                 f \in DOMAIN screen.choices \/ f \in screen.texts \/ f \in DOMAIN screen.hidden
          PROVE  Initial!FieldValid(fields[f], kept, f)
      <3>1. f \in DOMAIN body /\ f \notin Initial!Dropped(Initial!InitialConditions, body)
        BY <1>2, <2>2, InitialPlainDrops
      <3>2. f \in DOMAIN kept
        BY <3>1, InitialKeptBody
      <3>3. Initial!Given(kept, f)
        <4>1. kept[f] \in Plain
          BY <2>1, <3>2
        <4>2. kept[f] # ""
          BY <4>1 DEF Plain
        <4>3. QED
          BY <3>2, <4>2 DEF Initial!Given, Initial!Sent
      <3>4. QED
        BY <2>2, <3>3 DEF Initial!FieldValid, Initial!Required
    <2>3. ASSUME NEW f \in DOMAIN fields, fields[f][1] = "if"
          PROVE  Initial!FieldValid(fields[f], kept, f)
      <3>1. InitialText(p, f, fields[f][2], fields[f][3])
        BY <2>3, InitialRules
      <3>2. fields[f][3] = "Yes"
        BY <3>1 DEF InitialText, Initial!Pages
      <3> HIDE DEF kept
      <3>3. ~Initial!Is(kept, fields[f][2], fields[f][3])
        <4>1. SUFFICES ASSUME Initial!Is(kept, fields[f][2], "Yes") PROVE FALSE
          BY <3>2
        <4>2. "Yes" \in Plain
          BY <2>1, <4>1 DEF Initial!Is, Initial!Sent
        <4>3. QED
          BY <4>2 DEF Plain
      <3> HIDE DEF fields
      <3>4. QED
        BY <2>3, <3>3 DEF Initial!FieldValid
    <2>4. Initial!Valid(fields, kept)
      BY <1>1, <1>4, <2>2, <2>3 DEF Initial!Valid
    <2>5. QED
      BY <2>4 DEF Initial!Accepted, InitialKeptOf
  <1>5. QED
    BY <1>3, <1>4

\* What the invariant of the first categorisations implies.
LEMMA InitialImplies ==
    ASSUME InitialInv
    PROVE  /\ Initial!TypeOK /\ Initial!HiddenDropped
           /\ Settled => Initial!Answerable
           /\ Settled /\ OneTab => Initial!SubmittedWhole
           /\ Settled /\ Lasting /\ OneTab => Initial!SuggestionFollows
  <1>1. Initial!TypeOK
    BY DEF InitialInv, InitialTypes, InitialDoc, InitialWholePage, Initial!TypeOK
  <1>2. Initial!HiddenDropped
    BY DEF InitialInv, InitialDoc, InitialWholePage, Initial!HiddenDropped
  <1>3. Settled => Initial!Answerable
    <2>1. SUFFICES ASSUME Settled, NEW t \in DOMAIN tabs, tabs[t].page \in Initial!Pages
                   PROVE  \E body \in Initial!BodiesOf[tabs[t].screen] :
                             Initial!Accepted(tabs[t].page, Initial!Cleared(Initial!InitialConditions, body))
      BY DEF Initial!Answerable
    <2>2. InitialShows(tabs[t].page, tabs[t].screen, person)
      BY DEF InitialInv, InitialScreens
    <2>3. PICK y \in BOOLEAN, a \in BOOLEAN :
              tabs[t].screen = Initial!ScreenOf(tabs[t].page, person.women, y, a)
      BY <2>1, <2>2 DEF InitialShows
    <2>4. tabs[t].screen \in Initial!AllScreens
      BY <2>1, <2>2, InitialScreenIn
    <2>5. Initial!BodiesOf[tabs[t].screen] = Initial!Bodies(tabs[t].screen)
      BY <2>4 DEF Initial!BodiesOf
    <2>6. person.women \in BOOLEAN
      BY DEF InitialInv, InitialTypes
    <2>7. QED
      BY <2>1, <2>3, <2>5, <2>6, InitialPlainAccepted
  <1>4. Settled /\ OneTab => Initial!SubmittedWhole
    BY InitialWhole DEF InitialInv, InitialOneTab, InitialSubmission, Initial!SubmittedWhole
  <1>5. Settled /\ Lasting /\ OneTab => Initial!SuggestionFollows
    BY InitialSuggested DEF InitialInv, InitialOneTab, InitialSubmission, Initial!SuggestionFollows
  <1>6. QED
    BY <1>1, <1>2, <1>3, <1>4, <1>5
-----------------------------------------------------------------------------
(* Both kinds *)

PagesInv == (catType = "INITIAL" => InitialInv) /\ (catType = "RECAT" => RecatInv)

LEMMA PagesInvariant == PagesSpec => []PagesInv
  <1>1. PagesInit => PagesInv
    BY InitialInitially, RecatInitially DEF PagesInit, PagesInv
  <1>2. PagesInv /\ [PagesNext]_pageVars => PagesInv'
    <2>1. SUFFICES ASSUME PagesInv, [PagesNext]_pageVars PROVE PagesInv'
      OBVIOUS
    <2>2. CASE PagesNext
      <3>1. catType' = catType
        BY <2>2 DEF PagesNext
      <3>2. CASE catType = "INITIAL" /\ Initial!Next
        BY <2>1, <3>1, <3>2, InitialNext DEF PagesInv
      <3>3. CASE catType = "RECAT" /\ Recat!Next
        BY <2>1, <3>1, <3>3, RecatNext DEF PagesInv
      <3>4. QED
        BY <2>2, <3>2, <3>3 DEF PagesNext
    <2>3. CASE UNCHANGED pageVars
      <3>1. catType' = catType
        BY <2>3 DEF pageVars
      <3>2. QED
        BY <2>1, <2>3, <3>1, InitialStutters, RecatStutters DEF PagesInv
    <2>4. QED
      BY <2>1, <2>2, <2>3
  <1>3. QED
    BY <1>1, <1>2, PTL DEF PagesSpec

\* What is kept of a categorisation of either kind has its type: the pages and
\* fields of its kind alone, a status of one that is under way
\* (buildCategorisationForm, statusEnum.js).
THEOREM PagesTyped == PagesSpec => []PagesTypeOK
  <1>1. PagesInv => PagesTypeOK
    BY InitialImplies, RecatImplies DEF PagesInv, PagesTypeOK
  <1>2. QED
    BY <1>1, PagesInvariant, PTL

\* No answer is stored that its page has hidden from the user, whatever the tabs
\* and whatever changes meanwhile, but for the text about other relevant
\* information; and in one tab no higher security review outlives the decision
\* that asked for it (clearConditionalFields, recat.js).
THEOREM NothingHiddenIsLeft == PagesSpec => []NothingLeftOver
  <1>1. PagesInv => NothingLeftOver
    BY InitialImplies, RecatImplies DEF PagesInv, NothingLeftOver
  <1>2. QED
    BY <1>1, PagesInvariant, PTL

\* No recategorisation reaches the supervisor that security has not reviewed,
\* in any number of tabs (securityInput, referToSecurityIfRequested).
THEOREM SecurityIsAsked == PagesSpec => []SecurityReviewed
  <1>1. PagesInv => SecurityReviewed
    BY RecatImplies DEF PagesInv, SecurityReviewed
  <1>2. QED
    BY <1>1, PagesInvariant, PTL

\* Where the prisoner stays in one estate, every page of a first categorisation
\* can be answered by what it shows, whatever the alerts do (isValid).
THEOREM PagesCanBeAnswered ==
    ASSUME Settled PROVE PagesSpec => []Answerable
  <1>1. PagesInv => Answerable
    BY InitialImplies DEF PagesInv, Answerable
  <1>2. QED
    BY <1>1, PagesInvariant, PTL

\* Where the prisoner stays in one estate, what is submitted holds every page
\* that the tasklist asks for, complete: of a first categorisation that was made
\* in one tab, and of a recategorisation in any number (allSectionsCompleted).
THEOREM WholeIsSubmitted ==
    ASSUME Settled PROVE PagesSpec => []SubmittedWhole
  <1>1. PagesInv => SubmittedWhole
    BY InitialImplies, RecatImplies DEF PagesInv, SubmittedWhole
  <1>2. QED
    BY <1>1, PagesInvariant, PTL

\* Where besides no life sentence is lifted, the category that a man's
\* categorisation is submitted with as the suggested one is the one that follows
\* from the form and from the facts that its review page showed
\* (computeSuggestedCat, mergeRiskProfileData).
THEOREM SuggestionIsFollowed ==
    ASSUME Settled, Lasting PROVE PagesSpec => []SuggestionFollows
  <1>1. PagesInv => SuggestionFollows
    BY InitialImplies DEF PagesInv, SuggestionFollows
  <1>2. QED
    BY <1>1, PagesInvariant, PTL
=============================================================================
