----------------------------- MODULE FormProofs -----------------------------
(***************************************************************************)
(* Proofs about the form: what FormUpdate promises of its document, and    *)
(* NextReview of the date of the next review that it proposes.             *)
(***************************************************************************)
EXTENDS FormUpdate, NextReview, SequenceTheorems, TLAPS
-----------------------------------------------------------------------------
(***************************************************************************)
(* Proofs of what FormUpdate promises, for any number of requests.  What   *)
(* has to be said is what a document may lack between two changes of one   *)
(* request, and that the change that mends it is the next one.             *)
(***************************************************************************)

Reviews == {"higherSecurityReview", "miniHigherSecurityReview"}
Changes ==
    (UNION {{<<"page", p, a>> : a \in Answers[p]} : p \in Parts})
    \cup {<<"requires">>, <<"cancels">>, <<"returns">>, <<"isRead">>}
    \cup {<<"deletes", p>> : p \in Reviews}

\* The changes after which another has to follow, and those that follow.
Opens(c) == c[1] = "page" /\ c[2] = "decision" /\ c[3] = "open"
Asks(c) == c[1] = "requires"
Reviewed(c) == c[1] = "page" /\ c[2] \in Reviews
Drops(c, p) == c[1] = "deletes" /\ c[2] = p
Chooses(c) == \E p \in Reviews : Drops(c, p)

\* The changes that a request has still to make.
WellMade(s) ==
    /\ s \in Seq(Changes)
    /\ \A i \in 1..Len(s) :
          /\ Opens(s[i]) => i < Len(s) /\ Asks(s[i + 1])
          /\ Reviewed(s[i]) => i < Len(s) /\ Chooses(s[i + 1])

\* DocumentWhole, of any document.
OneAssessment(d) == "none" \in {d["oasysInput"], d["bcstInput"]}
OneReview(d) == "none" \in {d["higherSecurityReview"], d["miniHigherSecurityReview"]}
Asked(d) == d["decision"] = "open" => d["openConditionsRequested"] = "given"
TextBeside(d) == d["changeCategory"] # "none" => d["review"] = "changeClosed"

\* A document is whole, or the next of the changes makes it whole.
Mended(d, rest) ==
    /\ OneAssessment(d) /\ TextBeside(d)
    /\ Asked(d) \/ (rest # <<>> /\ Asks(Head(rest)))
    /\ OneReview(d) \/ (rest # <<>> /\ Chooses(Head(rest)))
Whole(d) == OneAssessment(d) /\ TextBeside(d) /\ Asked(d) /\ OneReview(d)

Asking == [changes : Seq(Changes), all : Posted \cup {<<>>}, read : SUBSET Documents]

\* What a request has read is for a change it has still to make.
Sound(it) == /\ WellMade(it.changes) /\ Len(it.changes) <= Len(it.all)
             /\ it.read # {} => it.changes # <<>>

Typed ==
    /\ overlap \in BOOLEAN
    /\ row \in Documents /\ owed \in Documents /\ written \in Documents
    /\ holder \in Requests \cup {NoRequest}
    /\ request \in [Requests -> Asking]
    /\ \A r \in Requests : Sound(request[r])
    /\ posts \in 0..MaxPosts

\* What a request has read is the row as somebody left it, or what it wrote.
WholeInv ==
    /\ Whole(row)
    /\ \A r \in Requests :
          /\ holder = r => /\ Active(r)
                           /\ Mended(written, request[r].changes)
                           /\ request[r].read \subseteq {written}
          /\ holder # r => \A d \in request[r].read : Whole(d)

-----------------------------------------------------------------------------
(* The changes. *)

LEMMA PartsAre ==
    /\ Parts = {"riskAssessment", "oasysInput", "bcstInput", "decision",
                "higherSecurityReview", "miniHigherSecurityReview",
                "openConditionsRequested", "openConditions", "review",
                "changeCategory", "confirmBack"}
    /\ Answers["riskAssessment"] = {"given"} /\ Answers["oasysInput"] = {"given"}
    /\ Answers["bcstInput"] = {"given"}
    /\ Answers["decision"] = {"open", "same", "higher"}
    /\ Answers["higherSecurityReview"] = {"given"}
    /\ Answers["miniHigherSecurityReview"] = {"given"}
    /\ Answers["openConditionsRequested"] = {"given"}
    /\ Answers["openConditions"] = {"given"}
    /\ Answers["review"] = {"agree", "changeClosed", "changeOpen"}
    /\ Answers["changeCategory"] = {"given"}
    /\ Answers["confirmBack"] = {"unread", "read"}
BY DEF Parts, Answers

\* A document is a function of its parts.
LEMMA DocumentFacts ==
    ASSUME NEW d \in Documents
    PROVE  /\ d = [p \in Parts |-> d[p]]
           /\ \A p \in Parts : d[p] \in Answers[p] \cup {"none"}
BY DEF Documents

LEMMA FunctionsAreDocuments ==
    ASSUME NEW d, d = [p \in Parts |-> d[p]],
           \A p \in Parts : d[p] \in Answers[p] \cup {"none"}
    PROVE  d \in Documents
<1>1. d \in [Parts -> (UNION {Answers[p] : p \in Parts}) \cup {"none"}]
  <2>1. \A p \in Parts : d[p] \in (UNION {Answers[q] : q \in Parts}) \cup {"none"}
    OBVIOUS
  <2>. QED
    BY <2>1
<1>. QED
  BY <1>1 DEF Documents

LEMMA WithoutFacts ==
    ASSUME NEW d \in Documents, NEW parts
    PROVE  /\ Without(d, parts) \in Documents
           /\ \A p \in Parts : Without(d, parts)[p] = IF p \in parts THEN "none" ELSE d[p]
<1>1. \A p \in Parts : Without(d, parts)[p] = IF p \in parts THEN "none" ELSE d[p]
  BY DEF Without
<1>2. Without(d, parts) = [p \in Parts |-> Without(d, parts)[p]]
  BY DEF Without
<1>3. \A p \in Parts : Without(d, parts)[p] \in Answers[p] \cup {"none"}
  BY <1>1, DocumentFacts
<1>. QED
  BY <1>1, <1>2, <1>3, FunctionsAreDocuments

LEMMA ExceptFacts ==
    ASSUME NEW d \in Documents, NEW page \in Parts, NEW answer \in Answers[page]
    PROVE  /\ [d EXCEPT ![page] = answer] \in Documents
           /\ \A p \in Parts : [d EXCEPT ![page] = answer][p]
                                  = IF p = page THEN answer ELSE d[p]
<1>. DEFINE e == [d EXCEPT ![page] = answer]
<1>1. \A p \in Parts : e[p] = IF p = page THEN answer ELSE d[p]
  BY DocumentFacts
<1>2. e = [p \in Parts |-> e[p]]
  BY DocumentFacts
<1>3. \A p \in Parts : e[p] \in Answers[p] \cup {"none"}
  BY <1>1, DocumentFacts
<1>. HIDE DEF e
<1>4. e \in Documents
  BY <1>2, <1>3, FunctionsAreDocuments
<1>. QED
  BY <1>1, <1>4 DEF e

\* A page that is saved, and what is left of the others.
LEMMA PageFacts ==
    ASSUME NEW d \in Documents, NEW page \in Parts, NEW answer \in Answers[page]
    PROVE  /\ Page(d, page, answer) \in Documents
           /\ \A p \in Parts \ {"changeCategory", "oasysInput", "bcstInput"} :
                 Page(d, page, answer)[p] = IF p = page THEN answer ELSE d[p]
           /\ TextBeside(Page(d, page, answer))
           /\ OneAssessment(d) => OneAssessment(Page(d, page, answer))
<1>. DEFINE e == [d EXCEPT ![page] = answer]
            gone == (IF e["review"] = "changeClosed" THEN {} ELSE {"changeCategory"})
                    \cup (IF page = "oasysInput" THEN {"bcstInput"} ELSE {})
                    \cup (IF page = "bcstInput" THEN {"oasysInput"} ELSE {})
<1>1. e \in Documents /\ \A p \in Parts : e[p] = IF p = page THEN answer ELSE d[p]
  BY ExceptFacts
<1>2. Page(d, page, answer) = Without(e, gone)
  BY DEF Page, Relevant
<1>. HIDE DEF e
<1>3. /\ "changeCategory" \in gone <=> e["review"] # "changeClosed"
      /\ "bcstInput" \in gone <=> page = "oasysInput"
      /\ "oasysInput" \in gone <=> page = "bcstInput"
      /\ gone \subseteq {"changeCategory", "oasysInput", "bcstInput"}
  OBVIOUS
<1>. HIDE DEF gone
<1>4. /\ Without(e, gone) \in Documents
      /\ \A p \in Parts : Without(e, gone)[p] = IF p \in gone THEN "none" ELSE e[p]
  BY <1>1, WithoutFacts
<1>5. \A p \in Parts \ {"changeCategory", "oasysInput", "bcstInput"} :
         Without(e, gone)[p] = IF p = page THEN answer ELSE d[p]
  BY <1>1, <1>3, <1>4
<1>6. TextBeside(Without(e, gone))
  BY <1>3, <1>4, PartsAre DEF TextBeside
<1>7. OneAssessment(d) => OneAssessment(Without(e, gone))
  BY <1>1, <1>3, <1>4, PartsAre DEF OneAssessment
<1>. QED
  BY <1>2, <1>4, <1>5, <1>6, <1>7

\* What a change does to what makes a document whole.
Keeps(d, c, e) ==
    /\ e \in Documents
    /\ OneAssessment(d) => OneAssessment(e)
    /\ TextBeside(d) => TextBeside(e)
    /\ Asked(d) \/ Asks(c) => Asked(e) \/ Opens(c)
    /\ OneReview(d) \/ Chooses(c) => OneReview(e) \/ Reviewed(c)

LEMMA PageKeeps ==
    ASSUME NEW d \in Documents, NEW page \in Parts, NEW answer \in Answers[page]
    PROVE  Keeps(d, <<"page", page, answer>>, Page(d, page, answer))
<1>. DEFINE c == <<"page", page, answer>>
            e == Page(d, page, answer)
<1>1. c[1] = "page" /\ c[2] = page /\ c[3] = answer
  OBVIOUS
<1>2. ~Asks(c) /\ ~Chooses(c) /\ (Opens(c) <=> page = "decision" /\ answer = "open")
      /\ (Reviewed(c) <=> page \in Reviews)
  BY <1>1 DEF Asks, Chooses, Drops, Opens, Reviewed
<1>. HIDE DEF c, e
<1>3. /\ e \in Documents
      /\ \A p \in Parts \ {"changeCategory", "oasysInput", "bcstInput"} :
            e[p] = IF p = page THEN answer ELSE d[p]
      /\ TextBeside(e) /\ (OneAssessment(d) => OneAssessment(e))
  BY PageFacts DEF e
<1>4. Asked(d) => Asked(e) \/ Opens(c)
  <2>1. e["decision"] = IF "decision" = page THEN answer ELSE d["decision"]
    BY <1>3, PartsAre
  <2>2. e["openConditionsRequested"] = IF "openConditionsRequested" = page
                                       THEN answer ELSE d["openConditionsRequested"]
    BY <1>3, PartsAre
  <2>3. page = "openConditionsRequested" => answer = "given"
    BY PartsAre
  <2>. QED
    BY <1>2, <2>1, <2>2, <2>3 DEF Asked
<1>5. OneReview(d) => OneReview(e) \/ Reviewed(c)
  <2>1. ASSUME page \notin Reviews PROVE \A p \in Reviews : e[p] = d[p]
    BY <1>3, <2>1, PartsAre DEF Reviews
  <2>. QED
    BY <1>2, <2>1 DEF OneReview, Reviews
<1>6. Keeps(d, c, e)
  BY <1>2, <1>3, <1>4, <1>5 DEF Keeps
<1>. QED
  BY <1>6 DEF c, e

\* openConditionsRequested is set, and else nothing.
LEMMA RequiresFacts ==
    ASSUME NEW d \in Documents
    PROVE  /\ Requires(d) \in Documents
           /\ \A p \in Parts : Requires(d)[p]
                  = IF p = "openConditionsRequested" THEN "given" ELSE d[p]
<1>1. "openConditionsRequested" \in Parts /\ "given" \in Answers["openConditionsRequested"]
  BY PartsAre
<1>. QED
  BY <1>1, ExceptFacts DEF Requires

LEMMA EditedKeeps ==
    ASSUME NEW d \in Documents, NEW c \in Changes
    PROVE  Keeps(d, c, Edited(d, c)) /\ (Needless(d, c) => Edited(d, c) = d)
<1>1. CASE \E p \in Parts : \E a \in Answers[p] : c = <<"page", p, a>>
  <2>0. PICK p \in Parts : \E a \in Answers[p] : c = <<"page", p, a>>
    BY <1>1
  <2>1. PICK a \in Answers[p] : c = <<"page", p, a>>
    BY <2>0
  <2>2. c[1] = "page" /\ c[2] = p /\ c[3] = a
    BY <2>1
  <2>3. Edited(d, c) = Page(d, p, a)
    BY <2>2 DEF Edited
  <2>4. ~Needless(d, c)
    BY <2>2 DEF Needless
  <2>. QED
    BY <2>1, <2>3, <2>4, PageKeeps
<1>2. CASE c = <<"requires">>
  <2>1. c[1] = "requires"
    BY <1>2
  <2>2. Edited(d, c) = Requires(d) /\ ~Needless(d, c)
    BY <2>1 DEF Edited, Needless
  <2>3. Asks(c) /\ ~Chooses(c)
    BY <2>1 DEF Asks, Chooses, Drops
  <2>4. Keeps(d, c, Requires(d))
    BY <2>3, RequiresFacts, PartsAre DEF Keeps, OneAssessment, TextBeside, Asked, OneReview
  <2>. QED
    BY <2>2, <2>4
<1>3. CASE c = <<"cancels">>
  <2>1. c[1] = "cancels"
    BY <1>3
  <2>2. Edited(d, c) = Cancels(d) /\ ~Needless(d, c)
    BY <2>1 DEF Edited, Needless
  <2>3. ~Asks(c) /\ ~Chooses(c)
    BY <2>1 DEF Asks, Chooses, Drops
  <2>. DEFINE gone == {"openConditions", "openConditionsRequested"}
                      \cup IF d["decision"] = "open" THEN {"decision"} ELSE {}
  <2>4. /\ Cancels(d) \in Documents
        /\ \A p \in Parts : Cancels(d)[p] = IF p \in gone THEN "none" ELSE d[p]
    BY WithoutFacts DEF Cancels
  <2>5. \A p \in Parts \ {"openConditions", "openConditionsRequested", "decision"} :
           Cancels(d)[p] = d[p]
    BY <2>4
  <2>6. Cancels(d)["decision"] # "open"
    BY <2>4, PartsAre
  <2>7. Keeps(d, c, Cancels(d))
    BY <2>3, <2>4, <2>5, <2>6, PartsAre
       DEF Keeps, OneAssessment, TextBeside, Asked, OneReview
  <2>. QED
    BY <2>2, <2>7
<1>4. CASE c = <<"returns">>
  <2>1. c[1] = "returns"
    BY <1>4
  <2>2. Edited(d, c) = Returned(d) /\ ~Needless(d, c)
    BY <2>1 DEF Edited, Needless
  <2>3. ~Asks(c) /\ ~Chooses(c)
    BY <2>1 DEF Asks, Chooses, Drops
  <2>4. CASE Returned(d) = d
    <3>1. Keeps(d, c, d)
      BY <2>3 DEF Keeps
    <3>. QED
      BY <2>2, <2>4, <3>1
  <2>5. CASE Returned(d) = Requires(Without(d, {"decision"}))
    <3>. DEFINE w == Without(d, {"decision"})
    <3>1. /\ w \in Documents
          /\ \A p \in Parts : w[p] = IF p = "decision" THEN "none" ELSE d[p]
      BY WithoutFacts
    <3>. HIDE DEF w
    <3>2. /\ Requires(w) \in Documents
          /\ \A p \in Parts : Requires(w)[p]
                 = IF p = "openConditionsRequested" THEN "given" ELSE w[p]
      BY <3>1, RequiresFacts
    <3>3. Keeps(d, c, Requires(w))
      BY <2>3, <3>1, <3>2, PartsAre DEF Keeps, OneAssessment, TextBeside, Asked, OneReview
    <3>. QED
      BY <2>2, <2>5, <3>3 DEF w
  <2>6. Returned(d) = d \/ Returned(d) = Requires(Without(d, {"decision"}))
    BY DEF Returned
  <2>. QED
    BY <2>2, <2>4, <2>5, <2>6
<1>5. CASE c = <<"isRead">>
  <2>1. c[1] = "isRead"
    BY <1>5
  <2>2. Edited(d, c) = IsRead(d) /\ ~Needless(d, c)
    BY <2>1 DEF Edited, Needless
  <2>3. ~Asks(c) /\ ~Chooses(c)
    BY <2>1 DEF Asks, Chooses, Drops
  <2>4. "confirmBack" \in Parts /\ "read" \in Answers["confirmBack"]
    BY PartsAre
  <2>5. /\ IsRead(d) \in Documents
        /\ \A p \in Parts : IsRead(d)[p] = IF p = "confirmBack" THEN "read" ELSE d[p]
    BY <2>4, ExceptFacts DEF IsRead
  <2>6. Keeps(d, c, IsRead(d))
    BY <2>3, <2>5, PartsAre DEF Keeps, OneAssessment, TextBeside, Asked, OneReview
  <2>. QED
    BY <2>2, <2>6
<1>6. CASE \E p \in Reviews : c = <<"deletes", p>>
  <2>1. PICK p \in Reviews : c = <<"deletes", p>>
    BY <1>6
  <2>2. c[1] = "deletes" /\ c[2] = p
    BY <2>1
  <2>3. Edited(d, c) = Without(d, {p})
    BY <2>2 DEF Edited
  <2>. DEFINE e == Without(d, {p})
  <2>4. e \in Documents /\ \A q \in Parts : e[q] = IF q = p THEN "none" ELSE d[q]
    BY WithoutFacts
  <2>5. ASSUME Needless(d, c) PROVE e = d
    <3>1. d[p] = "none"
      BY <2>2, <2>5 DEF Needless
    <3>. HIDE DEF e
    <3>2. \A q \in Parts : e[q] = d[q]
      BY <2>4, <3>1
    <3>3. e = [q \in Parts |-> e[q]] /\ d = [q \in Parts |-> d[q]]
      BY <2>4, DocumentFacts
    <3>. QED
      BY <3>2, <3>3
  <2>6. ~Asks(c)
    BY <2>2 DEF Asks
  <2>. HIDE DEF e
  <2>7. Keeps(d, c, e)
    BY <2>4, <2>6, PartsAre DEF Keeps, OneAssessment, TextBeside, Asked, OneReview, Reviews
  <2>. QED
    BY <2>3, <2>5, <2>7 DEF e
<1>. QED
  BY <1>1, <1>2, <1>3, <1>4, <1>5, <1>6 DEF Changes
-----------------------------------------------------------------------------
(* The requests. *)

LEMMA ChangesAre ==
    /\ \A p \in Parts : \A a \in Answers[p] : <<"page", p, a>> \in Changes
    /\ {<<"requires">>, <<"cancels">>, <<"returns">>, <<"isRead">>} \subseteq Changes
    /\ \A p \in Reviews : <<"deletes", p>> \in Changes
BY DEF Changes

\* A change after which nothing has to follow.
Plain(c) == c \in Changes /\ ~Opens(c) /\ ~Reviewed(c)

LEMMA PlainChanges ==
    /\ \A p \in Parts \ {"decision", "higherSecurityReview", "miniHigherSecurityReview"} :
          \A a \in Answers[p] : Plain(<<"page", p, a>>)
    /\ Plain(<<"page", "decision", "same">>) /\ Plain(<<"page", "decision", "higher">>)
    /\ Plain(<<"requires">>) /\ Plain(<<"cancels">>) /\ Plain(<<"returns">>)
    /\ Plain(<<"isRead">>)
    /\ \A p \in Reviews : Plain(<<"deletes", p>>) /\ Chooses(<<"deletes", p>>)
    /\ Asks(<<"requires">>)
<1>1. ASSUME NEW p \in Parts \ {"decision", "higherSecurityReview",
                                "miniHigherSecurityReview"},
             NEW a \in Answers[p]
      PROVE  Plain(<<"page", p, a>>)
  BY ChangesAre DEF Plain, Opens, Reviewed, Reviews
<1>2. Plain(<<"page", "decision", "same">>) /\ Plain(<<"page", "decision", "higher">>)
  BY ChangesAre, PartsAre DEF Plain, Opens, Reviewed, Reviews
<1>3. /\ Plain(<<"requires">>) /\ Plain(<<"cancels">>) /\ Plain(<<"returns">>)
      /\ Plain(<<"isRead">>) /\ Asks(<<"requires">>)
  BY ChangesAre DEF Plain, Opens, Reviewed, Asks
<1>4. ASSUME NEW p \in Reviews
      PROVE  Plain(<<"deletes", p>>) /\ Chooses(<<"deletes", p>>)
  BY ChangesAre DEF Plain, Opens, Reviewed, Chooses, Drops
<1>. QED
  BY <1>1, <1>2, <1>3, <1>4

LEMMA OneChange ==
    ASSUME NEW c, Plain(c)
    PROVE  WellMade(<<c>>) /\ Len(<<c>>) = 1
<1>1. <<c>> \in Seq(Changes) /\ Len(<<c>>) = 1 /\ <<c>>[1] = c
  BY DEF Plain
<1>. QED
  BY <1>1 DEF WellMade, Plain

LEMMA TwoChanges ==
    ASSUME NEW c, NEW d, c \in Changes, Plain(d),
           Opens(c) => Asks(d), Reviewed(c) => Chooses(d)
    PROVE  WellMade(<<c, d>>) /\ Len(<<c, d>>) = 2
<1>. DEFINE s == <<c, d>>
<1>1. s \in Seq(Changes) /\ Len(s) = 2 /\ s[1] = c /\ s[2] = d
  BY DEF Plain
<1>. HIDE DEF s
<1>2. \A i \in 1..Len(s) : i = 1 \/ i = 2
  BY <1>1
<1>3. WellMade(s)
  BY <1>1, <1>2 DEF WellMade, Plain
<1>. QED
  BY <1>1, <1>3 DEF s

LEMMA FourChanges ==
    ASSUME NEW c, NEW d, NEW e, NEW f, c \in Changes, Plain(d), Plain(e), Plain(f),
           Opens(c) => Asks(d), ~Reviewed(c)
    PROVE  WellMade(<<c, d, e, f>>) /\ Len(<<c, d, e, f>>) = 4
<1>. DEFINE s == <<c, d, e, f>>
<1>1. /\ s \in Seq(Changes) /\ Len(s) = 4
      /\ s[1] = c /\ s[2] = d /\ s[3] = e /\ s[4] = f
  BY DEF Plain
<1>. HIDE DEF s
<1>2. \A i \in 1..Len(s) : i = 1 \/ i = 2 \/ i = 3 \/ i = 4
  BY <1>1
<1>3. WellMade(s)
  BY <1>1, <1>2 DEF WellMade, Plain
<1>. QED
  BY <1>1, <1>3 DEF s

LEMMA FourInARow ==
    ASSUME NEW c, NEW d, NEW e, NEW f
    PROVE  <<c, d>> \o <<e, f>> = <<c, d, e, f>>
<1>. DEFINE S == {c, d, e, f}
            s == <<c, d>>
            u == <<e, f>>
            w == <<c, d, e, f>>
<1>1. s \in Seq(S) /\ u \in Seq(S) /\ w \in Seq(S)
  OBVIOUS
<1>2. /\ Len(s) = 2 /\ s[1] = c /\ s[2] = d
      /\ Len(u) = 2 /\ u[1] = e /\ u[2] = f
      /\ Len(w) = 4 /\ w[1] = c /\ w[2] = d /\ w[3] = e /\ w[4] = f
  OBVIOUS
<1>. HIDE DEF S, s, u, w
<1>3. /\ s \o u \in Seq(S) /\ Len(s \o u) = 4
      /\ \A i \in 1..4 : (s \o u)[i] = IF i <= 2 THEN s[i] ELSE u[i - 2]
  <2>1. /\ s \o u \in Seq(S)
        /\ Len(s \o u) = Len(s) + Len(u)
        /\ \A i \in 1..Len(s) + Len(u) :
              (s \o u)[i] = IF i <= Len(s) THEN s[i] ELSE u[i - Len(s)]
    BY <1>1, ConcatProperties, Zenon
  <2>. QED
    BY <1>2, <2>1
<1>4. \A i \in 1..4 : i = 1 \/ i = 2 \/ i = 3 \/ i = 4
  OBVIOUS
<1>5. \A i \in 1..4 : (s \o u)[i] = w[i]
  BY <1>2, <1>3, <1>4
<1>6. \A v \in Seq(S) : Len(v) = 4 => v = [i \in 1..4 |-> v[i]]
  OBVIOUS
<1>7. s \o u = w
  BY <1>1, <1>2, <1>3, <1>5, <1>6
<1>. QED
  BY <1>7 DEF s, u, w

LEMMA PostedFacts ==
    ASSUME NEW s \in Posted
    PROVE  WellMade(s) /\ Len(s) \in 1..4
<1>. DEFINE dh == <<"deletes", "higherSecurityReview">>
            dm == <<"deletes", "miniHigherSecurityReview">>
<1>1. Plain(dh) /\ Plain(dm) /\ Chooses(dh) /\ Chooses(dm)
  BY PlainChanges DEF Reviews
<1>2. CASE \E p \in {"riskAssessment", "oasysInput", "bcstInput", "openConditions",
                     "changeCategory"} : s = << <<"page", p, "given">> >>
  BY <1>2, PlainChanges, PartsAre, OneChange
<1>3. CASE \E c \in Answers["decision"] : s = DecisionPosted(c)
  <2>1. CASE s = DecisionPosted("open")
    <3>1. s = << <<"page", "decision", "open">>, <<"requires">>, dh, dm >>
      BY <2>1, FourInARow DEF DecisionPosted
    <3>2. <<"page", "decision", "open">> \in Changes /\ ~Reviewed(<<"page", "decision", "open">>)
      BY ChangesAre, PartsAre DEF Reviewed, Reviews
    <3>. HIDE DEF dh, dm
    <3>. QED
      BY <1>1, <3>1, <3>2, PlainChanges, FourChanges
  <2>2. CASE s = DecisionPosted("same")
    <3>1. s = << <<"page", "decision", "same">>, <<"cancels">>, dh, dm >>
      BY <2>2, FourInARow DEF DecisionPosted
    <3>. HIDE DEF dh, dm
    <3>. QED
      BY <1>1, <3>1, PlainChanges, FourChanges DEF Plain
  <2>3. CASE s = DecisionPosted("higher")
    <3>1. s = << <<"page", "decision", "higher">>, <<"cancels">> >>
      BY <2>3 DEF DecisionPosted
    <3>. QED
      BY <3>1, PlainChanges, TwoChanges DEF Plain
  <2>. QED
    BY <1>3, <2>1, <2>2, <2>3, PartsAre
<1>4. CASE s = << <<"page", "higherSecurityReview", "given">>, dm >>
  <2>1. /\ <<"page", "higherSecurityReview", "given">> \in Changes
        /\ ~Opens(<<"page", "higherSecurityReview", "given">>)
    BY ChangesAre, PartsAre DEF Opens
  <2>. HIDE DEF dh, dm
  <2>. QED
    BY <1>1, <1>4, <2>1, TwoChanges
<1>5. CASE s = << <<"page", "miniHigherSecurityReview", "given">>, dh >>
  <2>1. /\ <<"page", "miniHigherSecurityReview", "given">> \in Changes
        /\ ~Opens(<<"page", "miniHigherSecurityReview", "given">>)
    BY ChangesAre, PartsAre DEF Opens
  <2>. HIDE DEF dh, dm
  <2>. QED
    BY <1>1, <1>5, <2>1, TwoChanges
<1>6. CASE s = << <<"page", "openConditions", "given">>, <<"cancels">> >>
  BY <1>6, PlainChanges, PartsAre, TwoChanges DEF Plain
<1>7. CASE s = << <<"page", "confirmBack", "unread">>, <<"returns">> >>
  BY <1>7, PlainChanges, PartsAre, TwoChanges DEF Plain
<1>8. CASE s = << <<"isRead">> >>
  BY <1>8, PlainChanges, OneChange
<1>9. CASE \E a \in Answers["review"] : s = << <<"page", "review", a>> >>
  BY <1>9, PlainChanges, PartsAre, OneChange
<1>. QED
  BY <1>2, <1>3, <1>4, <1>5, <1>6, <1>7, <1>8, <1>9 DEF Posted

\* What remains when the first change is made.
LEMMA TailFacts ==
    ASSUME NEW s, WellMade(s), s # <<>>
    PROVE  /\ Head(s) \in Changes /\ WellMade(Tail(s))
           /\ Len(Tail(s)) = Len(s) - 1 /\ Len(s) \in Nat /\ Len(s) > 0
           /\ Opens(Head(s)) => Tail(s) # <<>> /\ Asks(Head(Tail(s)))
           /\ Reviewed(Head(s)) => Tail(s) # <<>> /\ Chooses(Head(Tail(s)))
<1>1. s \in Seq(Changes)
  BY DEF WellMade
<1>2. Len(s) \in Nat /\ Len(s) > 0
  BY <1>1
<1>3. /\ Tail(s) \in Seq(Changes) /\ Len(Tail(s)) = Len(s) - 1
      /\ \A i \in 1..Len(s) - 1 : Tail(s)[i] = s[i + 1]
  BY <1>1, <1>2
<1>4. Head(s) = s[1] /\ Head(s) \in Changes
  BY <1>1, <1>2
<1>5. WellMade(Tail(s))
  <2>1. ASSUME NEW i \in 1..Len(Tail(s))
        PROVE  /\ Opens(Tail(s)[i]) => i < Len(Tail(s)) /\ Asks(Tail(s)[i + 1])
               /\ Reviewed(Tail(s)[i]) => i < Len(Tail(s)) /\ Chooses(Tail(s)[i + 1])
    <3>1. i + 1 \in 1..Len(s) /\ Tail(s)[i] = s[i + 1]
      BY <1>2, <1>3
    <3>2. /\ Opens(s[i + 1]) => i + 1 < Len(s) /\ Asks(s[(i + 1) + 1])
          /\ Reviewed(s[i + 1]) => i + 1 < Len(s) /\ Chooses(s[(i + 1) + 1])
      BY <3>1 DEF WellMade
    <3>3. i + 1 < Len(s) => i < Len(Tail(s)) /\ Tail(s)[i + 1] = s[(i + 1) + 1]
      BY <1>2, <1>3, <3>1
    <3>. QED
      BY <3>1, <3>2, <3>3
  <2>. QED
    BY <1>3, <2>1 DEF WellMade
<1>6. ASSUME 1 < Len(s) PROVE Tail(s) # <<>> /\ Head(Tail(s)) = s[2]
  <2>1. Len(Tail(s)) > 0 /\ Tail(s)[1] = s[2]
    BY <1>2, <1>3, <1>6
  <2>. DEFINE u == Tail(s)
  <2>2. u \in Seq(Changes) /\ Len(u) > 0
    BY <1>3, <2>1
  <2>. HIDE DEF u
  <2>3. u # <<>> /\ Head(u) = u[1]
    BY <2>2
  <2>. QED
    BY <2>1, <2>3 DEF u
<1>7. /\ Opens(s[1]) => 1 < Len(s) /\ Asks(s[1 + 1])
      /\ Reviewed(s[1]) => 1 < Len(s) /\ Chooses(s[1 + 1])
  BY <1>2 DEF WellMade
<1>. QED
  BY <1>2, <1>3, <1>4, <1>5, <1>6, <1>7

\* A change mends what it has to, and leaves to the next what it breaks.
LEMMA ChangeMends ==
    ASSUME NEW d \in Documents, NEW s, WellMade(s), s # <<>>, Mended(d, s)
    PROVE  /\ Edited(d, Head(s)) \in Documents
           /\ Mended(Edited(d, Head(s)), Tail(s))
<1>1. Head(s) \in Changes
  BY TailFacts
<1>2. Keeps(d, Head(s), Edited(d, Head(s)))
  BY <1>1, EditedKeeps
<1>3. /\ Opens(Head(s)) => Tail(s) # <<>> /\ Asks(Head(Tail(s)))
      /\ Reviewed(Head(s)) => Tail(s) # <<>> /\ Chooses(Head(Tail(s)))
  BY TailFacts
<1>. QED
  BY <1>2, <1>3 DEF Keeps, Mended
-----------------------------------------------------------------------------
(* What a request does when it comes alone. *)

\* A step of the function, for as many changes as a request has.
LEMMA AfterSteps ==
    ASSUME NEW d, NEW s, Len(s) \in 0..4
    PROVE  /\ After(d, s)[0] = d
           /\ \A n \in 1..Len(s) : After(d, s)[n] = Edited(After(d, s)[n - 1], s[n])
<1>. DEFINE L == Len(s)
            e1 == Edited(d, s[1])
            e2 == Edited(e1, s[2])
            e3 == Edited(e2, s[3])
            e4 == Edited(e3, s[4])
            w == [n \in 0..L |-> IF n = 0 THEN d ELSE IF n = 1 THEN e1
                                 ELSE IF n = 2 THEN e2 ELSE IF n = 3 THEN e3 ELSE e4]
            Is(g) == g = [n \in 0..L |-> IF n = 0 THEN d ELSE Edited(g[n - 1], s[n])]
<1>1. \A n \in 0..L : w[n] = IF n = 0 THEN d ELSE Edited(w[n - 1], s[n])
  <2>1. CASE L = 0
    BY <2>1
  <2>2. CASE L = 1
    BY <2>2
  <2>3. CASE L = 2
    BY <2>3
  <2>4. CASE L = 3
    BY <2>4
  <2>5. CASE L = 4
    BY <2>5
  <2>. QED
    BY <2>1, <2>2, <2>3, <2>4, <2>5
<1>2. Is(w)
  BY <1>1
<1>3. After(d, s) = CHOOSE g : Is(g)
  BY DEF After
<1>. HIDE DEF w, Is
<1>4. Is(After(d, s))
  BY <1>2, <1>3
<1>. QED
  BY <1>4 DEF Is

LEMMA AloneTyped ==
    ASSUME NEW d \in Documents, NEW s \in Posted
    PROVE  Alone(d, s) \in Documents
<1>. DEFINE a == After(d, s)
<1>1. WellMade(s) /\ Len(s) \in 1..4
  BY PostedFacts
<1>2. a[0] = d /\ \A n \in 1..Len(s) : a[n] = Edited(a[n - 1], s[n])
  BY <1>1, AfterSteps
<1>3. \A n \in 1..Len(s) : s[n] \in Changes
  BY <1>1 DEF WellMade
<1>. HIDE DEF a
<1>4. ASSUME NEW n \in 1..Len(s), a[n - 1] \in Documents
      PROVE  a[n] \in Documents
  BY <1>2, <1>3, <1>4, EditedKeeps DEF Keeps
<1>5. a[0] \in Documents
  BY <1>2
<1>6. a[1] \in Documents
  BY <1>1, <1>4, <1>5
<1>7. 2 <= Len(s) => a[2] \in Documents
  BY <1>1, <1>4, <1>6
<1>8. 3 <= Len(s) => a[3] \in Documents
  BY <1>1, <1>4, <1>7
<1>9. 4 <= Len(s) => a[4] \in Documents
  BY <1>1, <1>4, <1>8
<1>10. a[Len(s)] \in Documents
  <2>1. Len(s) = 1 \/ Len(s) = 2 \/ Len(s) = 3 \/ Len(s) = 4
    BY <1>1
  <2>2. CASE Len(s) = 1
    BY <1>6, <2>2, Zenon
  <2>3. CASE Len(s) = 2
    <3>1. a[2] \in Documents
      BY <1>7, <2>3
    <3>. QED
      BY <3>1, <2>3, Zenon
  <2>4. CASE Len(s) = 3
    <3>1. a[3] \in Documents
      BY <1>8, <2>4
    <3>. QED
      BY <3>1, <2>4, Zenon
  <2>5. CASE Len(s) = 4
    <3>1. a[4] \in Documents
      BY <1>9, <2>5
    <3>. QED
      BY <3>1, <2>5, Zenon
  <2>. QED
    BY <2>1, <2>2, <2>3, <2>4, <2>5
<1>. QED
  BY <1>10 DEF a, Alone
-----------------------------------------------------------------------------
(* The types. *)

LEMMA EmptyFacts ==
    Blank \in Documents /\ Whole(Blank) /\ Idle \in Asking /\ Sound(Idle)
<1>1. Blank = [p \in Parts |-> Blank[p]] /\ \A p \in Parts : Blank[p] = "none"
  BY DEF Blank
<1>2. Blank \in Documents
  BY <1>1, FunctionsAreDocuments
<1>3. Whole(Blank)
  BY <1>1, PartsAre DEF Whole, OneAssessment, TextBeside, Asked, OneReview
<1>4. Idle \in Asking
  BY DEF Idle, Asking
<1>5. Sound(Idle)
  <2>1. Idle.changes = <<>> /\ Idle.all = <<>> /\ Idle.read = {}
    BY DEF Idle
  <2>2. WellMade(<<>>)
    BY DEF WellMade
  <2>. QED
    BY <2>1, <2>2 DEF Sound
<1>. QED
  BY <1>2, <1>3, <1>4, <1>5

\* What each step makes of a request.
PostedBy(r, changes) == [changes |-> changes, all |-> changes, read |-> {}]
ReadBy(r) == [request[r] EXCEPT !.read = {Visible(r)}]
ChangedBy(r) == [changes |-> Tail(request[r].changes), all |-> request[r].all, read |-> {}]

LEMMA RequestSteps ==
    ASSUME Typed, NEW r \in Requests
    PROVE  /\ request[r] \in Asking
           /\ Post(r) => \E changes \in Posted :
                            request' = [request EXCEPT ![r] = PostedBy(r, changes)]
           /\ Read(r) => request' = [request EXCEPT ![r] = ReadBy(r)]
           /\ Write(r) => request' = [request EXCEPT ![r] = ChangedBy(r)]
           /\ Commit(r) \/ Fail(r) => request' = [request EXCEPT ![r] = Idle]
<1>1. request \in [Requests -> Asking] /\ request[r] \in Asking
  BY DEF Typed
<1>3. Post(r) => \E changes \in Posted :
                    request' = [request EXCEPT ![r] = PostedBy(r, changes)]
  BY DEF Post, PostedBy
<1>4. Read(r) => request' = [request EXCEPT ![r] = ReadBy(r)]
  BY <1>1 DEF Read, ReadBy
<1>5. Changed(r) = [request EXCEPT ![r] = ChangedBy(r)]
  BY <1>1 DEF Changed, ChangedBy
<1>6. Write(r) => request' = [request EXCEPT ![r] = ChangedBy(r)]
  BY <1>5 DEF Write
<1>7. Commit(r) \/ Fail(r) => request' = [request EXCEPT ![r] = Idle]
  BY DEF Commit, Fail, Ended
<1>. QED
  BY <1>1, <1>3, <1>4, <1>6, <1>7

LEMMA NextTyped ==
    ASSUME Typed, [FormNext]_formVars
    PROVE  Typed'
<1>. overlap' \in BOOLEAN
  BY DEF Typed, FormNext, formVars
<1>0. /\ request \in [Requests -> Asking] /\ posts \in 0..MaxPosts
      /\ row \in Documents /\ owed \in Documents /\ written \in Documents
      /\ holder \in Requests \cup {NoRequest}
      /\ \A r \in Requests : Sound(request[r])
      /\ MaxPosts \in Nat
  BY FormAssumption DEF Typed, NoRequest
<1>1. ASSUME NEW r \in Requests, NEW it \in Asking, Sound(it),
             request' = [request EXCEPT ![r] = it],
             row' \in Documents, owed' \in Documents, written' \in Documents,
             holder' \in Requests \cup {NoRequest}, posts' \in 0..MaxPosts
      PROVE  Typed'
  <2>1. request'[r] = it /\ \A q \in Requests \ {r} : request'[q] = request[q]
    BY <1>0, <1>1
  <2>2. request' \in [Requests -> Asking]
    BY <1>0, <1>1
  <2>. QED
    BY <1>0, <1>1, <2>1, <2>2 DEF Typed
<1>2. ASSUME NEW r \in Requests, Post(r) PROVE Typed'
  <2>1. PICK changes \in Posted :
           request' = [request EXCEPT ![r] = PostedBy(r, changes)]
    BY <1>2, RequestSteps
  <2>2. WellMade(changes) /\ Len(changes) \in 1..4 /\ changes \in Seq(Changes)
    BY PostedFacts DEF WellMade
  <2>3. /\ PostedBy(r, changes) \in Asking
        /\ PostedBy(r, changes).changes = changes /\ PostedBy(r, changes).all = changes
        /\ PostedBy(r, changes).read = {}
    BY <2>2 DEF PostedBy, Asking
  <2>4. posts' \in 0..MaxPosts
    BY <1>0, <1>2 DEF Post
  <2>5. Sound(PostedBy(r, changes))
    BY <2>2, <2>3 DEF Sound
  <2>. QED
    BY <1>0, <1>1, <1>2, <2>1, <2>3, <2>4, <2>5 DEF Post
<1>3. ASSUME NEW r \in Requests, Read(r) PROVE Typed'
  <2>1. Visible(r) \in Documents
    BY <1>0 DEF Visible
  <2>2. /\ ReadBy(r) \in Asking
        /\ ReadBy(r).changes = request[r].changes /\ ReadBy(r).all = request[r].all
    BY <1>0, <2>1 DEF ReadBy, Asking
  <2>3. Sound(ReadBy(r))
    BY <1>0, <1>3, <2>2 DEF Sound, Read
  <2>. QED
    BY <1>0, <1>1, <1>3, <2>2, <2>3, RequestSteps DEF Read
<1>4. ASSUME NEW r \in Requests, Write(r) PROVE Typed'
  <2>1. PICK d \in request[r].read :
           \/ UNCHANGED <<row, holder, written, posts, owed>>
           \/ /\ holder' = r /\ written' = Edited(d, Head(request[r].changes))
              /\ UNCHANGED <<row, posts, owed>>
    BY <1>4 DEF Write
  <2>2. request[r] \in Asking /\ d \in Documents
    BY <1>0 DEF Asking
  <2>. DEFINE s == request[r].changes
  <2>3. WellMade(s) /\ s # <<>> /\ Len(s) <= Len(request[r].all)
    BY <1>0, <2>1 DEF Sound
  <2>4. /\ Head(s) \in Changes /\ WellMade(Tail(s)) /\ Tail(s) \in Seq(Changes)
        /\ Len(Tail(s)) <= Len(request[r].all)
    <3>1. /\ Head(s) \in Changes /\ WellMade(Tail(s))
          /\ Len(Tail(s)) = Len(s) - 1 /\ Len(s) \in Nat
      BY <2>3, TailFacts
    <3>2. Len(request[r].all) \in Nat
      <4>1. request[r].all \in Posted \cup {<<>>}
        BY <2>2 DEF Asking
      <4>2. request[r].all = <<>> => Len(request[r].all) = 0
        OBVIOUS
      <4>. QED
        BY <4>1, <4>2, PostedFacts
    <3>3. Tail(s) \in Seq(Changes)
      BY <3>1 DEF WellMade
    <3>. HIDE DEF s
    <3>4. Len(s) - 1 <= Len(request[r].all)
      BY <2>3, <3>1, <3>2
    <3>. QED
      BY <3>1, <3>3, <3>4
  <2>5. /\ ChangedBy(r) \in Asking
        /\ ChangedBy(r).changes = Tail(s) /\ ChangedBy(r).all = request[r].all
        /\ ChangedBy(r).read = {}
    BY <2>2, <2>4 DEF ChangedBy, Asking
  <2>6. Sound(ChangedBy(r))
    BY <2>4, <2>5 DEF Sound
  <2>7. Edited(d, Head(s)) \in Documents
    BY <2>2, <2>4, EditedKeeps DEF Keeps
  <2>. HIDE DEF s
  <2>8. written' \in Documents /\ holder' \in Requests \cup {NoRequest}
        /\ UNCHANGED <<row, posts, owed>>
    BY <1>0, <2>1, <2>7 DEF s
  <2>. QED
    BY <1>0, <1>1, <1>4, <2>5, <2>6, <2>8, RequestSteps
<1>5. ASSUME NEW r \in Requests, Commit(r) PROVE Typed'
  <2>1. request[r] \in Asking /\ request[r].all # <<>>
    BY <1>0, <1>5 DEF Commit, Active
  <2>2. request[r].all \in Posted
    BY <2>1 DEF Asking
  <2>3. owed' \in Documents
    BY <1>0, <1>5, <2>2, AloneTyped DEF Commit
  <2>4. row' \in Documents
    BY <1>0, <1>5 DEF Commit
  <2>5. /\ holder' \in Requests \cup {NoRequest} /\ written' \in Documents
        /\ posts' = posts
    BY <1>0, <1>5, EmptyFacts DEF Commit, Ended
  <2>. QED
    BY <1>0, <1>1, <1>5, <2>3, <2>4, <2>5, RequestSteps, EmptyFacts
<1>6. ASSUME NEW r \in Requests, Fail(r) PROVE Typed'
  <2>1. /\ holder' \in Requests \cup {NoRequest} /\ written' \in Documents
        /\ posts' = posts /\ row' = row /\ owed' = owed
    BY <1>0, <1>6, EmptyFacts DEF Fail, Ended
  <2>. QED
    BY <1>0, <1>1, <1>6, <2>1, RequestSteps, EmptyFacts
<1>7. CASE UNCHANGED formVars
  BY <1>0, <1>7 DEF Typed, formVars
<1>. QED
  BY <1>2, <1>3, <1>4, <1>5, <1>6, <1>7 DEF FormNext
-----------------------------------------------------------------------------
(* The document is whole. *)

LEMMA WholeIsMended ==
    ASSUME NEW d, NEW s, Whole(d) PROVE Mended(d, s)
BY DEF Whole, Mended

LEMMA MendedIsWhole ==
    ASSUME NEW d, Mended(d, <<>>) PROVE Whole(d)
BY DEF Whole, Mended

\* A change that is not needed mends nothing else.
LEMMA NeedlessMends ==
    ASSUME NEW d \in Documents, NEW s, WellMade(s), s # <<>>, Mended(d, s),
           Needless(d, Head(s))
    PROVE  Mended(d, Tail(s))
<1>1. Edited(d, Head(s)) = d
  BY TailFacts, EditedKeeps
<1>. QED
  BY <1>1, ChangeMends

LEMMA WholeStep ==
    ASSUME Typed, WholeInv, [FormNext]_formVars
    PROVE  WholeInv'
<1>0. /\ request \in [Requests -> Asking] /\ written \in Documents
      /\ holder \in Requests \cup {NoRequest} /\ NoRequest \notin Requests
      /\ \A r \in Requests : Sound(request[r]) /\ request[r] \in Asking
  BY FormAssumption DEF Typed, NoRequest
<1>1. ASSUME NEW r \in Requests, Post(r) PROVE WholeInv'
  <2>1. PICK changes \in Posted :
           request' = [request EXCEPT ![r] = PostedBy(r, changes)]
    BY <1>1, RequestSteps
  <2>2. request'[r].read = {} /\ \A q \in Requests \ {r} : request'[q] = request[q]
    BY <1>0, <2>1 DEF PostedBy
  <2>3. holder # r
    BY <1>1 DEF Post, WholeInv
  <2>4. UNCHANGED <<row, holder, written>>
    BY <1>1 DEF Post
  <2>. QED
    BY <2>2, <2>3, <2>4 DEF WholeInv, Active
<1>2. ASSUME NEW r \in Requests, Read(r) PROVE WholeInv'
  <2>1. /\ request'[r] = ReadBy(r)
        /\ \A q \in Requests \ {r} : request'[q] = request[q]
    BY <1>0, <1>2, RequestSteps
  <2>2. /\ request'[r].read = {Visible(r)}
        /\ request'[r].changes = request[r].changes
        /\ request'[r].all = request[r].all
    BY <1>0, <2>1 DEF ReadBy, Asking
  <2>3. UNCHANGED <<row, holder, written>>
    BY <1>2 DEF Read
  <2>. QED
    BY <2>1, <2>2, <2>3 DEF WholeInv, Active, Visible
<1>3. ASSUME NEW r \in Requests, Write(r) PROVE WholeInv'
  <2>. DEFINE s == request[r].changes
  <2>1. PICK d \in request[r].read :
           \/ /\ Needless(d, Head(s))
              /\ UNCHANGED <<row, holder, written>>
           \/ /\ holder \in {r, NoRequest} /\ holder' = r
              /\ written' = Edited(d, Head(s)) /\ row' = row
    BY <1>3 DEF Write
  <2>2. d \in Documents /\ WellMade(s) /\ s # <<>>
    BY <1>0 DEF Asking, Sound
  <2>3. Mended(d, s) /\ (holder = r => d = written)
    BY <2>1, WholeIsMended DEF WholeInv
  <2>4. /\ request'[r] = ChangedBy(r)
        /\ \A q \in Requests \ {r} : request'[q] = request[q]
    BY <1>0, <1>3, RequestSteps
  <2>5. /\ request'[r].changes = Tail(s) /\ request'[r].read = {}
        /\ request'[r].all = request[r].all
    BY <2>4 DEF ChangedBy
  <2>6. Active(r)
    <3>1. Len(s) <= Len(request[r].all) /\ Len(s) > 0 /\ Len(s) \in Nat
      BY <1>0, <2>2, TailFacts DEF Sound
    <3>2. request[r].all # <<>>
      BY <3>1
    <3>. QED
      BY <3>2 DEF Active
  <2>. HIDE DEF s
  <2>7. CASE Needless(d, Head(s)) /\ UNCHANGED <<row, holder, written>>
    <3>1. Mended(d, Tail(s))
      BY <2>2, <2>3, <2>7, NeedlessMends
    <3>. QED
      BY <2>3, <2>4, <2>5, <2>7, <3>1 DEF WholeInv, Active
  <2>8. CASE /\ holder \in {r, NoRequest} /\ holder' = r
             /\ written' = Edited(d, Head(s)) /\ row' = row
    <3>1. Mended(written', Tail(s))
      BY <2>2, <2>3, <2>8, ChangeMends
    <3>2. ASSUME NEW q \in Requests, q # r
          PROVE  holder # q /\ holder' # q /\ request'[q] = request[q]
      BY <1>0, <2>4, <2>8, <3>2
    <3>. QED
      BY <2>5, <2>6, <2>8, <3>1, <3>2 DEF WholeInv, Active
  <2>. QED
    BY <2>1, <2>7, <2>8
<1>4. ASSUME NEW r \in Requests, Commit(r) \/ Fail(r) PROVE WholeInv'
  <2>1. /\ request'[r] = Idle
        /\ \A q \in Requests \ {r} : request'[q] = request[q]
    BY <1>0, <1>4, RequestSteps
  <2>2. request'[r].read = {}
    BY <2>1 DEF Idle
  <2>3. /\ holder' = IF holder = r THEN NoRequest ELSE holder
        /\ written' = IF holder = r THEN Blank ELSE written
    BY <1>4 DEF Commit, Fail, Ended
  <2>4. Whole(row')
    <3>1. CASE Commit(r) /\ holder = r
      <4>1. request[r].changes = <<>> /\ row' = written
        BY <3>1 DEF Commit
      <4>. QED
        BY <3>1, <4>1, MendedIsWhole DEF WholeInv
    <3>2. CASE row' = row
      BY <3>2 DEF WholeInv
    <3>. QED
      BY <1>4, <3>1, <3>2 DEF Commit, Fail
  <2>5. holder' # r /\ (holder' # holder => holder' = NoRequest)
        /\ \A q \in Requests \ {r} : (holder' = q <=> holder = q)
                                     /\ (holder = q => written' = written)
    BY <1>0, <2>3
  <2>. QED
    BY <2>1, <2>2, <2>4, <2>5 DEF WholeInv, Active
<1>5. CASE UNCHANGED formVars
  BY <1>5 DEF WholeInv, Active, formVars
<1>. QED
  BY <1>1, <1>2, <1>3, <1>4, <1>5 DEF FormNext
-----------------------------------------------------------------------------
(* Nothing is lost when one request comes after the other. *)

\* How many of its changes a request has made.
Done(r) == Len(request[r].all) - Len(request[r].changes)

Kept(r) ==
    /\ \A i \in 1..Len(request[r].changes) :
          request[r].changes[i] = request[r].all[Done(r) + i]
    /\ Visible(r) = After(owed, request[r].all)[Done(r)]
    /\ request[r].read \subseteq {Visible(r)}

\* The document is what the answers make of it.
InOrder == row = owed

KeptInv ==
    /\ InOrder
    /\ \A r, s \in Requests : Active(r) /\ Active(s) => r = s
    /\ \A r \in Requests : Active(r) => Kept(r)

\* The numbers of changes that a request has and had.
LEMMA Lengths ==
    ASSUME Typed, NEW r \in Requests
    PROVE  /\ request[r].changes \in Seq(Changes)
           /\ Len(request[r].changes) \in Nat /\ Len(request[r].all) \in 0..4
           /\ Done(r) \in 0..Len(request[r].all)
           /\ Active(r) => request[r].all \in Posted
           /\ ~Active(r) => request[r].all = <<>> /\ request[r].changes = <<>>
                            /\ request[r].read = {}
<1>1. request[r] \in Asking /\ Sound(request[r])
  BY DEF Typed
<1>2. /\ request[r].changes \in Seq(Changes) /\ Len(request[r].changes) \in Nat
      /\ request[r].all \in Posted \cup {<<>>}
      /\ Len(request[r].changes) <= Len(request[r].all)
      /\ request[r].read # {} => request[r].changes # <<>>
  BY <1>1 DEF Asking, Sound
<1>3. Active(r) => request[r].all \in Posted
  BY <1>2 DEF Active
<1>4. Len(request[r].all) \in 0..4
  <2>1. CASE request[r].all = <<>>
    BY <2>1
  <2>2. CASE request[r].all \in Posted
    BY <2>2, PostedFacts
  <2>. QED
    BY <1>2, <2>1, <2>2
<1>5. Done(r) \in 0..Len(request[r].all)
  <2>1. \A m \in Nat, n \in 0..4 : m <= n => n - m \in 0..n
    OBVIOUS
  <2>. QED
    BY <1>2, <1>4, <2>1 DEF Done
<1>6. ASSUME ~Active(r)
      PROVE  request[r].all = <<>> /\ request[r].changes = <<>> /\ request[r].read = {}
  <2>1. request[r].all = <<>>
    BY <1>6 DEF Active
  <2>2. Len(request[r].changes) = 0
    BY <1>2, <2>1
  <2>. DEFINE u == request[r].changes
  <2>3. u \in Seq(Changes) /\ Len(u) = 0
    BY <1>2, <2>2
  <2>. HIDE DEF u
  <2>4. u = <<>>
    BY <2>3
  <2>. QED
    BY <1>2, <2>1, <2>4 DEF u
<1>. QED
  BY <1>2, <1>3, <1>4, <1>5, <1>6

LEMMA KeptStep ==
    ASSUME ~overlap, Typed, WholeInv, KeptInv, [FormNext]_formVars
    PROVE  KeptInv'
<1>0. /\ request \in [Requests -> Asking] /\ row = owed
      /\ holder \in Requests \cup {NoRequest} /\ NoRequest \notin Requests
      /\ \A r \in Requests : Sound(request[r]) /\ request[r] \in Asking
  BY FormAssumption DEF Typed, NoRequest, KeptInv, InOrder
\* The others are idle, and stay so.
<1>1. ASSUME NEW r \in Requests, NEW it,
             \A q \in Requests \ {r} : ~Active(q),
             request' = [request EXCEPT ![r] = it],
             InOrder', Active(r)' => Kept(r)'
      PROVE  KeptInv'
  <2>1. \A q \in Requests \ {r} : request'[q] = request[q]
    BY <1>0, <1>1
  <2>2. \A q \in Requests \ {r} : ~Active(q)'
    BY <1>1, <2>1 DEF Active
  <2>. QED
    BY <1>1, <2>2 DEF KeptInv
<1>2. ASSUME NEW r \in Requests, Post(r) PROVE KeptInv'
  <2>1. PICK changes \in Posted :
           request' = [request EXCEPT ![r] = PostedBy(r, changes)]
    BY <1>2, RequestSteps
  <2>2. \A q \in Requests : ~Active(q)
    BY <1>2 DEF Post
  <2>3. UNCHANGED <<row, holder, written, owed>> /\ holder # r
    BY <1>2, <2>2 DEF Post, WholeInv
  <2>4. /\ request'[r].all = changes /\ request'[r].changes = changes
        /\ request'[r].read = {}
    BY <1>0, <2>1 DEF PostedBy
  <2>5. Len(changes) \in 1..4
    BY PostedFacts
  <2>6. Done(r)' = 0
    BY <2>4, <2>5 DEF Done
  <2>7. Visible(r)' = After(owed, changes)[0]
    <3>1. After(owed, changes)[0] = owed
      BY <2>5, AfterSteps
    <3>. QED
      BY <1>0, <2>3, <3>1 DEF Visible
  <2>8. Kept(r)'
    <3>1. \A i \in 1..Len(changes) : changes[i] = changes[0 + i]
      BY <2>5
    <3>. QED
      BY <2>3, <2>4, <2>6, <2>7, <3>1 DEF Kept
  <2>9. InOrder'
    BY <1>0, <2>3 DEF InOrder
  <2>. QED
    BY <1>1, <2>1, <2>2, <2>8, <2>9
<1>3. ASSUME NEW r \in Requests, Read(r) PROVE KeptInv'
  <2>1. Active(r) /\ Kept(r) /\ \A q \in Requests \ {r} : ~Active(q)
    BY <1>3, Lengths DEF Read, KeptInv
  <2>2. request' = [request EXCEPT ![r] = ReadBy(r)] /\ request'[r] = ReadBy(r)
    BY <1>0, <1>3, RequestSteps
  <2>3. /\ request'[r].read = {Visible(r)}
        /\ request'[r].changes = request[r].changes
        /\ request'[r].all = request[r].all
    BY <1>0, <2>2 DEF ReadBy, Asking
  <2>4. UNCHANGED <<row, holder, written, owed>>
    BY <1>3 DEF Read
  <2>5. Done(r)' = Done(r) /\ Visible(r)' = Visible(r)
    BY <2>3, <2>4 DEF Done, Visible
  <2>6. Kept(r)'
    BY <2>1, <2>3, <2>4, <2>5 DEF Kept
  <2>7. InOrder'
    BY <1>0, <2>4 DEF InOrder
  <2>. QED
    BY <1>1, <2>1, <2>2, <2>6, <2>7
<1>4. ASSUME NEW r \in Requests, Write(r) PROVE KeptInv'
  <2>. DEFINE s == request[r].changes
              all == request[r].all
              n == Done(r)
              c == Head(s)
  <2>1. PICK d \in request[r].read :
           \/ /\ Needless(d, c)
              /\ UNCHANGED <<row, holder, written, owed>>
           \/ /\ holder' = r /\ written' = Edited(d, c)
              /\ UNCHANGED <<row, owed>>
    BY <1>4 DEF Write
  <2>2. Active(r) /\ Kept(r) /\ \A q \in Requests \ {r} : ~Active(q)
    BY <2>1, Lengths DEF KeptInv
  <2>3. d \in Documents /\ WellMade(s) /\ s # <<>> /\ d = Visible(r)
    BY <1>0, <2>1, <2>2 DEF Asking, Sound, Kept
  <2>4. /\ s \in Seq(Changes) /\ Len(s) \in Nat /\ Len(s) > 0
        /\ Len(Tail(s)) = Len(s) - 1 /\ c \in Changes
        /\ Len(all) \in 0..4 /\ n \in 0..Len(all) /\ n = Len(all) - Len(s)
        /\ \A i \in 1..Len(s) : s[i] = all[n + i]
        /\ d = After(owed, all)[n]
    BY <2>2, <2>3, TailFacts, Lengths DEF Done, Kept
  <2>6. request' = [request EXCEPT ![r] = ChangedBy(r)] /\ request'[r] = ChangedBy(r)
    BY <1>0, <1>4, RequestSteps
  <2>7. /\ request'[r].changes = Tail(s) /\ request'[r].all = all
        /\ request'[r].read = {}
    BY <2>6 DEF ChangedBy
  <2>. HIDE DEF s, all, n, c
  <2>8. Done(r)' = n + 1
    <3>1. Done(r)' = Len(all) - Len(Tail(s))
      BY <2>7 DEF Done
    <3>2. \A x, y \in Int : x - (y - 1) = (x - y) + 1
      OBVIOUS
    <3>3. Len(all) \in Int /\ Len(s) \in Int
      BY <2>4
    <3>4. Len(Tail(s)) = Len(s) - 1 /\ n = Len(all) - Len(s)
      BY <2>4
    <3>. QED
      BY <3>1, <3>2, <3>3, <3>4
  <2>5. c = all[n + 1] /\ n + 1 \in 1..Len(all)
    <3>1. c = s[1]
      BY <2>4 DEF c
    <3>. QED
      BY <2>4, <3>1
  <2>9. Visible(r)' = Edited(d, c) /\ owed' = owed /\ row' = row
    <3>1. CASE Needless(d, c) /\ UNCHANGED <<row, holder, written, owed>>
      <4>1. Edited(d, c) = d
        BY <2>3, <2>4, <3>1, EditedKeeps
      <4>. QED
        BY <2>3, <3>1, <4>1 DEF Visible
    <3>2. CASE holder' = r /\ written' = Edited(d, c) /\ UNCHANGED <<row, owed>>
      BY <3>2 DEF Visible
    <3>. QED
      BY <2>1, <3>1, <3>2
  <2>10. Edited(d, c) = After(owed, all)[n + 1]
    <3>1. Len(all) \in 0..4
      BY <2>4
    <3>2. \A m \in 1..Len(all) :
             After(owed, all)[m] = Edited(After(owed, all)[m - 1], all[m])
      BY <3>1, AfterSteps
    <3>3. \A m \in 1..Len(all) :
             m - 1 = n => After(owed, all)[m] = Edited(After(owed, all)[n], all[m])
      BY <3>2, Zenon
    <3>4. (n + 1) - 1 = n
      BY <2>4
    <3>. QED
      BY <2>4, <2>5, <3>3, <3>4, Zenon
  <2>11. \A i \in 1..Len(Tail(s)) : Tail(s)[i] = all[n + 1 + i]
    <3>1. ASSUME NEW i \in 1..Len(Tail(s)) PROVE Tail(s)[i] = all[n + 1 + i]
      <4>1. i + 1 \in 1..Len(s) /\ Tail(s)[i] = s[i + 1]
        BY <2>4
      <4>2. s[i + 1] = all[n + (i + 1)]
        BY <2>4, <4>1
      <4>3. n + (i + 1) = n + 1 + i
        BY <2>4
      <4>. QED
        BY <4>1, <4>2, <4>3
    <3>. QED
      BY <3>1
  <2>12. Kept(r)'
    <3>. QED
      BY <2>7, <2>8, <2>9, <2>10, <2>11 DEF Kept
  <2>13. InOrder'
    BY <1>0, <2>9 DEF InOrder
  <2>. QED
    BY <1>1, <2>2, <2>6, <2>12, <2>13
<1>5. ASSUME NEW r \in Requests, Commit(r) \/ Fail(r) PROVE KeptInv'
  <2>1. Active(r) /\ Kept(r) /\ \A q \in Requests \ {r} : ~Active(q)
    BY <1>5 DEF Commit, Fail, KeptInv
  <2>2. request' = [request EXCEPT ![r] = Idle] /\ request'[r] = Idle
    BY <1>0, <1>5, RequestSteps
  <2>3. ~Active(r)'
    BY <2>2 DEF Active, Idle
  <2>4. InOrder'
    <3>1. CASE Commit(r)
      <4>1. /\ request[r].changes = <<>> /\ row' = Visible(r)
            /\ owed' = Alone(owed, request[r].all)
        BY <3>1 DEF Commit, Visible
      <4>2. Done(r) = Len(request[r].all)
        <5>1. Len(request[r].changes) = 0 /\ Len(request[r].all) \in Nat
          BY <4>1, Lengths
        <5>. QED
          BY <5>1 DEF Done
      <4>. QED
        BY <2>1, <4>1, <4>2 DEF Kept, Alone, InOrder
    <3>2. CASE Fail(r)
      BY <1>0, <3>2 DEF Fail, InOrder
    <3>. QED
      BY <1>5, <3>1, <3>2
  <2>. QED
    BY <1>1, <2>1, <2>2, <2>3, <2>4
<1>6. CASE UNCHANGED formVars
  BY <1>6 DEF KeptInv, InOrder, Active, Kept, Visible, Done, formVars
<1>. QED
  BY <1>2, <1>3, <1>4, <1>5, <1>6 DEF FormNext
-----------------------------------------------------------------------------
LEMMA InitHolds ==
    FormInit => Typed /\ WholeInv /\ KeptInv
<1>. SUFFICES ASSUME FormInit PROVE Typed /\ WholeInv /\ KeptInv
  OBVIOUS
<1>1. /\ row = Blank /\ owed = Blank /\ written = Blank /\ holder = NoRequest
      /\ posts = 0 /\ MaxPosts \in Nat /\ NoRequest \notin Requests
      /\ \A r \in Requests : request[r] = Idle
      /\ request = [r \in Requests |-> Idle]
  BY FormAssumption DEF FormInit, NoRequest
<1>. overlap \in BOOLEAN
  BY DEF FormInit
<1>2. Typed
  BY <1>1, EmptyFacts DEF Typed
<1>3. \A r \in Requests : ~Active(r) /\ request[r].read = {} /\ holder # r
  BY <1>1 DEF Active, Idle
<1>4. WholeInv
  BY <1>1, <1>3, EmptyFacts DEF WholeInv
<1>5. KeptInv
  BY <1>1, <1>3 DEF KeptInv, InOrder
<1>. QED
  BY <1>2, <1>4, <1>5

LEMMA WholeAlways == FormSpec => [](Typed /\ WholeInv)
<1>1. FormInit => Typed /\ WholeInv
  BY InitHolds
<1>2. Typed /\ WholeInv /\ [FormNext]_formVars => (Typed /\ WholeInv)'
  BY NextTyped, WholeStep
<1>. QED
  BY <1>1, <1>2, PTL DEF FormSpec

\* The documents are documents, and the requests those that are modelled.
THEOREM FormTypeCorrect == FormSpec => []FormTypeOK
<1>1. Typed => FormTypeOK
  <2>1. Typed => \A r \in Requests :
           /\ request[r].all \in Posted \cup {<<>>}
           /\ Len(request[r].changes) <= Len(request[r].all)
           /\ request[r].read \subseteq Documents
    BY DEF Typed, Asking, Sound
  <2>. QED
    BY <2>1 DEF Typed, FormTypeOK
<1>. QED
  BY <1>1, WholeAlways, PTL

\* Whatever overlaps, the committed document makes sense: what excludes each
\* other is not kept together, an open category stands only with the open
\* conditions asked for, and a text only beside the decision it explains
\* (FormService.update, recat.js).  Any number of requests, each of which may
\* overwrite what another has written.
THEOREM TheDocumentIsWhole == FormSpec => []DocumentWhole
<1>1. WholeInv => DocumentWhole
  BY DEF WholeInv, Whole, DocumentWhole, OneOfEach, DecisionWhole, ChangeWhole,
         OneAssessment, OneReview, Asked, TextBeside
<1>. QED
  BY <1>1, WholeAlways, PTL

\* When one request comes after the other, the document is what their answers
\* make of it, in their order, with nothing of those that failed: no change of
\* a request is lost to its own next reading (doTransactional).
THEOREM NoAnswerIsLost == FormSpec => []AnswersKept
<1>1. FormInit => KeptInv
  BY InitHolds
<1>2. Typed /\ WholeInv /\ (~overlap => KeptInv) /\ [FormNext]_formVars
          => (~overlap => KeptInv)'
  <2>1. [FormNext]_formVars => overlap' = overlap
    BY DEF FormNext, formVars
  <2>. QED
    BY <2>1, KeptStep
<1>3. (~overlap => KeptInv) => AnswersKept
  BY DEF KeptInv, InOrder, AnswersKept
<1>. QED
  BY <1>1, <1>2, <1>3, WholeAlways, PTL DEF FormSpec
-----------------------------------------------------------------------------
(***************************************************************************)
(* Proofs of what NextReview promises, for any days and any number of      *)
(* changes.  A page that takes a date has to be of the form it is for,     *)
(* which is so of the only tab: one left open in another tab outlives its  *)
(* form.                                                                   *)
(***************************************************************************)

\* A date is in the section of the form's own type.
InOwn(f) == \A type \in Types : f.date[type] # None => type = f.type

\* The page that takes the date is of the form it is for.
ConfirmsOwn == \A t \in Tabs : tab[t].page = "confirm" => record.type = tab[t].type

DateInv == InOwn(record) /\ InOwn(approved) /\ ConfirmsOwn

\* The prisoner is looked at in one tab.
OneTab == \A s, t \in Tabs : s = t
-----------------------------------------------------------------------------
(* Forms and pages *)

LEMMA FormFacts ==
    /\ NoForm \in Forms /\ InOwn(NoForm) /\ NoForm.status = "NONE"
    /\ \A type \in Types : /\ NewForm(type) \in Forms /\ InOwn(NewForm(type))
                           /\ NewForm(type).status = "OPEN"
                           /\ NewForm(type).type = type
BY DEF NoForm, NewForm, Forms, InOwn, Types, None

LEMMA PagesAreShown ==
    ASSUME NEW page \in Pages
    PROVE  At(page) \in Shown /\ At(page).page = page
BY DEF At, Shown, Types, Pages

LEMMA PageOfFacts ==
    ASSUME record \in Forms, NEW page \in Pages
    PROVE  /\ PageOf(page) \in Shown
           /\ PageOf(page).page \in {page, "error"}
           /\ PageOf(page).page = "confirm" => PageOf(page).type = record.type
BY DEF PageOf, At, Shown, Types, Pages, Forms

LEMMA TasklistFacts ==
    ASSUME NEW f \in Forms
    PROVE  TasklistOf(f) \in Shown /\ TasklistOf(f).page = "tasklist"
BY DEF TasklistOf, Shown, Pages, Forms

\* What a tasklist leaves of the form it was asked for with.
LEMMA ArriveFacts ==
    ASSUME DateTypeOK, NEW t \in Tabs, NEW type \in Types, NEW f \in Forms,
           Arrive(t, type, f)
    PROVE  /\ record' \in Forms
           /\ approved' \in Forms /\ approved'.status \in {"NONE", "APPROVED"}
           /\ tab' \in [Tabs -> Shown]
           /\ \A s \in Tabs : s # t => tab'[s] = tab[s]
           /\ tab'[t].page \in {"error", "tasklist"}
           /\ InOwn(f) /\ InOwn(approved) => InOwn(record') /\ InOwn(approved')
<1>1. CASE InProgress(f) /\ f.type # type
  <2>1. record' = f /\ approved' = approved /\ tab' = [tab EXCEPT ![t] = At("error")]
    BY <1>1 DEF Arrive
  <2>. QED
    BY <2>1, PagesAreShown DEF DateTypeOK, Pages
<1>2. CASE ~(InProgress(f) /\ f.type # type)
  <2>1. /\ record' = WorkedOn(type, f) /\ approved' = Before(f)
        /\ tab' = [tab EXCEPT ![t] = TasklistOf(WorkedOn(type, f))]
    BY <1>2 DEF Arrive
  <2>2. WorkedOn(type, f) \in Forms /\ (InOwn(f) => InOwn(WorkedOn(type, f)))
    BY FormFacts DEF WorkedOn
  <2>3. /\ Before(f) \in Forms /\ Before(f).status \in {"NONE", "APPROVED"}
        /\ InOwn(f) /\ InOwn(approved) => InOwn(Before(f))
    BY DEF Before, DateTypeOK
  <2>. QED
    BY <2>1, <2>2, <2>3, TasklistFacts DEF DateTypeOK
<1>. QED
  BY <1>1, <1>2

LEMMA DatesAreNumbers ==
    /\ Days \subseteq Int /\ None \in Int
    /\ \A date \in Days \cup {None} : DateTypeOK => BroughtForward(date) \in Days \cup {None}
    /\ \A date \in Days \cup {None} : DateTypeOK => BroughtForward(date) <= today + Soon
BY DateAssumption DEF Days, None, BroughtForward, DateTypeOK
-----------------------------------------------------------------------------
(* Types *)

LEMMA DateTypeInit == DateInit => DateTypeOK
BY FormFacts, PagesAreShown, DateAssumption DEF DateInit, DateTypeOK, Pages, Days, None

LEMMA PostConfirmForm ==
    ASSUME DateTypeOK, NEW type \in Types, NEW date \in Days
    PROVE  /\ [record EXCEPT !.date[type] = date] \in Forms
           /\ InOwn(record) /\ type = record.type
                => InOwn([record EXCEPT !.date[type] = date])
<1>1. record.date \in [Types -> Days \cup {None}] /\ record \in Forms
  BY DEF DateTypeOK, Forms
<1>. QED
  BY <1>1 DEF Forms, InOwn

LEMMA DateTypeNext ==
    ASSUME DateTypeOK, [DateNext]_dateVars
    PROVE  DateTypeOK'
<1>. USE DEF DateTypeOK
<1>1. ASSUME NEW t \in Tabs, OpenStandalone(t) PROVE DateTypeOK'
  BY <1>1, PagesAreShown DEF OpenStandalone, Pages
<1>2. ASSUME NEW t \in Tabs, PostStandalone(t) PROVE DateTypeOK'
  <2>1. PICK date \in Days : \/ StandaloneDone(t, date)
                             \/ StandaloneRefused(t, date)
                             \/ StandaloneLost(t, date)
    BY <1>2 DEF PostStandalone
  <2>2. UNCHANGED <<today, record, approved, pending, risk>>
    BY <1>2 DEF PostStandalone
  <2>3. history' = history \/ history' = Recorded(date)
    BY <2>1 DEF StandaloneDone, StandaloneRefused, StandaloneLost
  <2>4. history' \in Seq([date : Days, was : Days \cup {None}])
    <3> DEFINE Lines == [date : Days, was : Days \cup {None}]
    <3>1. [date |-> date, was |-> review] \in Lines /\ history \in Seq(Lines)
      OBVIOUS
    <3>. HIDE DEF Lines
    <3>2. Recorded(date) \in Seq(Lines)
      BY <3>1, AppendProperties DEF Recorded
    <3>3. history' \in Seq(Lines)
      BY <2>3, <3>1, <3>2
    <3>. QED
      BY <3>3 DEF Lines
  <2>5. noted' \subseteq Days /\ review' \in Days \cup {None}
    BY <2>1 DEF StandaloneDone, StandaloneRefused, StandaloneLost
  <2>6. tab' \in [Tabs -> Shown]
    BY <2>1, PagesAreShown DEF StandaloneDone, StandaloneRefused, StandaloneLost, Pages
  <2>. QED
    BY <2>2, <2>4, <2>5, <2>6
<1>3. ASSUME NEW t \in Tabs, Tasklist(t) PROVE DateTypeOK'
  <2>1. PICK type \in Types : Arrive(t, type, record)
    BY <1>3 DEF Tasklist, Types, Forms
  <2>. QED
    BY <1>3, <2>1, ArriveFacts DEF Tasklist
<1>4. ASSUME NEW t \in Tabs, NextReviewLink(t) \/ Change(t) \/ PostQuestion(t)
      PROVE  DateTypeOK'
  <2>1. PICK page \in Pages : tab' = [tab EXCEPT ![t] = PageOf(page)]
    BY <1>4 DEF NextReviewLink, Change, PostQuestion, Pages
  <2>. QED
    BY <1>4, <2>1, PageOfFacts DEF NextReviewLink, Change, PostQuestion
<1>5. ASSUME NEW t \in Tabs, PostEditing(t) PROVE DateTypeOK'
  BY <1>5, ArriveFacts DEF PostEditing, Types
<1>6. ASSUME NEW t \in Tabs, PostConfirm(t) PROVE DateTypeOK'
  <2>1. PICK f \in Forms : Arrive(t, tab[t].type, f)
    BY <1>6, PostConfirmForm DEF PostConfirm, Section, Shown
  <2>2. tab[t].type \in Types
    BY DEF Shown
  <2>. QED
    BY <1>6, <2>1, <2>2, ArriveFacts DEF PostConfirm
<1>7. ASSUME NEW t \in Tabs, Submit(t) PROVE DateTypeOK'
  BY <1>7, PagesAreShown DEF Submit, Forms, Pages
<1>8. ASSUME NEW t \in Tabs, Cancel(t) PROVE DateTypeOK'
  BY <1>8, PagesAreShown, FormFacts DEF Cancel, Pages
<1>9. ASSUME NEW t \in Tabs, OpenRiskChange(t) \/ Leave(t) PROVE DateTypeOK'
  BY <1>9, PagesAreShown DEF OpenRiskChange, Leave, Pages
<1>10. ASSUME NEW t \in Tabs, PostRiskChange(t) PROVE DateTypeOK'
  <2>1. UNCHANGED <<today, pending, history, noted>>
    BY <1>10 DEF PostRiskChange
  <2>2. /\ review' \in Days \cup {None}
        /\ risk' \in {"NEW", "REVIEW_REQUIRED", "REVIEW_NOT_REQUIRED"}
    BY <1>10, DatesAreNumbers DEF PostRiskChange, ReviewRequired, RiskAnswered
  <2>3. \/ Arrive(t, "RECAT", record)
        \/ /\ UNCHANGED <<record, approved>>
           /\ \E page \in Pages : tab' = [tab EXCEPT ![t] = At(page)]
    BY <1>10 DEF PostRiskChange, Pages
  <2>. QED
    BY <2>1, <2>2, <2>3, ArriveFacts, PagesAreShown DEF Types
<1>11. ASSUME SendBack PROVE DateTypeOK'
  BY <1>11 DEF SendBack, Forms
<1>12. ASSUME Approve PROVE DateTypeOK'
  BY <1>12 DEF Approve, Forms
<1>13. ASSUME Midnight PROVE DateTypeOK'
  BY <1>13, DateAssumption DEF Midnight
<1>14. ASSUME UNCHANGED dateVars PROVE DateTypeOK'
  BY <1>14 DEF dateVars
<1>. QED
  BY <1>1, <1>2, <1>3, <1>4, <1>5, <1>6, <1>7, <1>8, <1>9, <1>10, <1>11,
     <1>12, <1>13, <1>14 DEF DateNext

THEOREM DatesTyped == DateSpec => []DateTypeOK
<1>. QED
  BY DateTypeInit, DateTypeNext, PTL DEF DateSpec
-----------------------------------------------------------------------------
(* Recorded changes, and reviews brought forward *)

LEMMA RecordsKept ==
    ASSUME DateTypeOK, RecordedIsTold, [DateNext]_dateVars
    PROVE  RecordedIsTold'
<1>1. ASSUME NEW date \in Days, history' = Recorded(date), noted' = noted \cup {date}
      PROVE  RecordedIsTold'
  <2>1. history \in Seq([date : Days, was : Days \cup {None}])
    BY DEF DateTypeOK
  <2>2. [date |-> date, was |-> review] \in [date : Days, was : Days \cup {None}]
    BY DEF DateTypeOK
  <2>3. /\ Len(history') = Len(history) + 1
        /\ \A n \in 1..Len(history) : history'[n] = history[n]
        /\ history'[Len(history) + 1] = [date |-> date, was |-> review]
    BY <1>1, <2>1, <2>2, AppendProperties DEF Recorded
  <2>4. Len(history) \in Nat /\ DOMAIN history = 1..Len(history)
    BY <2>1, LenProperties
  <2>5. DOMAIN history' = 1..Len(history')
    BY <1>1, <2>1, <2>2, AppendProperties, LenProperties DEF Recorded
  <2>6. SUFFICES ASSUME NEW n \in 1..Len(history) + 1
                 PROVE  history'[n].date \in noted'
    BY <2>3, <2>5 DEF RecordedIsTold
  <2>7. CASE n \in 1..Len(history)
    BY <1>1, <2>3, <2>4, <2>7 DEF RecordedIsTold
  <2>8. CASE n = Len(history) + 1
    BY <1>1, <2>3, <2>8
  <2>. QED
    BY <2>4, <2>7, <2>8
<1>2. ASSUME history' = history, noted \subseteq noted' PROVE RecordedIsTold'
  BY <1>2 DEF RecordedIsTold
<1>3. ASSUME NEW t \in Tabs, PostStandalone(t) PROVE RecordedIsTold'
  <2>1. PICK date \in Days : \/ StandaloneDone(t, date)
                             \/ StandaloneRefused(t, date)
                             \/ StandaloneLost(t, date)
    BY <1>3 DEF PostStandalone
  <2>2. CASE StandaloneDone(t, date)
    BY <1>1, <2>2 DEF StandaloneDone
  <2>3. CASE StandaloneRefused(t, date) \/ StandaloneLost(t, date)
    BY <1>2, <2>3 DEF StandaloneRefused, StandaloneLost
  <2>. QED
    BY <2>1, <2>2, <2>3
<1>4. CASE UNCHANGED <<history, noted>>
  BY <1>2, <1>4
<1>. QED
  BY <1>3, <1>4 DEF DateNext, dateVars, OpenStandalone, Tasklist, NextReviewLink,
     Change, PostQuestion, PostEditing, PostConfirm, Submit, Cancel,
     OpenRiskChange, PostRiskChange, Leave, SendBack, Approve, Midnight

LEMMA BroughtForwardInTime ==
    ASSUME DateTypeOK, [DateNext]_dateVars, risk = "NEW", risk' = "REVIEW_REQUIRED"
    PROVE  review' <= today + Soon
<1>1. \E t \in Tabs : PostRiskChange(t)
  BY DEF DateNext, dateVars, OpenStandalone, PostStandalone, Tasklist, NextReviewLink,
     Change, PostQuestion, PostEditing, PostConfirm, Submit, Cancel,
     OpenRiskChange, Leave, SendBack, Approve, Midnight
<1>2. ReviewRequired
  BY <1>1 DEF PostRiskChange, RiskAnswered
<1>. QED
  BY <1>2, DatesAreNumbers DEF ReviewRequired, DateTypeOK
-----------------------------------------------------------------------------
(* The section of a date *)

\* In one tab, no step puts a date in the other type's section.
LEMMA OwnSections ==
    ASSUME OneTab, DateTypeOK, DateInv, [DateNext]_dateVars
    PROVE  DateInv'
<1>. USE DEF DateInv
\* A page shown in the only tab is the only page shown.
<1>1. ASSUME NEW t \in Tabs, tab'[t].page # "confirm" PROVE ConfirmsOwn'
  BY <1>1 DEF OneTab, ConfirmsOwn
<1>2. ASSUME UNCHANGED tab, record'.type = record.type PROVE ConfirmsOwn'
  BY <1>2 DEF ConfirmsOwn
<1>3. ASSUME UNCHANGED <<record, approved>> PROVE InOwn(record') /\ InOwn(approved')
  BY <1>3
<1>4. ASSUME NEW t \in Tabs, NEW page \in Pages, page # "confirm",
             tab' = [tab EXCEPT ![t] = At(page)]
      PROVE  ConfirmsOwn'
  BY <1>1, <1>4, PagesAreShown DEF DateTypeOK
<1>5. ASSUME NEW t \in Tabs, NEW type \in Types, NEW f \in Forms, InOwn(f),
             Arrive(t, type, f)
      PROVE  DateInv'
  BY <1>1, <1>5, ArriveFacts
<1>6. ASSUME NEW t \in Tabs, OpenStandalone(t) \/ OpenRiskChange(t) \/ Leave(t)
      PROVE  DateInv'
  BY <1>3, <1>4, <1>6 DEF OpenStandalone, OpenRiskChange, Leave, Pages
<1>7. ASSUME NEW t \in Tabs, PostStandalone(t) PROVE DateInv'
  BY <1>3, <1>4, <1>7 DEF PostStandalone, StandaloneDone, StandaloneRefused,
     StandaloneLost, Pages
<1>8. ASSUME NEW t \in Tabs, Tasklist(t) PROVE DateInv'
  <2>1. PICK type \in Types : Arrive(t, type, record)
    BY <1>8 DEF Tasklist, DateTypeOK, Types, Forms
  <2>. QED
    BY <1>5, <2>1 DEF DateTypeOK
<1>9. ASSUME NEW t \in Tabs, NextReviewLink(t) \/ Change(t) \/ PostQuestion(t)
      PROVE  DateInv'
  <2>1. UNCHANGED <<record, approved>>
    BY <1>9 DEF NextReviewLink, Change, PostQuestion
  <2>2. PICK page \in Pages : tab' = [tab EXCEPT ![t] = PageOf(page)]
    BY <1>9 DEF NextReviewLink, Change, PostQuestion, Pages
  <2>3. tab'[t] = PageOf(page)
    BY <2>2 DEF DateTypeOK
  <2>4. ConfirmsOwn'
    BY <2>1, <2>3, PageOfFacts DEF OneTab, ConfirmsOwn, DateTypeOK
  <2>. QED
    BY <1>3, <2>1, <2>4
<1>10. ASSUME NEW t \in Tabs, PostEditing(t) PROVE DateInv'
  BY <1>5, <1>10 DEF PostEditing, Types, DateTypeOK
<1>11. ASSUME NEW t \in Tabs, PostConfirm(t) PROVE DateInv'
  <2>1. tab[t].page = "confirm" /\ tab[t].type \in Types
    BY <1>11 DEF PostConfirm, DateTypeOK, Shown
  <2>2. tab[t].type = record.type
    BY <2>1 DEF ConfirmsOwn
  <2>3. PICK f \in Forms : InOwn(f) /\ Arrive(t, tab[t].type, f)
    BY <1>11, <2>1, <2>2, PostConfirmForm DEF PostConfirm, Section, DateTypeOK
  <2>. QED
    BY <1>5, <2>1, <2>3
<1>12. ASSUME NEW t \in Tabs, Submit(t) PROVE DateInv'
  <2>1. InOwn(record') /\ approved' = approved
    BY <1>12 DEF Submit, InOwn, DateTypeOK, Forms
  <2>. QED
    BY <1>4, <1>12, <2>1 DEF Submit, Pages
<1>13. ASSUME NEW t \in Tabs, Cancel(t) PROVE DateInv'
  BY <1>4, <1>13, FormFacts DEF Cancel, Pages
<1>14. ASSUME NEW t \in Tabs, PostRiskChange(t) PROVE DateInv'
  <2>1. \/ Arrive(t, "RECAT", record)
        \/ /\ UNCHANGED <<record, approved>>
           /\ \E page \in Pages \ {"confirm"} : tab' = [tab EXCEPT ![t] = At(page)]
    BY <1>14 DEF PostRiskChange, Pages
  <2>. QED
    BY <1>3, <1>4, <1>5, <2>1 DEF Types, DateTypeOK
<1>15. ASSUME SendBack \/ Approve PROVE DateInv'
  <2>1. InOwn(record') /\ record'.type = record.type /\ UNCHANGED <<approved, tab>>
    BY <1>15 DEF SendBack, Approve, InOwn, DateTypeOK, Forms
  <2>. QED
    BY <1>2, <2>1
<1>16. ASSUME Midnight \/ UNCHANGED dateVars PROVE DateInv'
  BY <1>2, <1>3, <1>16 DEF Midnight, dateVars
<1>. QED
  BY <1>6, <1>7, <1>8, <1>9, <1>10, <1>11, <1>12, <1>13, <1>14, <1>15, <1>16
  DEF DateNext

\* In one tab, whatever the prisoner's categorisations, a date is kept where
\* the form's own type looks for it, and a recorded change is one NOMIS took.
THEOREM DatesInStep == ASSUME OneTab PROVE DateSpec => []DateInStep
<1>1. DateInit => DateInv /\ RecordedIsTold
  BY FormFacts, PagesAreShown DEF DateInit, DateInv, InOwn, ConfirmsOwn,
     RecordedIsTold, Pages
<1>2. DateTypeOK /\ DateInv /\ RecordedIsTold /\ [DateNext]_dateVars
        => (DateInv /\ RecordedIsTold)'
  BY OwnSections, RecordsKept
<1>3. DateInv /\ RecordedIsTold => DateInStep
  BY DEF DateInv, DateInStep, OwnSection, InOwn
<1>. QED
  BY <1>1, <1>2, <1>3, DatesTyped, PTL DEF DateSpec

\* A risk change is answered with a review only when NOMIS has the review soon.
THEOREM ReviewsComeSoon == DateSpec => ReviewedSoon
<1>1. DateTypeOK /\ [DateNext]_dateVars
        => [risk = "NEW" /\ risk' = "REVIEW_REQUIRED" => review' <= today + Soon]_dateVars
  BY BroughtForwardInTime
<1>. QED
  BY <1>1, DatesTyped, PTL DEF DateSpec, ReviewedSoon
=============================================================================
