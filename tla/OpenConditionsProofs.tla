------------------------ MODULE OpenConditionsProofs ------------------------
(***************************************************************************)
(* Theorems about OpenConditions.  The pages are fixed by the program, so  *)
(* that there are no constants: what the proofs add to the run is why the  *)
(* properties hold.  The pages of a prisoner are answered from the first   *)
(* one on, whatever the browser goes back to (InOrder), and only while     *)
(* they are asked for (Asked).                                             *)
(***************************************************************************)
EXTENDS OpenConditions, TLAPS

\* Every page before p has been answered, but those that are left out and the
\* first one, which the women's tasklist does not link to.
Reached(p) ==
    \A i, j \in 1..Len(Order) : i < j /\ Order[j] = p =>
        Order[i] \in DOMAIN doc \cup Skipped[catType] \cup {"tprs"}

\* What has been answered, and what the browser shows, has been reached.
InOrder == /\ \A p \in DOMAIN doc : Reached(p)
           /\ Reached(page)

\* Pages are shown, and answers kept, while open conditions are asked for.
Asked ==
    /\ page \in Pages \ {"openConditionsNotSuitable"} => requested
    /\ page = "openConditionsNotSuitable" => ~requested /\ doc = Empty
    /\ ~requested => DOMAIN doc \subseteq {"openConditionsNotSuitable"}
    /\ page = "notRecommended" => Completed
    /\ page \in {"review", "submitted"} /\ requested => Completed

\* Who does not leave the pages half way has been told of the reasons.
Told ==
    ~leaves /\ page \in {"tasklist", "review", "submitted"} /\ Reasons(doc) # {}
        => Answer(doc, "notRecommended", 1) = "Yes"

IInv == /\ TypeOK /\ InOrder /\ Asked /\ Told
        /\ NoRefusingAnswer /\ UnsuitableByShownAnswer
-----------------------------------------------------------------------------
(* The pages and their order. *)

LEMMA PagesAre ==
    Pages = {"tprs", "earliestReleaseDate", "previousSentences",
             "victimContactScheme", "sexualOffences", "foreignNational",
             "riskOfHarm", "furtherCharges", "riskLevels", "notRecommended",
             "openConditionsNotSuitable"}
  BY DEF Pages, Eligibility, Risks

\* No page has more than four questions.
LEMMA QuestionsAre ==
    /\ \A p \in Pages : Len(Questions[p]) \in 0..4
    /\ Len(Questions["riskLevels"]) = 1
    /\ Len(Questions["notRecommended"]) = 1
    /\ Len(Questions["openConditionsNotSuitable"]) = 0
    /\ Len(Questions["earliestReleaseDate"]) = 2
    /\ Len(Questions["foreignNational"]) = 4
    /\ Len(Questions["previousSentences"]) = 2
  BY DEF Questions, Pages, Eligibility, Risks

LEMMA OrderIs ==
    /\ Len(Order) = 9
    /\ Order[1] = "tprs" /\ Order[2] = "earliestReleaseDate"
    /\ Order[3] = "previousSentences" /\ Order[4] = "victimContactScheme"
    /\ Order[5] = "sexualOffences" /\ Order[6] = "foreignNational"
    /\ Order[7] = "riskOfHarm" /\ Order[8] = "furtherCharges"
    /\ Order[9] = "riskLevels"
  BY DEF Order

LEMMA OrderDiffers ==
    \A i, j \in 1..Len(Order) : Order[i] = Order[j] => i = j
  BY OrderIs

LEMMA OrderPages == \A i \in 1..Len(Order) : Order[i] \in Pages
  BY OrderIs, PagesAre

\* Every page on the way but the last one leads to another one.
LEMMA PathGoesOn ==
    ASSUME NEW t \in {"INITIAL", "RECAT"}, NEW i \in 1..8
    PROVE  \E q \in Pages : Follows(Order[i], q, Skipped[t])
  <1>1. CASE Order[i + 1] \notin Skipped[t]
    <2>1. i + 1 \in 1..Len(Order) /\ i \in 1..Len(Order) /\ i < i + 1
      BY OrderIs
    <2>2. \A k \in i + 1..(i + 1) - 1 : Order[k] \in Skipped[t]
      OBVIOUS
    <2>3. Follows(Order[i], Order[i + 1], Skipped[t])
      BY <1>1, <2>1, <2>2 DEF Follows
    <2> QED BY <2>1, <2>3, OrderPages
  <1>2. CASE Order[i + 1] \in Skipped[t]
    <2>1. i = 2 \/ i = 4
      BY <1>2, OrderIs DEF Skipped
    <2>2. /\ i + 2 \in 1..Len(Order) /\ i \in 1..Len(Order) /\ i < i + 2
          /\ Order[i + 2] \notin Skipped[t]
      BY <2>1, OrderIs DEF Skipped
    <2>3. \A k \in i + 1..(i + 2) - 1 : k = i + 1
      OBVIOUS
    <2>4. Follows(Order[i], Order[i + 2], Skipped[t])
      BY <1>2, <2>2, <2>3 DEF Follows
    <2> QED BY <2>2, <2>4, OrderPages
  <1> QED BY <1>1, <1>2

LEMMA NextFollows ==
    ASSUME NEW t \in {"INITIAL", "RECAT"},
           NEW p \in Pages \ {"riskLevels", "notRecommended",
                              "openConditionsNotSuitable"}
    PROVE  /\ NextPages[t][p] \in Pages
           /\ Follows(p, NextPages[t][p], Skipped[t])
  <1>1. PICK i \in 1..8 : p = Order[i]
    BY PagesAre, OrderIs
  <1>2. \E q \in Pages : Follows(p, q, Skipped[t])
    BY <1>1, PathGoesOn
  <1>3. NextPages[t][p] = CHOOSE q \in Pages : Follows(p, q, Skipped[t])
    BY <1>1 DEF NextPages
  <1> QED BY <1>2, <1>3

\* What is behind an answered page has been reached.
LEMMA NextReached ==
    ASSUME NEW p, NEW q, NEW d, NEW skipped, Follows(p, q, skipped), p \in d,
           \A i, j \in 1..Len(Order) : i < j /\ Order[j] = p =>
               Order[i] \in d \cup skipped \cup {"tprs"}
    PROVE  \A i, j \in 1..Len(Order) : i < j /\ Order[j] = q =>
               Order[i] \in d \cup skipped \cup {"tprs"}
  <1> SUFFICES ASSUME NEW i \in 1..Len(Order), NEW j \in 1..Len(Order),
                      i < j, Order[j] = q
               PROVE  Order[i] \in d \cup skipped \cup {"tprs"}
    OBVIOUS
  <1>1. PICK k \in 1..Len(Order) : \E l \in 1..Len(Order) :
           /\ k < l /\ Order[k] = p /\ Order[l] = q
           /\ \A m \in k + 1..l - 1 : Order[m] \in skipped
    BY DEF Follows
  <1>2. PICK l \in 1..Len(Order) :
           /\ k < l /\ Order[k] = p /\ Order[l] = q
           /\ \A m \in k + 1..l - 1 : Order[m] \in skipped
    BY <1>1
  <1>3. l = j
    BY <1>2, OrderDiffers
  <1>4. CASE i < k
    BY <1>2, <1>4
  <1>5. CASE i = k
    BY <1>2, <1>5
  <1>6. CASE i > k
    <2>1. i \in k + 1..l - 1
      BY <1>3, <1>6, OrderIs
    <2> QED BY <1>2, <2>1
  <1> QED BY <1>4, <1>5, <1>6, OrderIs
-----------------------------------------------------------------------------
(* What is kept of what a browser posts. *)

LEMMA ClearedInputs ==
    ASSUME NEW p \in Pages, NEW input \in Inputs(p)
    PROVE  Cleared(input) \in Inputs(p)
  BY DEF Cleared, Inputs

\* What passes the validation is an answer to what was shown, and to no more.
LEMMA ClearedShown ==
    ASSUME NEW p \in Pages, NEW input \in Inputs(p), Valid(Cleared(input)),
           NEW i \in DOMAIN input
    PROVE  /\ Cleared(input)[i] # "none" <=> Shown(Cleared(input), i)
           /\ Cleared(input)[i] # "none" <=> Shown(input, i)
           /\ Cleared(input)[i] # "none" => Cleared(input)[i] = input[i]
  <1> DEFINE n == Len(Questions[p])
             c == Cleared(input)
  <1>1. n \in 0..4
    BY QuestionsAre
  <1>2. /\ DOMAIN input = 1..n /\ DOMAIN c = 1..n
        /\ \A j \in 1..n : input[j] \in {"Yes", "No", "none"}
    BY DEF Inputs, Cleared
  <1>3. \A j \in 1..n : c[j] = IF \E k \in 1..j - 1 : input[k] = "No"
                               THEN "none" ELSE input[j]
    BY <1>2 DEF Cleared
  <1>4. \A j \in 1..n : j = 1 \/ c[j - 1] = "Yes" => c[j] # "none"
    BY <1>2 DEF Valid
  <1>5. i \in 1..n
    BY <1>2
  <1> HIDE DEF n, c
  <1>6. /\ c[i] # "none" <=> \A j \in 1..i - 1 : c[j] = "Yes"
        /\ c[i] # "none" <=> \A j \in 1..i - 1 : input[j] = "Yes"
        /\ c[i] # "none" => c[i] = input[i]
    <2>1. CASE i = 1
      BY <2>1, <1>1, <1>2, <1>3, <1>4, <1>5
    <2>2. CASE i = 2
      BY <2>2, <1>1, <1>2, <1>3, <1>4, <1>5
    <2>3. CASE i = 3
      BY <2>3, <1>1, <1>2, <1>3, <1>4, <1>5
    <2>4. CASE i = 4
      BY <2>4, <1>1, <1>2, <1>3, <1>4, <1>5
    <2> QED BY <1>1, <1>5, <2>1, <2>2, <2>3, <2>4
  <1> QED BY <1>6 DEF Shown, c
-----------------------------------------------------------------------------
(* The document after a post. *)

LEMMA AnswersAfter ==
    ASSUME NEW answers, doc' = With(page, answers)
    PROVE  /\ DOMAIN doc' = DOMAIN doc \cup {page}
           /\ doc'[page] = answers
           /\ \A q \in DOMAIN doc : q # page => doc'[q] = doc[q]
           /\ \A i : Answer(doc', page, i) = answers[i]
           /\ \A q, i : q # page => Answer(doc', q, i) = Answer(doc, q, i)
  BY DEF With, Answer

\* What is kept of the pages: the part of TypeOK that a post changes.
DocOK ==
    /\ DOMAIN doc \subseteq Pages
    /\ \A p \in DOMAIN doc : /\ doc[p] \in Inputs(p)
                             /\ \A i \in DOMAIN doc[p] :
                                   doc[p][i] # "none" <=> Shown(doc[p], i)

LEMMA SavedOK ==
    ASSUME DocOK, page \in Pages, NEW input \in Inputs(page), Saved(input)
    PROVE  DocOK'
  <1> DEFINE c == Cleared(input)
  <1>1. c \in Inputs(page)
    BY ClearedInputs
  <1>2. \A i \in DOMAIN input : c[i] # "none" <=> Shown(c, i)
    BY ClearedShown DEF Saved
  <1>3. DOMAIN c = DOMAIN input
    BY DEF Cleared
  <1>4. doc' = With(page, c)
    BY DEF Saved
  <1> HIDE DEF c
  <1>5. /\ DOMAIN doc' = DOMAIN doc \cup {page}
        /\ doc'[page] = c
        /\ \A q \in DOMAIN doc : q # page => doc'[q] = doc[q]
    BY <1>4, AnswersAfter
  <1>6. DOMAIN doc' \subseteq Pages
    BY <1>5 DEF DocOK
  <1>7. ASSUME NEW p \in DOMAIN doc'
        PROVE  /\ doc'[p] \in Inputs(p)
               /\ \A i \in DOMAIN doc'[p] :
                     doc'[p][i] # "none" <=> Shown(doc'[p], i)
    <2>1. CASE p = page
      BY <1>1, <1>2, <1>3, <1>5, <2>1
    <2>2. CASE p # page
      <3>1. p \in DOMAIN doc /\ doc'[p] = doc[p]
        BY <1>5, <2>2
      <3> QED BY <3>1, Zenon DEF DocOK
    <2> QED BY <2>1, <2>2
  <1> QED BY <1>6, <1>7 DEF DocOK, Inputs, Shown

LEMMA NoReasons ==
    ASSUME NEW d, DOMAIN d \subseteq {"openConditionsNotSuitable"}
    PROVE  Reasons(d) = {}
  BY DEF Reasons, Answer

\* Nothing is kept in an empty document.
LEMMA EmptyKeeps ==
    ASSUME doc' = Empty
    PROVE  /\ DocOK' /\ NoRefusingAnswer' /\ Reasons(doc') = {}
           /\ \A p \in DOMAIN doc' : Reached(p)'
  <1>1. DOMAIN doc' = {}
    BY DEF Empty
  <1>2. DocOK'
    BY <1>1 DEF DocOK
  <1>3. NoRefusingAnswer'
    BY <1>1 DEF NoRefusingAnswer, Answer, Refusing
  <1> QED BY <1>1, <1>2, <1>3, NoReasons

\* A page that has been saved is one more that has been answered in order.
LEMMA SavedInOrder ==
    ASSUME InOrder, DOMAIN doc' = DOMAIN doc \cup {page}, catType' = catType
    PROVE  /\ \A p \in DOMAIN doc' : Reached(p)'
           /\ \A i, j \in 1..Len(Order) : i < j /\ Order[j] = page =>
                 Order[i] \in DOMAIN doc' \cup Skipped[catType] \cup {"tprs"}
  BY DEF InOrder, Reached

\* Pages that are not on the way are reached at any time.
LEMMA OffTheWay ==
    ASSUME NEW p, \A i \in 1..Len(Order) : Order[i] # p
    PROVE  Reached(p) /\ Reached(p)'
  BY DEF Reached
-----------------------------------------------------------------------------
(* The initial state and the steps. *)

\* The pages that lead to another one.
Asking == Pages \ {"riskLevels", "notRecommended", "openConditionsNotSuitable"}

\* What a post other than those of the last pages keeps.
LEMMA PostKept ==
    ASSUME IInv, page \in Asking, NEW input \in Inputs(page),
           ~Refused(page, Cleared(input)), Saved(input),
           page' = NextPages[catType][page],
           UNCHANGED <<leaves, catType, women, requested, posted>>
    PROVE  IInv'
  <1> DEFINE q == NextPages[catType][page]
  <1>1. /\ page \in Pages /\ page \notin {"riskLevels", "notRecommended",
                                          "openConditionsNotSuitable"}
        /\ catType \in {"INITIAL", "RECAT"} /\ requested
    BY DEF Asking, IInv, Asked, TypeOK
  <1>2. q \in Pages /\ Follows(page, q, Skipped[catType])
    BY <1>1, NextFollows
  <1>3. /\ DOMAIN doc' = DOMAIN doc \cup {page}
        /\ \A i : Answer(doc', page, i) = Cleared(input)[i]
        /\ \A r, i : r # page => Answer(doc', r, i) = Answer(doc, r, i)
    BY AnswersAfter DEF Saved
  <1>4. DocOK'
    <2>1. DocOK
      BY DEF IInv, TypeOK, DocOK
    <2> QED BY <1>1, <2>1, SavedOK
  <1> HIDE DEF q
  <1>5. TypeOK'
    BY <1>2, <1>4 DEF IInv, TypeOK, DocOK, Inputs, q
  <1>6. InOrder'
    <2>1. /\ \A p \in DOMAIN doc' : Reached(p)'
          /\ \A i, j \in 1..Len(Order) : i < j /\ Order[j] = page =>
                Order[i] \in DOMAIN doc' \cup Skipped[catType] \cup {"tprs"}
      BY <1>3, SavedInOrder DEF IInv
    <2>2. page \in DOMAIN doc'
      BY <1>3
    <2>3. \A i, j \in 1..Len(Order) : i < j /\ Order[j] = q =>
              Order[i] \in DOMAIN doc' \cup Skipped[catType] \cup {"tprs"}
      BY <1>2, <2>1, <2>2, NextReached
    <2>4. Reached(page)'
      BY <2>3 DEF Reached, q
    <2> QED BY <2>1, <2>4 DEF InOrder
  <1>7. q # "notRecommended" /\ q # "openConditionsNotSuitable"
    BY <1>2, OrderIs DEF Follows
  <1>8. Asked'
    BY <1>1, <1>2, <1>3, <1>7, PagesAre DEF Asked, q
  <1>9. Told'
    BY <1>2, PagesAre DEF Told, q
  <1>10. NoRefusingAnswer'
    BY <1>3 DEF IInv, NoRefusingAnswer, Refused
  <1>11. UnsuitableByShownAnswer'
    BY DEF IInv, UnsuitableByShownAnswer
  <1> QED BY <1>5, <1>6, <1>8, <1>9, <1>10, <1>11 DEF IInv

\* The answers that rule open conditions out are to questions that were shown.
LEMMA RefusedShown ==
    ASSUME NEW p \in Pages, NEW input \in Inputs(p), Valid(Cleared(input)),
           Refused(p, Cleared(input))
    PROVE  \E r \in Refusing : /\ r[1] = p
                               /\ Shown(input, r[2])
                               /\ input[r[2]] = r[3]
  <1>1. PICK r \in Refusing : r[1] = p /\ Cleared(input)[r[2]] = r[3]
    BY DEF Refused
  <1>2. r[2] \in DOMAIN input
    <2>1. \/ p = "earliestReleaseDate" /\ r[2] = 2
          \/ p = "foreignNational" /\ r[2] \in {2, 4}
          \/ p = "previousSentences" /\ r[2] = 2
      BY <1>1 DEF Refusing
    <2>2. CASE p = "earliestReleaseDate" /\ r[2] = 2
      BY <2>2, QuestionsAre DEF Inputs
    <2>3. CASE p = "foreignNational" /\ r[2] \in {2, 4}
      BY <2>3, QuestionsAre DEF Inputs
    <2>4. CASE p = "previousSentences" /\ r[2] = 2
      BY <2>4, QuestionsAre DEF Inputs
    <2> QED BY <2>1, <2>2, <2>3, <2>4
  <1>3. r[3] # "none"
    BY <1>1 DEF Refusing
  <1> QED BY <1>1, <1>2, <1>3, ClearedShown

PostedOK == posted = <<>> \/ \E p \in Pages : posted[1] = p /\ posted[2] \in Inputs(p)

\* What is taken back leaves nothing to go wrong.
LEMMA CancelKept ==
    ASSUME IInv, Cancel, page' \in {"tasklist", "openConditionsNotSuitable"},
           PostedOK', UnsuitableByShownAnswer',
           UNCHANGED <<leaves, catType, women>>
    PROVE  IInv'
  <1>1. doc' = Empty /\ requested' = FALSE
    BY DEF Cancel
  <1>2. DOMAIN doc' = {}
    BY <1>1 DEF Empty
  <1>3. /\ DocOK' /\ NoRefusingAnswer' /\ Reasons(doc') = {}
        /\ \A p \in DOMAIN doc' : Reached(p)'
    BY <1>1, EmptyKeeps
  <1>4. TypeOK'
    BY <1>1, <1>3, PagesAre DEF IInv, TypeOK, DocOK, PostedOK
  <1>5. InOrder'
    <2>1. \A i \in 1..Len(Order) : Order[i] # page'
      BY OrderIs
    <2>2. Reached(page)'
      BY <2>1 DEF Reached
    <2> QED BY <1>3, <2>2 DEF InOrder
  <1>6. Asked'
    BY <1>1, <1>2, PagesAre DEF Asked
  <1>7. Told'
    BY <1>3 DEF Told
  <1> QED BY <1>3, <1>4, <1>5, <1>6, <1>7 DEF IInv

LEMMA PostPageKeeps == IInv /\ PostPage => IInv'
  <1> SUFFICES ASSUME IInv, PostPage PROVE IInv'
    OBVIOUS
  <1>1. page \in Asking /\ UNCHANGED <<leaves, catType, women>>
    BY DEF PostPage, Asking
  <1>2. PICK input \in Inputs(page) :
           \/ /\ ~Refused(page, Cleared(input))
              /\ Saved(input)
              /\ page' = NextPages[catType][page]
              /\ UNCHANGED <<requested, posted>>
           \/ /\ Valid(Cleared(input))
              /\ Refused(page, Cleared(input))
              /\ Cancel
              /\ page' = "openConditionsNotSuitable"
              /\ posted' = <<page, input>>
    BY DEF PostPage
  <1>3. CASE /\ ~Refused(page, Cleared(input))
             /\ Saved(input)
             /\ page' = NextPages[catType][page]
             /\ UNCHANGED <<requested, posted>>
    BY <1>1, <1>3, PostKept
  <1>4. CASE /\ Valid(Cleared(input))
             /\ Refused(page, Cleared(input))
             /\ Cancel
             /\ page' = "openConditionsNotSuitable"
             /\ posted' = <<page, input>>
    <2>1. page \in Pages
      BY <1>1 DEF Asking
    <2>2. PostedOK'
      BY <1>4, <2>1 DEF PostedOK, Inputs
    <2>3. \E r \in Refusing : /\ r[1] = page
                              /\ Shown(input, r[2])
                              /\ input[r[2]] = r[3]
      BY <1>4, <2>1, RefusedShown
    <2>4. UnsuitableByShownAnswer'
      BY <1>4, <2>3 DEF UnsuitableByShownAnswer, Shown
    <2> QED BY <1>1, <1>4, <2>2, <2>4, CancelKept
  <1> QED BY <1>2, <1>3, <1>4

LEMMA BackToTaskListKeeps == IInv /\ BackToTaskList => IInv'
  <1> SUFFICES ASSUME IInv, BackToTaskList PROVE IInv'
    OBVIOUS
  <1>1. /\ page = "openConditionsNotSuitable" /\ page' = "tasklist"
        /\ doc' = With(page, <<>>) /\ posted' = <<>>
        /\ UNCHANGED <<leaves, catType, women, requested>>
    BY DEF BackToTaskList
  <1>2. ~requested /\ DOMAIN doc = {}
    BY <1>1 DEF IInv, Asked, Empty
  <1>3. /\ DOMAIN doc' = {"openConditionsNotSuitable"}
        /\ doc'["openConditionsNotSuitable"] = <<>>
    BY <1>1, <1>2, AnswersAfter
  <1>4. DocOK'
    <2>1. <<>> \in Inputs("openConditionsNotSuitable") /\ DOMAIN <<>> = {}
      BY QuestionsAre DEF Inputs
    <2> QED BY <1>3, <2>1, PagesAre DEF DocOK, Inputs, Shown
  <1>5. TypeOK'
    BY <1>1, <1>4 DEF IInv, TypeOK, DocOK
  <1>6. InOrder'
    <2>1. \A i \in 1..Len(Order) : /\ Order[i] # "openConditionsNotSuitable"
                                   /\ Order[i] # "tasklist"
      BY OrderIs
    <2> QED BY <1>1, <1>3, <2>1 DEF InOrder, Reached
  <1>7. Asked'
    BY <1>1, <1>2, <1>3, PagesAre DEF Asked
  <1>8. Told'
    BY <1>3, NoReasons DEF Told
  <1>9. NoRefusingAnswer'
    BY <1>3 DEF NoRefusingAnswer, Refusing, Answer
  <1>10. UnsuitableByShownAnswer'
    BY <1>1 DEF UnsuitableByShownAnswer
  <1> QED BY <1>5, <1>6, <1>7, <1>8, <1>9, <1>10 DEF IInv

\* The last pages have no answer that rules open conditions out.
LEMMA LastKept ==
    ASSUME IInv, page \in {"riskLevels", "notRecommended"},
           NEW input \in Inputs(page), Saved(input),
           page' \in {"tasklist", "notRecommended"},
           page = "notRecommended" => page' = "tasklist",
           UNCHANGED <<leaves, catType, women, requested, posted>>, Told'
    PROVE  IInv'
  <1>1. page \in Pages /\ requested
    BY PagesAre DEF IInv, Asked
  <1>2. /\ DOMAIN doc' = DOMAIN doc \cup {page}
        /\ \A r, i : r # page => Answer(doc', r, i) = Answer(doc, r, i)
    BY AnswersAfter DEF Saved
  <1>3. DocOK'
    <2>1. DocOK
      BY DEF IInv, TypeOK, DocOK
    <2> QED BY <1>1, <2>1, SavedOK
  <1>4. TypeOK'
    BY <1>3, PagesAre DEF IInv, TypeOK, DocOK, Inputs
  <1>5. InOrder'
    <2>1. \A p \in DOMAIN doc' : Reached(p)'
      BY <1>2, SavedInOrder DEF IInv
    <2>2. \A i \in 1..Len(Order) : Order[i] # page'
      BY OrderIs
    <2>3. Reached(page)'
      BY <2>2 DEF Reached
    <2> QED BY <2>1, <2>3 DEF InOrder
  <1>6. Asked'
    BY <1>1, <1>2, PagesAre DEF IInv, Asked, Completed
  <1>7. NoRefusingAnswer'
    <2>1. \A r \in Refusing : r[1] # page
      BY DEF Refusing
    <2> QED BY <1>2, <2>1 DEF IInv, NoRefusingAnswer, Refusing
  <1>8. UnsuitableByShownAnswer'
    BY DEF IInv, UnsuitableByShownAnswer
  <1> QED BY <1>4, <1>5, <1>6, <1>7, <1>8 DEF IInv

LEMMA PostRiskLevelsKeeps == IInv /\ PostRiskLevels => IInv'
  <1> SUFFICES ASSUME IInv, PostRiskLevels PROVE IInv'
    OBVIOUS
  <1>1. /\ page = "riskLevels"
        /\ page' = IF Reasons(doc') # {} THEN "notRecommended" ELSE "tasklist"
        /\ UNCHANGED <<leaves, catType, women, requested, posted>>
    BY DEF PostRiskLevels
  <1>2. PICK input \in Inputs(page) : Saved(input)
    BY DEF PostRiskLevels
  <1>3. Told'
    BY <1>1 DEF Told
  <1> QED BY <1>1, <1>2, <1>3, LastKept

LEMMA PostNotRecommendedKeeps == IInv /\ PostNotRecommended => IInv'
  <1> SUFFICES ASSUME IInv, PostNotRecommended PROVE IInv'
    OBVIOUS
  <1>1. /\ page = "notRecommended" /\ page' = "tasklist"
        /\ UNCHANGED <<leaves, catType, women, posted>>
    BY DEF PostNotRecommended
  <1>2. CASE Saved(<<"Yes">>) /\ UNCHANGED requested
    <2>1. <<"Yes">> \in Inputs(page)
      BY <1>1, QuestionsAre DEF Inputs
    <2>2. Cleared(<<"Yes">>)[1] = "Yes"
      BY DEF Cleared
    <2>3. Answer(doc', "notRecommended", 1) = "Yes"
      BY <1>1, <1>2, <2>2, AnswersAfter DEF Saved
    <2>4. Told'
      BY <2>3 DEF Told
    <2> QED BY <1>1, <1>2, <2>1, <2>4, LastKept
  <1>3. CASE Cancel
    <2>1. PostedOK' /\ UnsuitableByShownAnswer'
      BY <1>1 DEF IInv, TypeOK, PostedOK, UnsuitableByShownAnswer, Inputs
    <2> QED BY <1>1, <1>3, <2>1, CancelKept
  <1> QED BY <1>2, <1>3 DEF PostNotRecommended

\* A link, or another part of the categorisation, that leaves the answers.
LEMMA LinkKept ==
    ASSUME IInv, UNCHANGED <<leaves, catType, women, doc>>,
           posted' \in {posted, <<>>}, requested' \in BOOLEAN,
           page' \in Pages \cup {"tasklist", "review", "submitted"},
           Reached(page'), Asked', Told'
    PROVE  IInv'
  <1>1. TypeOK'
    BY DEF IInv, TypeOK, Inputs, Shown
  <1>2. InOrder'
    BY DEF IInv, InOrder, Reached
  <1>3. NoRefusingAnswer' /\ UnsuitableByShownAnswer'
    BY DEF IInv, NoRefusingAnswer, UnsuitableByShownAnswer
  <1> QED BY <1>1, <1>2, <1>3 DEF IInv

\* The tasklist, the review and what follows come after no page.
LEMMA NoPage == \A p \in {"tasklist", "review", "submitted"} : p \notin Pages /\ Reached(p)
  BY PagesAre, OrderIs DEF Reached

LEMMA LinksKeep ==
    IInv /\ (OpenTask \/ Back \/ Leave \/ Review \/ Change \/ Submit \/ SendBack)
        => IInv'
  <1> SUFFICES ASSUME IInv, OpenTask \/ Back \/ Leave \/ Review \/ Change \/ Submit \/ SendBack
               PROVE  IInv'
    OBVIOUS
  <1>1. /\ UNCHANGED <<leaves, catType, women, requested, doc>>
        /\ posted' \in {posted, <<>>}
    BY DEF OpenTask, Back, Leave, Review, Change, Submit, SendBack, Goto
  <1>2. requested' \in BOOLEAN
    BY <1>1 DEF IInv, TypeOK
  <1>3. CASE OpenTask
    <2>1. page' = First /\ requested
      BY <1>3 DEF OpenTask, Goto
    <2>2. /\ First \in Pages /\ Reached(First)
          /\ First \notin {"openConditionsNotSuitable", "notRecommended"}
      BY PagesAre, OrderIs DEF First, Reached
    <2>3. Asked' /\ Told'
      BY <1>1, <2>1, <2>2, NoPage DEF IInv, Asked, Told, Completed
    <2> QED BY <1>1, <1>2, <2>1, <2>2, <2>3, LinkKept
  <1>4. CASE Back
    <2>1. PICK p \in DOMAIN doc \cap {Order[i] : i \in 1..Len(Order)} : page' = p
      BY <1>4 DEF Back, Goto
    <2>2. page \in Pages \ {"openConditionsNotSuitable"}
      BY <1>4 DEF Back
    <2>3. p \in Pages /\ p \notin {"openConditionsNotSuitable", "notRecommended"}
      BY OrderIs, PagesAre
    <2>4. Reached(p)
      BY DEF IInv, InOrder
    <2>5. Asked' /\ Told'
      BY <1>1, <2>1, <2>2, <2>3, NoPage DEF IInv, Asked, Told, Completed
    <2> QED BY <1>1, <1>2, <2>1, <2>3, <2>4, <2>5, LinkKept
  <1>5. CASE Leave
    <2>1. page' = "tasklist" /\ (leaves \/ page = "openConditionsNotSuitable")
      BY <1>5 DEF Leave, Goto
    <2>2. Told'
      <3>1. CASE leaves
        BY <1>1, <3>1 DEF Told
      <3>2. CASE page = "openConditionsNotSuitable"
        <4>1. DOMAIN doc = {}
          BY <3>2 DEF IInv, Asked, Empty
        <4>2. Reasons(doc') = {}
          BY <1>1, <4>1, NoReasons
        <4> QED BY <4>2 DEF Told
      <3> QED BY <2>1, <3>1, <3>2
    <2>3. Asked'
      BY <1>1, <2>1, NoPage DEF IInv, Asked
    <2> QED BY <1>1, <1>2, <2>1, <2>2, <2>3, NoPage, LinkKept
  <1>6. CASE Review
    <2>1. page = "tasklist" /\ page' = "review" /\ (requested => Completed)
      BY <1>6 DEF Review, Goto
    <2>2. Told' /\ Asked'
      BY <1>1, <2>1, NoPage DEF IInv, Asked, Told, Completed, Reasons, Answer
    <2> QED BY <1>1, <1>2, <2>1, <2>2, NoPage, LinkKept
  <1>7. CASE Change
    <2>1. page = "review" /\ requested
      BY <1>7 DEF Change
    <2>2. PICK p \in {Order[i] : i \in 1..Len(Order)} \ Skipped[catType] : page' = p
      BY <1>7 DEF Change, Goto
    <2>3. p \in Pages /\ p \notin {"openConditionsNotSuitable", "notRecommended"}
      BY OrderIs, PagesAre
    <2>4. "riskLevels" \in DOMAIN doc
      BY <2>1 DEF IInv, Asked, Completed
    <2>5. Reached(p)
      <3>1. Reached("riskLevels")
        BY <2>4 DEF IInv, InOrder
      <3>2. \A i \in 1..Len(Order) : i < Len(Order) =>
               Order[i] \in DOMAIN doc \cup Skipped[catType] \cup {"tprs"}
        BY <3>1, OrderIs DEF Reached
      <3> QED BY <3>2, OrderIs DEF Reached
    <2>6. Asked' /\ Told'
      BY <1>1, <2>1, <2>2, <2>3, NoPage DEF IInv, Asked, Told, Completed
    <2> QED BY <1>1, <1>2, <2>2, <2>3, <2>5, <2>6, LinkKept
  <1>8. CASE Submit
    <2>1. page = "review" /\ page' = "submitted"
      BY <1>8 DEF Submit, Goto
    <2>2. Told' /\ Asked'
      BY <1>1, <2>1, NoPage DEF IInv, Asked, Told, Completed, Reasons, Answer
    <2> QED BY <1>1, <1>2, <2>1, <2>2, NoPage, LinkKept
  <1>9. CASE SendBack
    <2>1. page = "submitted" /\ page' = "tasklist"
      BY <1>9 DEF SendBack, Goto
    <2>2. Told' /\ Asked'
      BY <1>1, <2>1, NoPage DEF IInv, Asked, Told, Completed, Reasons, Answer
    <2> QED BY <1>1, <1>2, <2>1, <2>2, NoPage, LinkKept
  <1> QED BY <1>3, <1>4, <1>5, <1>6, <1>7, <1>8, <1>9

LEMMA DecisionsKeep ==
    IInv /\ (RequireOpenConditions \/ DecideOtherwise) => IInv'
  <1> SUFFICES ASSUME IInv, RequireOpenConditions \/ DecideOtherwise PROVE IInv'
    OBVIOUS
  <1>1. CASE RequireOpenConditions
    <2>1. /\ page \in {"tasklist", "review", "submitted"}
          /\ requested' = TRUE /\ page' = "tasklist"
          /\ UNCHANGED <<leaves, catType, women, doc, posted>>
      BY <1>1 DEF RequireOpenConditions
    <2>2. Told' /\ Asked'
      BY <2>1, NoPage DEF IInv, Asked, Told, Completed, Reasons, Answer
    <2> QED BY <2>1, <2>2, NoPage, LinkKept
  <1>2. CASE DecideOtherwise
    <2>1. /\ Cancel /\ page' = "tasklist"
          /\ UNCHANGED <<leaves, catType, women, posted>>
      BY <1>2 DEF DecideOtherwise
    <2>2. PostedOK' /\ UnsuitableByShownAnswer'
      BY <2>1 DEF IInv, TypeOK, PostedOK, UnsuitableByShownAnswer, Inputs
    <2> QED BY <2>1, <2>2, CancelKept
  <1> QED BY <1>1, <1>2

LEMMA InitHolds == Init => IInv
  <1> SUFFICES ASSUME Init PROVE IInv
    OBVIOUS
  <1>1. /\ page = "tasklist" /\ doc = Empty /\ DOMAIN doc = {}
        /\ requested = FALSE /\ posted = <<>>
    BY DEF Init, Empty
  <1>2. TypeOK
    BY <1>1 DEF Init, TypeOK
  <1>3. InOrder /\ Asked
    BY <1>1, NoPage DEF InOrder, Asked
  <1>4. Told
    BY <1>1, NoReasons DEF Told
  <1>5. NoRefusingAnswer /\ UnsuitableByShownAnswer
    BY <1>1 DEF NoRefusingAnswer, UnsuitableByShownAnswer, Answer, Refusing
  <1> QED BY <1>2, <1>3, <1>4, <1>5 DEF IInv

LEMMA Stuttering == IInv /\ UNCHANGED vars => IInv'
  BY DEF IInv, vars, TypeOK, InOrder, Reached, Asked, Told, Completed, Reasons,
         Answer, NoRefusingAnswer, UnsuitableByShownAnswer, Inputs, Shown

LEMMA Invariance == Spec => []IInv
  <1>1. IInv /\ [Next]_vars => IInv'
    BY PostPageKeeps, BackToTaskListKeeps, PostRiskLevelsKeeps,
       PostNotRecommendedKeeps, LinksKeep, DecisionsKeep, Stuttering DEF Next
  <1> QED BY <1>1, InitHolds, PTL DEF Spec
-----------------------------------------------------------------------------
(* The theorems. *)

\* Every page that is kept has its shown questions answered, and no others
\* (clearConditionalFields, fieldValidation.js).
THEOREM TypeCorrect == Spec => []TypeOK
  <1>1. IInv => TypeOK
    BY DEF IInv
  <1> QED BY <1>1, Invariance, PTL

\* No answer that rules open conditions out is kept, and no prisoner is found
\* unsuitable by an answer to a hidden question, whatever the pages go back to
\* (POST /form/openConditions/:form).
THEOREM AnswersDecide == Spec => []AnswersRuleOut
  <1>1. IInv => AnswersRuleOut
    BY DEF IInv, AnswersRuleOut
  <1> QED BY <1>1, Invariance, PTL

\* When the last page is answered, every page of this type is: what the
\* tasklist takes for granted (tasklist.html).
THEOREM TheLastPageIsAll == Spec => []CompletedIsWhole
  <1>1. IInv => CompletedIsWhole
    <2> SUFFICES ASSUME IInv, "riskLevels" \in DOMAIN doc, NEW i \in 1..Len(Order)
                 PROVE  Order[i] \in DOMAIN doc \cup Skipped[catType] \cup {"tprs"}
      BY DEF CompletedIsWhole, Completed
    <2>1. Reached("riskLevels")
      BY DEF IInv, InOrder
    <2> QED BY <2>1, OrderIs DEF Reached
  <1> QED BY <1>1, Invariance, PTL

\* Open conditions that are not recommended are submitted only by who has said
\* that they are still wanted, or has left the pages half way
\* (POST /form/openConditions/riskLevels and notRecommended).
THEOREM SubmittedKnowingly == Spec => []ReferredKnowingly
  <1>1. IInv => ReferredKnowingly
    BY DEF IInv, Told, ReferredKnowingly
  <1> QED BY <1>1, Invariance, PTL
-----------------------------------------------------------------------------
(* The stages that the rest of the categorisation sees. *)

\* A page that is saved begins the part, unless it has begun before.
LEMMA SavedStage ==
    ASSUME IInv, page \in Pages, page # "openConditionsNotSuitable", page # "riskLevels",
           DOMAIN doc' = DOMAIN doc \cup {page}, UNCHANGED requested
    PROVE  [Stages!Next]_Stages!vars
  <1>1. requested
    BY DEF IInv, Asked
  <1>2. Completed' <=> Completed
    BY DEF Completed
  <1>3. ~(DOMAIN doc' \subseteq {"openConditionsNotSuitable"})
    OBVIOUS
  <1>4. \/ Stage' = Stage
        \/ Stage = "NONE" /\ Stage' = "STARTED"
    BY <1>2, <1>3 DEF Stage
  <1> QED BY <1>1, <1>4 DEF Stages!Next, Stages!Begin, Stages!vars

\* The last page comes after others.
LEMMA LastStage ==
    ASSUME IInv, page = "riskLevels",
           DOMAIN doc' = DOMAIN doc \cup {page}, UNCHANGED requested
    PROVE  [Stages!Next]_Stages!vars
  <1>1. requested
    BY PagesAre DEF IInv, Asked
  <1>2. Completed'
    BY DEF Completed
  <1>3. "earliestReleaseDate" \in DOMAIN doc
    <2>1. "earliestReleaseDate" \in DOMAIN doc \cup Skipped[catType] \cup {"tprs"}
      BY OrderIs DEF IInv, InOrder, Reached
    <2> QED BY <2>1 DEF IInv, TypeOK, Skipped
  <1>4. Stage' = "COMPLETED" /\ Stage \in {"STARTED", "COMPLETED"}
    BY <1>2, <1>3 DEF Stage
  <1> QED BY <1>1, <1>4 DEF Stages!Next, Stages!Complete, Stages!vars

LEMMA CancelStage ==
    ASSUME Cancel
    PROVE  Stages!Next
  <1>1. requested' = FALSE /\ DOMAIN doc' = {}
    BY DEF Cancel, Empty
  <1>2. Stage' = "NONE"
    BY <1>1 DEF Stage, Completed
  <1> QED BY <1>1, <1>2 DEF Stages!Next, Stages!Cancel

LEMMA UnchangedStage ==
    ASSUME UNCHANGED doc
    PROVE  Stage' = Stage
  BY DEF Stage, Completed

LEMMA StepStage == IInv /\ [Next]_vars => [Stages!Next]_Stages!vars
  <1> SUFFICES ASSUME IInv, [Next]_vars PROVE [Stages!Next]_Stages!vars
    OBVIOUS
  <1>1. CASE PostPage
    <2>1. page \in Pages /\ page \notin {"riskLevels", "openConditionsNotSuitable"}
      BY <1>1 DEF PostPage
    <2>2. CASE Cancel
      BY <2>2, CancelStage
    <2>3. CASE \E input \in Inputs(page) : Saved(input) /\ UNCHANGED requested
      <3>1. DOMAIN doc' = DOMAIN doc \cup {page}
        BY <2>3, AnswersAfter DEF Saved
      <3> QED BY <2>1, <2>3, <3>1, SavedStage
    <2> QED BY <1>1, <2>2, <2>3 DEF PostPage
  <1>2. CASE BackToTaskList
    <2>1. DOMAIN doc = {} /\ UNCHANGED requested
      BY <1>2 DEF BackToTaskList, IInv, Asked, Empty
    <2>2. DOMAIN doc' = {"openConditionsNotSuitable"}
      BY <1>2, <2>1, AnswersAfter DEF BackToTaskList
    <2>3. Stage = "NONE" /\ Stage' = "NONE"
      BY <2>1, <2>2 DEF Stage, Completed
    <2> QED BY <2>1, <2>3 DEF Stages!vars
  <1>3. CASE PostRiskLevels
    <2>1. /\ page = "riskLevels" /\ UNCHANGED requested
          /\ \E input \in Inputs(page) : Saved(input)
      BY <1>3 DEF PostRiskLevels
    <2>2. DOMAIN doc' = DOMAIN doc \cup {page}
      BY <2>1, AnswersAfter DEF Saved
    <2> QED BY <2>1, <2>2, LastStage
  <1>4. CASE PostNotRecommended
    <2>1. page = "notRecommended" /\ page \in Pages
      BY <1>4, PagesAre DEF PostNotRecommended
    <2>2. CASE Cancel
      BY <2>2, CancelStage
    <2>3. CASE Saved(<<"Yes">>) /\ UNCHANGED requested
      <3>1. DOMAIN doc' = DOMAIN doc \cup {page}
        BY <2>3, AnswersAfter DEF Saved
      <3> QED BY <2>1, <2>3, <3>1, SavedStage
    <2> QED BY <1>4, <2>2, <2>3 DEF PostNotRecommended
  <1>5. CASE OpenTask \/ Back \/ Leave \/ Review \/ Change \/ Submit \/ SendBack
             \/ UNCHANGED vars
    <2>1. UNCHANGED <<requested, doc>>
      BY <1>5 DEF OpenTask, Back, Leave, Review, Change, Submit, SendBack,
                  Goto, vars
    <2> QED BY <2>1, UnchangedStage DEF Stages!vars
  <1>6. CASE RequireOpenConditions
    <2>1. requested' = TRUE /\ UNCHANGED doc
      BY <1>6 DEF RequireOpenConditions
    <2> QED BY <2>1, UnchangedStage DEF Stages!Next, Stages!Require
  <1>7. CASE DecideOtherwise
    BY <1>7, CancelStage DEF DecideOtherwise
  <1> QED BY <1>1, <1>2, <1>3, <1>4, <1>5, <1>6, <1>7 DEF Next

\* The pages are a way to go through the stages on which the rest of the
\* categorisation relies: each post is one of them, or shows nothing of itself
\* (tasklist.html, cancelOpenConditions).
THEOREM ImplementsStages == Spec => StagesSpec
  <1>1. Init => Stages!Init
    BY DEF Init, Stages!Init, Stage, Completed, Empty
  <1> QED BY <1>1, StepStage, Invariance, PTL DEF Spec, StagesSpec, Stages!Spec
=============================================================================
