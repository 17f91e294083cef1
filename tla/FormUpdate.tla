----------------------------- MODULE FormUpdate -----------------------------
(***************************************************************************)
(* The document of a form (column form_response) under the requests that   *)
(* change it.  Every change reads the whole document, edits it and writes  *)
(* the whole of it back; nothing locks the row before it is written.  A    *)
(* request makes one or several such changes in a transaction (READ        *)
(* COMMITTED: it sees what is committed and what it wrote itself, and the  *)
(* row it has written is its own until it ends), or one without.           *)
(*                                                                         *)
(* The parts followed are those of a recategorisation that one request     *)
(* changes together with others.  A part holds "none" or an answer.        *)
(***************************************************************************)
EXTENDS Naturals, Sequences

CONSTANTS
    Requests,    \* what may be in progress at one time
    MaxPosts     \* how many requests are made, a bound of the model

ASSUME FormAssumption == "no request" \notin Requests /\ MaxPosts \in Nat

VARIABLES
    overlap,     \* whether more than one request really is in progress
    row,         \* the committed document
    holder,      \* the request whose transaction has written the row, or none
    written,     \* what it has written
    request,     \* each request: what it has still to do, and what it has read
    posts,       \* how many there have been
    owed         \* the document if each request that succeeded had come alone

formVars == <<overlap, row, holder, written, request, posts, owed>>
-----------------------------------------------------------------------------
Answers ==
    [ riskAssessment |-> {"given"},                   \* a page as most are
      oasysInput |-> {"given"}, bcstInput |-> {"given"},
      decision |-> {"open", "same", "higher"},        \* by what follows from it
      higherSecurityReview |-> {"given"}, miniHigherSecurityReview |-> {"given"},
      openConditionsRequested |-> {"given"},          \* true
      openConditions |-> {"given"},                   \* its pages, as one
      review |-> {"agree", "changeClosed", "changeOpen"},
      changeCategory |-> {"given"},
      confirmBack |-> {"unread", "read"} ]
Parts == DOMAIN Answers
Documents == {d \in [Parts -> (UNION {Answers[p] : p \in Parts}) \cup {"none"}] :
                 \A p \in Parts : d[p] \in Answers[p] \cup {"none"}}
Blank == [p \in Parts |-> "none"]
NoRequest == "no request"
-----------------------------------------------------------------------------
(* The changes: each from the document read to the document written. *)

Without(d, parts) == [p \in Parts |-> IF p \in parts THEN "none" ELSE d[p]]

\* A slip: the assessment that the new one replaces stays.
MutantRelevant(d, page) ==
    IF d["review"] = "changeClosed" THEN d ELSE Without(d, {"changeCategory"})

\* removeFieldsThatAreNoLongerRelevant, the page being the one that is saved.
Relevant(d, page) ==
    Without(d, (IF d["review"] = "changeClosed" THEN {} ELSE {"changeCategory"})
               \cup (IF page = "oasysInput" THEN {"bcstInput"} ELSE {})
               \cup (IF page = "bcstInput" THEN {"oasysInput"} ELSE {}))

\* formService.update: buildCategorisationForm, then what it makes irrelevant.
Page(d, page, answer) == Relevant([d EXCEPT ![page] = answer], page)

\* formService.requiresOpenConditions.
Requires(d) == [d EXCEPT !["openConditionsRequested"] = "given"]

\* formService.cancelOpenConditions.
Cancels(d) ==
    Without(d, {"openConditions", "openConditionsRequested"}
               \cup IF d["decision"] = "open" THEN {"decision"} ELSE {})

\* POST /form/supervisor/confirmBack: for an open category the categoriser is
\* to decide again.
Returned(d) == IF d["review"] = "changeOpen"
               THEN Requires(Without(d, {"decision"})) ELSE d

\* backToCategoriserMessageRead.
IsRead(d) == [d EXCEPT !["confirmBack"] = "read"]

Edited(d, change) ==
    CASE change[1] = "page"     -> Page(d, change[2], change[3])
      [] change[1] = "requires" -> Requires(d)
      [] change[1] = "cancels"  -> Cancels(d)
      [] change[1] = "deletes"  -> Without(d, {change[2]})
      [] change[1] = "returns"  -> Returned(d)
      [] change[1] = "isRead"   -> IsRead(d)

\* removeFormdata: a page that is not there is not deleted, and nothing written.
Needless(d, change) == change[1] = "deletes" /\ d[change[2]] = "none"

\* POST /form/recat/decision.
DecisionPosted(category) ==
    << <<"page", "decision", category>>,
       IF category = "open" THEN <<"requires">> ELSE <<"cancels">> >>
    \o IF category = "higher" THEN <<>>
       ELSE << <<"deletes", "higherSecurityReview">>,
               <<"deletes", "miniHigherSecurityReview">> >>

\* The requests, as the changes they make, in order.
Posted ==
    { << <<"page", p, "given">> >> : p \in {"riskAssessment", "oasysInput",
                           "bcstInput", "openConditions", "changeCategory"} }
    \cup { DecisionPosted(c) : c \in Answers["decision"] }
    \cup { << <<"page", "higherSecurityReview", "given">>,
              <<"deletes", "miniHigherSecurityReview">> >>,
           << <<"page", "miniHigherSecurityReview", "given">>,
              <<"deletes", "higherSecurityReview">> >>,
           << <<"page", "openConditions", "given">>, <<"cancels">> >>,
           << <<"page", "confirmBack", "unread">>, <<"returns">> >>,
           << <<"isRead">> >> }
    \cup { << <<"page", "review", a>> >> : a \in Answers["review"] }

\* A document after some of the changes a request makes, and after them all,
\* when nothing comes between.
After(d, changes) ==
    LET after[n \in 0..Len(changes)] ==
            IF n = 0 THEN d ELSE Edited(after[n - 1], changes[n])
    IN  after
Alone(d, changes) == After(d, changes)[Len(changes)]
-----------------------------------------------------------------------------
Idle == [changes |-> <<>>, all |-> <<>>, read |-> {}]

FormTypeOK ==
    /\ overlap \in BOOLEAN
    /\ row \in Documents /\ owed \in Documents
    /\ holder \in Requests \cup {NoRequest}
    /\ written \in Documents
    /\ \A r \in Requests :
           /\ request[r].all \in Posted \cup {<<>>}
           /\ Len(request[r].changes) <= Len(request[r].all)
           /\ request[r].read \subseteq Documents
    /\ posts \in 0..MaxPosts

FormInit ==
    /\ overlap \in BOOLEAN
    /\ row = Blank /\ owed = Blank
    /\ holder = NoRequest /\ written = Blank
    /\ request = [r \in Requests |-> Idle]
    /\ posts = 0
-----------------------------------------------------------------------------
Active(r) == request[r].all # <<>>

\* A request comes in, in any status of the form: CategorisationFlow follows that.
Post(r) == \E changes \in Posted :
    /\ ~Active(r) /\ posts < MaxPosts
    /\ overlap \/ \A s \in Requests : ~Active(s)
    /\ request' = [request EXCEPT
           ![r] = [changes |-> changes, all |-> changes, read |-> {}]]
    /\ posts' = posts + 1
    /\ UNCHANGED <<row, holder, written, owed>>

\* A slip: the reading is not part of the transaction.
MutantVisible(r) == row

\* What a request sees.
Visible(r) == IF holder = r THEN written ELSE row

\* getCategorisationRecord.
Read(r) ==
    /\ request[r].changes # <<>> /\ request[r].read = {}
    /\ request' = [request EXCEPT ![r].read = {Visible(r)}]
    /\ UNCHANGED <<row, holder, written, posts, owed>>

\* The next change waits to be read.
Changed(r) == [request EXCEPT
    ![r] = [changes |-> Tail(@.changes), all |-> @.all, read |-> {}]]

\* The update of the row waits for a transaction that has written it.
Write(r) == \E d \in request[r].read :
    LET change == Head(request[r].changes)
    IN  IF Needless(d, change)
        THEN /\ request' = Changed(r)
             /\ UNCHANGED <<row, holder, written, posts, owed>>
        ELSE /\ holder \in {r, NoRequest}
             /\ holder' = r
             /\ written' = Edited(d, change)
             /\ request' = Changed(r)
             /\ UNCHANGED <<row, posts, owed>>

Ended(r) ==
    /\ request' = [request EXCEPT ![r] = Idle]
    /\ holder' = IF holder = r THEN NoRequest ELSE holder
    /\ written' = IF holder = r THEN Blank ELSE written
    /\ UNCHANGED posts

\* COMMIT: the answer tells the user that the page is saved.
Commit(r) ==
    /\ Active(r) /\ request[r].changes = <<>>
    /\ row' = IF holder = r THEN written ELSE row
    /\ owed' = Alone(owed, request[r].all)
    /\ Ended(r)

\* Something fails, here or in another call the request makes: ROLLBACK.
Fail(r) ==
    /\ Active(r)
    /\ UNCHANGED <<row, owed>>
    /\ Ended(r)

FormNext ==
    /\ \E r \in Requests : Post(r) \/ Read(r) \/ Write(r) \/ Commit(r) \/ Fail(r)
    /\ UNCHANGED overlap

FormSpec == FormInit /\ [][FormNext]_formVars
-----------------------------------------------------------------------------
\* When one request comes after the other, every one that was answered with
\* success has had all of its effects, in the order of the answers, and one that
\* failed has had none (FormService.update, doTransactional).
AnswersKept == ~overlap => row = owed

\* Of the two previous risk assessments at most one is kept, as of the two
\* security reviews: whatever overlaps.
OneOfEach ==
    /\ "none" \in {row["oasysInput"], row["bcstInput"]}
    /\ "none" \in {row["higherSecurityReview"], row["miniHigherSecurityReview"]}

\* An open category never stands without the open conditions asked for.
DecisionWhole ==
    row["decision"] = "open" => row["openConditionsRequested"] = "given"

\* The text of a changed category is kept only beside a decision that still
\* changes it: it is what the approval goes on to show.
ChangeWhole == row["changeCategory"] # "none" => row["review"] = "changeClosed"

\* So the document makes sense, whatever overlaps (formService.js, recat.js).
DocumentWhole == OneOfEach /\ DecisionWhole /\ ChangeWhole
=============================================================================
