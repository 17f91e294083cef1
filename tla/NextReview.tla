------------------------------ MODULE NextReview ------------------------------
(***************************************************************************)
(* The next review date of one prisoner: as NOMIS holds it, as the form of *)
(* a categorisation under way proposes it, and as its changes are recorded *)
(* (table `next_review_change_history`).  A date is changed on a page of   *)
(* its own when nothing is under way, and on pages of the tasklist when    *)
(* something is.  Each browser tab keeps the page it was shown until it is *)
(* posted, whatever has happened since.                                    *)
(*                                                                         *)
(* Days are numbered.  What a page says besides the date is left out.      *)
(***************************************************************************)
EXTENDS Integers, Sequences, FiniteSets

CONSTANTS
    Tabs,        \* the tabs in which the prisoner is being looked at
    Faults,      \* whether a NOMIS call, or a commit after it, may fail
    LastDay,     \* bound: the last day considered
    Year,        \* in days: how far ahead a date may be, by the sentence
    Soon,        \* in days: ten business days
    MaxHistory   \* bound: the changes recorded

ASSUME DateAssumption ==
    /\ LastDay \in Nat \ {0} /\ Year \in Nat /\ Soon \in Nat /\ MaxHistory \in Nat
    /\ Faults \in BOOLEAN

VARIABLES
    today,
    record,           \* the last form not cancelled
    approved,       \* the approved form before it
    pending,        \* the date of NOMIS's pending assessment
    review,         \* the date of NOMIS's active assessment
    history,        \* next_review_change_history
    noted,           \* the dates NOMIS took from the page outside the tasklist
    risk,           \* the prisoner's risk change
    tab             \* what each tab shows

dateVars == <<today, record, approved, pending, review, history, noted, risk, tab>>
-----------------------------------------------------------------------------
None == 0                                   \* no date
Days == 1..LastDay + Year
Types == {"INITIAL", "RECAT"}
NoForm == [type |-> "RECAT", status |-> "NONE",
           date |-> [type \in Types |-> None]]
Forms == [type   : Types,
          status : {"NONE", "OPEN", "AWAITING_APPROVAL", "APPROVED"},
          date   : [Types -> Days \cup {None}]]  \* by section: ratings, recat
Pages == {"home", "standalone", "tasklist", "question", "confirm", "editing",
          "riskChange", "error"}
Shown == [page : Pages, type : Types, answered : BOOLEAN]
At(page) == [page |-> page, type |-> "RECAT", answered |-> FALSE]

DateTypeOK ==
    /\ today \in 1..LastDay
    /\ record \in Forms /\ approved \in Forms
    /\ approved.status \in {"NONE", "APPROVED"}
    /\ pending \in Days \cup {None} /\ review \in Days \cup {None}
    /\ history \in Seq([date : Days, was : Days \cup {None}])
    /\ noted \subseteq Days
    /\ risk \in {"NEW", "REVIEW_REQUIRED", "REVIEW_NOT_REQUIRED"}
    /\ tab \in [Tabs -> Shown]

DateInit ==
    /\ today = 1
    /\ record = NoForm /\ approved = NoForm
    /\ pending = None
    /\ review \in {None, Year + 1}      \* not categorised yet, or reviewed next then
    /\ history = <<>> /\ noted = {}
    /\ risk \in {"NEW", "REVIEW_NOT_REQUIRED"}
    /\ tab = [t \in Tabs |-> At("home")]

InProgress(f) == f.status \in {"OPEN", "AWAITING_APPROVAL"}

\* What validation lets through on the day a date is posted.
Valid(date) == date \in today..today + Year
-----------------------------------------------------------------------------
(* The page outside the tasklist. *)

\* The landing page's button, and what the page it leads to first looks at.
OpenStandalone(t) ==
    /\ tab[t].page = "home" /\ review # None
    /\ tab' = [tab EXCEPT ![t] =
                 At(IF InProgress(record) THEN "error" ELSE "standalone")]
    /\ UNCHANGED <<today, record, approved, pending, review,
                   history, noted, risk>>

Recorded(date) == Append(history, [date |-> date, was |-> review])

\* The answer: the change is recorded, then NOMIS is told.
StandaloneDone(t, date) ==
    /\ history' = Recorded(date)
    /\ review' = date /\ noted' = noted \cup {date}
    /\ tab' = [tab EXCEPT ![t] = At("home")]

\* NOMIS refuses: the record is rolled back.
StandaloneRefused(t, date) ==
    /\ tab' = [tab EXCEPT ![t] = At("error")]
    /\ UNCHANGED <<review, history, noted>>

\* NOMIS has been told when the commit fails.
StandaloneLost(t, date) ==
    /\ review' = date /\ noted' = noted \cup {date}
    /\ tab' = [tab EXCEPT ![t] = At("error")]
    /\ UNCHANGED history

PostStandalone(t) == \E date \in Days :
    /\ tab[t].page = "standalone" /\ Valid(date)
    /\ Len(history) < MaxHistory
    /\ \/ StandaloneDone(t, date)
       \/ Faults /\ StandaloneRefused(t, date)
       \/ Faults /\ StandaloneLost(t, date)
    /\ UNCHANGED <<today, record, approved, pending, risk>>
-----------------------------------------------------------------------------
(* The tasklists, and their pages. *)

\* The tasklist of a form, with its link to the pages of the date.
TasklistOf(f) == [page |-> "tasklist", type |-> f.type,
                  answered |-> f.date[f.type] # None]

NewForm(type) == [NoForm EXCEPT !.type = type, !.status = "OPEN"]

\* The form GET /tasklist or /tasklistRecat shows: the one under way, or else
\* a new one.
WorkedOn(type, f) == IF InProgress(f) THEN f ELSE NewForm(type)

\* The approved form that is seen again when the new one is cancelled.
Before(f) == IF f.status = "APPROVED" THEN f ELSE approved

\* GET /tasklist or /tasklistRecat: refused when the other one is under way.
Arrive(t, type, f) ==
    IF InProgress(f) /\ f.type # type
    THEN /\ tab' = [tab EXCEPT ![t] = At("error")]
         /\ record' = f /\ UNCHANGED approved
    ELSE /\ tab' = [tab EXCEPT ![t] = TasklistOf(WorkedOn(type, f))]
         /\ record' = WorkedOn(type, f)
         /\ approved' = Before(f)

\* From the to do list, or the landing page: which one depends on whether the
\* prisoner is categorised.
Tasklist(t) ==
    /\ tab[t].page = "home" /\ record.status # "AWAITING_APPROVAL"
    /\ Arrive(t, IF InProgress(record) THEN record.type
                 ELSE IF review = None THEN "INITIAL" ELSE "RECAT", record)
    /\ UNCHANGED <<today, pending, review, history, noted, risk>>

\* A page of the form as it now is.
PageOf(page) == IF record.status = "NONE" THEN At("error")
                ELSE [At(page) EXCEPT !.type = record.type]

\* The tasklist's link.
NextReviewLink(t) ==
    /\ tab[t].page = "tasklist"
    /\ tab' = [tab EXCEPT ![t] =
                 PageOf(IF tab[t].answered THEN "editing" ELSE "question")]
    /\ UNCHANGED <<today, record, approved, pending, review,
                   history, noted, risk>>

\* "Change this".
Change(t) ==
    /\ tab[t].page = "editing"
    /\ tab' = [tab EXCEPT ![t] = PageOf("question")]
    /\ UNCHANGED <<today, record, approved, pending, review,
                   history, noted, risk>>

\* POST nextReviewDateQuestion: the date of the choice is only a proposal.
PostQuestion(t) ==
    /\ tab[t].page = "question"
    /\ tab' = [tab EXCEPT ![t] = PageOf("confirm")]
    /\ UNCHANGED <<today, record, approved, pending, review,
                   history, noted, risk>>

\* POST nextReviewDateEditing ("Return").
PostEditing(t) ==
    /\ tab[t].page = "editing"
    /\ Arrive(t, "RECAT", record)
    /\ UNCHANGED <<today, pending, review, history, noted, risk>>

\* A slip: the date is always kept with the ratings.
MutantSection(type) == "INITIAL"

\* The section of the document that takes the date, by the type the page had.
Section(type) == type

\* POST nextReviewDate: the form is updated, whatever has become of it.
PostConfirm(t) == \E date \in Days :
    /\ tab[t].page = "confirm" /\ Valid(date)
    /\ Arrive(t, tab[t].type,
              IF record.status = "NONE" THEN record
              ELSE [record EXCEPT !.date[Section(tab[t].type)] = date])
    /\ UNCHANGED <<today, pending, review, history, noted, risk>>
-----------------------------------------------------------------------------
(* What becomes of the form. *)

\* "Check and submit": every section is complete, the date among them.
Submit(t) ==
    /\ tab[t].page = "tasklist" /\ tab[t].answered
    /\ record.status = "OPEN" /\ record.date[record.type] # None
    /\ record' = [record EXCEPT !.status = "AWAITING_APPROVAL"]
    /\ pending' = record.date[record.type]
    /\ tab' = [tab EXCEPT ![t] = At("home")]
    /\ UNCHANGED <<today, approved, review, history, noted, risk>>

\* The supervisor's doing.
SendBack ==
    /\ record.status = "AWAITING_APPROVAL"
    /\ record' = [record EXCEPT !.status = "OPEN"]
    /\ UNCHANGED <<today, approved, pending, review, history,
                   noted, risk, tab>>

Approve ==
    /\ record.status = "AWAITING_APPROVAL"
    /\ record' = [record EXCEPT !.status = "APPROVED"]
    /\ review' = pending /\ pending' = None
    /\ UNCHANGED <<today, approved, history, noted, risk, tab>>

\* A cancelled form is no longer seen: the approved one before it is.
Cancel(t) ==
    /\ tab[t].page = "tasklist" /\ record.status = "OPEN"
    /\ record' = approved /\ approved' = NoForm
    /\ pending' = None
    /\ tab' = [tab EXCEPT ![t] = At("home")]
    /\ UNCHANGED <<today, review, history, noted, risk>>

\* A slip: a date that is soon enough is the one put off.
MutantBroughtForward(date) == IF date < today + Soon THEN today + Soon ELSE date

\* updateNextReviewDateIfRequired: the date NOMIS is to have.
BroughtForward(date) == IF today + Soon < date THEN today + Soon ELSE date

\* getRiskChanges: those to be looked at, who have been categorised.
OnCheck == risk = "NEW" /\ review # None

OpenRiskChange(t) ==
    /\ tab[t].page = "home" /\ OnCheck
    /\ tab' = [tab EXCEPT ![t] = At("riskChange")]
    /\ UNCHANGED <<today, record, approved, pending, review,
                   history, noted, risk>>

\* updateStatusForOutstandingRiskChange: one that has an answer keeps it.
RiskAnswered(status) == risk' = IF risk = "NEW" THEN status ELSE risk

\* handleRiskChangeDecision: a review is brought forward in NOMIS first.
ReviewRequired ==
    /\ review' = BroughtForward(review)
    /\ RiskAnswered("REVIEW_REQUIRED")

\* The answer to a risk change: a review goes on with its tasklist.
PostRiskChange(t) ==
    /\ tab[t].page = "riskChange"
    /\ \/ /\ RiskAnswered("REVIEW_NOT_REQUIRED")
          /\ tab' = [tab EXCEPT ![t] = At("home")]
          /\ UNCHANGED <<review, record, approved>>
       \/ ReviewRequired /\ Arrive(t, "RECAT", record)
       \/ /\ Faults                          \* NOMIS refuses, or the commit is lost
          /\ review' \in {review, BroughtForward(review)}
          /\ tab' = [tab EXCEPT ![t] = At("error")]
          /\ UNCHANGED <<risk, record, approved>>
    /\ UNCHANGED <<today, pending, history, noted>>

Leave(t) ==
    /\ tab[t].page # "home"
    /\ tab' = [tab EXCEPT ![t] = At("home")]
    /\ UNCHANGED <<today, record, approved, pending, review,
                   history, noted, risk>>

Midnight ==
    /\ today < LastDay
    /\ today' = today + 1
    /\ UNCHANGED <<record, approved, pending, review, history,
                   noted, risk, tab>>

DateNext ==
    \/ \E t \in Tabs :
         \/ OpenStandalone(t) \/ PostStandalone(t)
         \/ Tasklist(t) \/ NextReviewLink(t) \/ Change(t)
         \/ PostQuestion(t) \/ PostEditing(t) \/ PostConfirm(t)
         \/ Submit(t) \/ Cancel(t) \/ OpenRiskChange(t) \/ PostRiskChange(t)
         \/ Leave(t)
    \/ SendBack \/ Approve \/ Midnight

DateSpec == DateInit /\ [][DateNext]_dateVars
-----------------------------------------------------------------------------
(* Properties. *)

\* While a categorisation is in progress its tasklist is the only place where
\* the date changes: the page outside it tells NOMIS nothing.
StandaloneIdle == [][noted' # noted => ~InProgress(record)]_dateVars

\* The date of an approved form is the one it was approved with: a snapshot.
SnapshotKept == [][record.status = "APPROVED" => record \in {record', approved'}]_dateVars

\* A form's date is where its own tasklist, review page and approval look for
\* it, not in the section of the other type.
OwnSection == \A type \in Types : record.date[type] # None => type = record.type

\* A recorded change is one NOMIS took: a refused one leaves no record.
RecordedIsTold == \A n \in DOMAIN history : history[n].date \in noted

\* A form keeps the date of the next review where its own type looks for it,
\* and a change of it that is recorded is one NOMIS took (nextReviewDate.js).
DateInStep == OwnSection /\ RecordedIsTold

\* A risk change is answered with a review only when NOMIS has the prisoner
\* reviewed within ten business days, in time for the to do list.
ReviewedSoon == [][ risk = "NEW" /\ risk' = "REVIEW_REQUIRED"
                        => review' <= today + Soon ]_dateVars

\* "Return" leads back to the tasklist the page was reached from.
ReturnsToTasklist == [][ \A t \in Tabs :
    tab[t].page = "editing" /\ InProgress(record) /\ record.type = tab[t].type
        => tab'[t].page # "error" ]_dateVars

\* The history holds the dates that were replaced.
HistoryIsPrevious == \A n \in DOMAIN history : history[n].date = history[n].was
==============================================================================
