------------------------------ MODULE ToDoLists ------------------------------
(***************************************************************************)
(* The to do lists of the home pages (offendersService.js), for one        *)
(* prisoner: what they make of the categorisations of CategorisationFlow   *)
(* and of what NOMIS answers.  A list merges the two sources, and has to   *)
(* drop, keep or mark the prisoner by comparing them.                      *)
(*                                                                         *)
(* Filters chosen by the user, names, dates and other categories           *)
(* (lite_category) under way are left out.                                 *)
(***************************************************************************)
EXTENDS CategorisationFlow, FiniteSets

CONSTANTS
    Crowded,      \* whether NOMIS always has others uncategorised there
    StalePages    \* whether a page may be answered that would now be refused

VARIABLES
    manual,      \* form.review_reason is MANUAL, for each row
    reviewed,    \* form.security_reviewed_date is set, for each row
    prisoner,    \* what the sources say of the prisoner and the prison
    answer       \* the assessments, as NOMIS answered the list

listVars == <<vars, manual, reviewed, prisoner, answer>>

\* Whether the next review is after the release date: that is to come, or past.
Leaving == {"no", "soon", "past"}

Prisoner ==
    [ sentenced : BOOLEAN,   \* has a sentence start date, and is no detainee
      remand    : BOOLEAN,   \* prisoner search has it on remand (legalStatus)
      other     : BOOLEAN,   \* has an approved other category, such as U
      due       : BOOLEAN,   \* the next review is within the margin
      leaving   : Leaving,
      under21   : BOOLEAN,   \* of an age to lose a young offender's category
      others    : BOOLEAN ]  \* NOMIS has others uncategorised in the prison

ListTypeOK == /\ manual \in [Seqs -> BOOLEAN]
              /\ reviewed \in [Seqs -> BOOLEAN]
              /\ prisoner \in Prisoner
              /\ answer \in [Assessments -> {"NONE", "PENDING", "APPROVED", "INACTIVE"}]
-----------------------------------------------------------------------------
(* What the lists read. *)

\* formService.getCategorisationRecord.
CurrentSeq == CHOOSE s \in 0..MaxSeq : IsCurrent(rows, s)
Current == RowAt(rows, CurrentSeq)

\* The last row, though it be cancelled (sequenceClauseIncludeCancelled).
LastSeq == CHOOSE s \in 0..MaxSeq : /\ s # 0 => rows[s] # NoRow
                                    /\ \A q \in Seqs : q > s => rows[q] = NoRow
Last == RowAt(rows, LastSeq)

InitialInProgress == Current.status \in InProgress /\ Current.catType = "INITIAL"

\* The latest assessment that NOMIS has not made inactive: its number, and its
\* status (assessStatus).
Latest == CHOOSE k \in 0..MaxNomis :
              /\ k # 0 => answer[k] \in {"PENDING", "APPROVED"}
              /\ \A j \in Assessments : j > k => answer[j] \notin {"PENDING", "APPROVED"}
AssessStatus == IF Latest # 0
                THEN IF answer[Latest] = "PENDING" THEN "P" ELSE "A"
                ELSE IF prisoner.other THEN "A" ELSE "NONE"
Categorised == \E k \in Assessments : answer[k] = "APPROVED"

\* getCategorisationRecords: manual reviews in progress, not yet submitted.
ManualInProgress(catType) ==
    /\ LastSeq # 0 => manual[LastSeq]
    /\ Last.catType = catType
    /\ Last.status \in InProgress \ {"AWAITING_APPROVAL"}

\* localStatusIsInconsistentWithNomisAwaitingApproval.
LocalStatusInconsistent ==
    /\ Current # NoRow
    /\ Current.status \notin {"AWAITING_APPROVAL", "SUPERVISOR_BACK",
                              "SECURITY_BACK", "SECURITY_MANUAL"}
-----------------------------------------------------------------------------
(* The lists, and what they mark. *)

\* NOMIS has the prisoner as uncategorised, or as awaiting approval.
NomisUncategorised == AssessStatus # "A" /\ prisoner.sentenced

\* Recategorisations that NOMIS has as awaiting approval are left out.
Listed(fromNomis) == /\ fromNomis \/ ManualInProgress("INITIAL")
                     /\ Current.catType # "RECAT"

\* getUncategorisedOffenders: nobody is listed when NOMIS has nobody.
OnUncategorised ==
    /\ AssessStatus # "A" \/ prisoner.others
    /\ Listed(NomisUncategorised)

\* Its mark 'PNOMIS': a category has been worked on in NOMIS directly.  What is
\* listed from the table alone has no status of NOMIS.
UncategorisedPnomis ==
    /\ NomisUncategorised
    /\ ~prisoner.other
    /\ \/ AssessStatus = "P" /\ (LocalStatusInconsistent \/ Current = NoRow)
       \/ AssessStatus = "NONE" /\ Current.status \in {"AWAITING_APPROVAL", "APPROVED"}

\* A slip: an initial categorisation in progress does not keep it off.
MutantRecategorisable == TRUE

\* getDueRecats, getU21Recats: not those with an initial one in progress.
Recategorisable == ~InitialInProgress

\* What keeps a prisoner on the list who leaves before the next review
\* (isAwaitingApprovalOrSecurity, isRejectedBySupervisorSuitableForDisplay).
KeptThoughLeaving ==
    \/ Current.status \in {"AWAITING_APPROVAL", "SECURITY_BACK",
                           "SECURITY_MANUAL", "SECURITY_AUTO"}
    \/ Current.status = "SUPERVISOR_BACK" /\ prisoner.leaving # "past"

\* getDueRecats: NOMIS answers with those due, and those awaiting approval; the
\* manual ones in progress are added from the table.
DueInNomis == AssessStatus = "P" \/ (Categorised /\ prisoner.due)
DueRecat ==
    /\ DueInNomis \/ ManualInProgress("RECAT")
    /\ Recategorisable
    /\ ~prisoner.remand
    /\ prisoner.leaving # "no" => KeptThoughLeaving

\* getU21Recats.
Under21Recat == Categorised /\ prisoner.under21 /\ Recategorisable

\* getRecategoriseOffenders.
OnRecategorise == Under21Recat \/ DueRecat

\* The assessStatus of who is listed: what is added from the table has none.
ListedStatus == IF Under21Recat \/ DueInNomis THEN AssessStatus ELSE "NONE"

\* pnomisOrInconsistentWarning.
RecatPnomis == IF ListedStatus = "P"
               THEN LocalStatusInconsistent \/ Current = NoRow
               ELSE Current.status = "AWAITING_APPROVAL"

\* calculateButtonStatus.
ButtonStatus ==
    IF Current.status = "AWAITING_APPROVAL"
    THEN IF ListedStatus = "A" THEN "Start" ELSE "View"
    ELSE IF \/ ListedStatus = "A" /\ Current.status \in InProgress
            \/ Current.status \in {"STARTED", "SECURITY_BACK", "SUPERVISOR_BACK",
                                   "SECURITY_MANUAL"}
         THEN "Edit" ELSE "Start"

\* getUnapprovedOffenders: awaiting approval in NOMIS, and not sent back here.
OnUnapproved ==
    /\ AssessStatus = "P"
    /\ Current.status \notin {"SUPERVISOR_BACK", "SECURITY_BACK", "SECURITY_MANUAL"}

UnapprovedPnomis == \/ Current.status # "AWAITING_APPROVAL"
                    \/ Current.nomisSeq # Latest

\* getReferredOffenders, for security: and those that it has reviewed
\* (getSecurityReviewedOffenders), or will be asked to at the next review.
Referred == {"SECURITY_MANUAL", "SECURITY_AUTO", "SECURITY_FLAGGED"}
OnReferred == Last.status \in Referred
OnSecurityDone == CurrentSeq # 0 /\ reviewed[CurrentSeq]
OnUpcoming == referral = "NEW"

\* getCategorisedOffenders: the approved rows of some kinds, each with the
\* assessment of its number (matchEliteAndDBCategorisations).
Approved(s) == rows[s].status = "APPROVED"
OnCategorised(s, catTypes) == Approved(s) /\ rows[s].catType \in catTypes
Matched(s, k) == rows[s].nomisSeq = k /\ answer[k] = "APPROVED"

\* getCategoryHistory: the rows that an approved assessment may be linked to.
HistoryRows(k) == {s \in Seqs : Approved(s) /\ rows[s].nomisSeq = k}

\* The tabs of the home pages, and what each shows (that of the risk changes is
\* in NextReview).
OnTab(tab) ==
    CASE tab = "categoriserHome"    -> OnUncategorised
      [] tab = "categoriserDone"    -> \E s \in Seqs : OnCategorised(s, {"INITIAL"})
      [] tab = "recategoriserHome"  -> OnRecategorise
      [] tab = "recategoriserDone"  -> \E s \in Seqs : OnCategorised(s, {"RECAT"})
      [] tab = "supervisorHome"     -> OnUnapproved
      [] tab = "supervisorDone"     -> \E s \in Seqs : OnCategorised(s, {"INITIAL", "RECAT"})
      [] tab = "securityHome"       -> OnReferred
      [] tab = "securityUpcoming"   -> OnUpcoming
      [] tab = "securityDone"       -> OnSecurityDone

\* requiredCatType, with the category history of the booking.
RequiredCatType == IF Categorised THEN "RECAT" ELSE "INITIAL"

\* What the landing pages of the two categorisers offer.
OfferedFor(catType) ==
    CASE Current.status \notin InProgress       -> "Start"
      [] Current.status = "AWAITING_APPROVAL"   -> "View"
      [] OTHER -> IF Current.catType = catType THEN "Continue" ELSE "nothing"
CategoriserOffered == OfferedFor("INITIAL")
RecategoriserOffered ==
    IF RequiredCatType = "RECAT" THEN OfferedFor("RECAT") ELSE "nothing"

\* What that of security offers: the referral is its user's own.
SecurityOffered == IF OnUpcoming THEN "Cancel"
                   ELSE IF Current.status \in InProgress THEN "nothing" ELSE "Refer"
-----------------------------------------------------------------------------
ListInit ==
    /\ Init
    /\ manual = [s \in Seqs |-> FALSE]
    /\ reviewed = [s \in Seqs |-> FALSE]
    /\ prisoner \in Prisoner
    /\ Crowded => prisoner.others
    /\ answer = nomis

\* A review of a prisoner is opened from the list, or early (reason MANUAL) from
\* the landing page that offers it: never from a list gone stale.
StartedEarly(catType) ==
    IF catType = "RECAT" THEN RecategoriserOffered = "Start" ELSE CategoriserOffered = "Start"
OpenedFrom(catType, early) ==
    /\ answer = nomis
    /\ IF early THEN StartedEarly(catType)
       ELSE IF catType = "RECAT" THEN OnRecategorise ELSE OnUncategorised

\* A step of the flow.
FlowStep ==
    /\ Next
    /\ \A r \in Requests :
          tx[r].op # "tasklistRecat" /\ tx'[r].op = "tasklistRecat" =>
              OnRecategorise \/ RequiredCatType = "RECAT"
    /\ \E early \in BOOLEAN :
          LET opened == {s \in Seqs : rows[s] = NoRow /\ rows'[s] # NoRow}
          IN  /\ \A s \in opened : OpenedFrom(rows'[s].catType, early)
              /\ opened = {} => ~early
              /\ manual' = [s \in Seqs |-> IF s \in opened THEN early ELSE manual[s]]
              /\ reviewed' = [s \in Seqs |-> s \notin opened /\
                    \/ reviewed[s]
                    \/ tx' = tx /\ rows'[s] # rows[s] /\ rows'[s].status = "SECURITY_BACK"]
    /\ UNCHANGED <<prisoner, answer>>

\* A list asks NOMIS; it reads the table row by row afterwards.
AskNomis ==
    /\ answer' = nomis
    /\ UNCHANGED <<vars, manual, reviewed, prisoner>>

\* POST nextReviewDateStandalone: the page is refused while a categorisation is
\* under way, an answer to it is not.
NextReviewDate ==
    /\ Current.status \in InProgress => StalePages
    /\ \E due \in BOOLEAN, leaving \in Leaving :
          prisoner' = [prisoner EXCEPT !.due = due, !.leaving = leaving]
    /\ UNCHANGED <<vars, manual, reviewed, answer>>

\* Time passes, or a risk change is to be reviewed (updateNextReviewDateIfRequired).
BecomesDue ==
    /\ prisoner' = [prisoner EXCEPT !.due = TRUE]
    /\ UNCHANGED <<vars, manual, reviewed, answer>>

\* A court remands or sentences the prisoner, the release date is calculated
\* again, or passes: nothing here is told of it.
StandingChanges ==
    /\ \E remand \in BOOLEAN, leaving \in Leaving :
          prisoner' = [prisoner EXCEPT !.remand = remand, !.leaving = leaving]
    /\ UNCHANGED <<vars, manual, reviewed, answer>>

ListNext == FlowStep \/ AskNomis \/ NextReviewDate \/ BecomesDue \/ StandingChanges

ListSpec == ListInit /\ [][ListNext]_listVars
-----------------------------------------------------------------------------
\* The list is of one moment: no request is under way, and NOMIS would answer
\* again as it has.
AtOnce == /\ \A r \in Requests : tx[r].step = "idle"
          /\ answer = nomis

\* A prisoner is on one of the two lists of the categorisers, never on both:
\* while NOMIS may answer either list with the same pending assessment.
OneList == AtOnce => ~(OnUncategorised /\ OnRecategorise)

\* Work that is lost to the lists: a recategorisation that is with the
\* categoriser, of a prisoner on remand; or of one who leaves before the next
\* review, when it is only started, or sent back by the supervisor and the release
\* date is past.
Lost ==
    /\ Current.catType = "RECAT" /\ ~prisoner.under21
    /\ \/ prisoner.remand
             /\ Current.status \in {"STARTED", "SECURITY_BACK", "SUPERVISOR_BACK"}
       \/ prisoner.leaving # "no" /\ Current.status = "STARTED"
       \/ prisoner.leaving = "past" /\ Current.status = "SUPERVISOR_BACK"

\* Work begun here is on somebody's list until it is approved or cancelled,
\* but for those lost.
InProgressListed ==
    AtOnce /\ Current.status \in InProgress /\ ~Lost =>
        \E tab \in {"categoriserHome", "recategoriserHome", "supervisorHome", "securityHome"} :
            OnTab(tab)

\* A list marks the prisoner 'PNOMIS', as categorised in NOMIS directly.
MarkedPnomis == \/ OnUncategorised /\ UncategorisedPnomis
                \/ OnRecategorise /\ RecatPnomis
                \/ OnUnapproved /\ UnapprovedPnomis

\* No list of one moment marks anything 'PNOMIS': every assessment of this
\* model was made here, so that the table and NOMIS never disagree.
NothingPnomis == AtOnce => ~MarkedPnomis

\* The same of every list: only what was made in NOMIS is marked so, as the
\* views say of it.
NeverPnomis == (\A r \in Requests : tx[r].step = "idle") => ~MarkedPnomis

\* A manual review that security was asked for when it was begun, and that NOMIS
\* does not list: the list shows it as one to start, for want of an assessStatus.
ShownAsNew == /\ ListedStatus = "NONE"
              /\ Current.status \in {"SECURITY_AUTO", "SECURITY_FLAGGED"}

\* The recategorisation list offers to start a review exactly when none is in
\* progress, or one is shown as new, and to edit one while it is not with the
\* supervisor.
ButtonMatches ==
    AtOnce /\ OnRecategorise =>
        ButtonStatus = IF Current.status \notin InProgress \/ ShownAsNew THEN "Start"
                       ELSE IF Current.status = "AWAITING_APPROVAL" THEN "View"
                       ELSE "Edit"

\* The done lists and the category history tell the same story: every approved
\* row has its approved assessment, and every approved assessment its row.
HistoryMatches ==
    AtOnce => /\ \A s \in Seqs : OnCategorised(s, {"INITIAL", "RECAT"}) =>
                                   \E k \in Assessments : Matched(s, k)
              /\ \A k \in Assessments : answer[k] = "APPROVED" =>
                                   Cardinality(HistoryRows(k)) = 1

\* The landing page of the recategorisers offers to continue a review exactly
\* when their list has it to edit, and to view or start it when the list does:
\* but for one shown as new.
LandingMatches ==
    AtOnce /\ OnTab("recategoriserHome") /\ ~ShownAsNew =>
        RecategoriserOffered = IF ButtonStatus = "Edit" THEN "Continue" ELSE ButtonStatus

\* Whoever security has referred is not referred by it again; a referral taken
\* up by a categorisation in progress is on its list, or on that of the done.
ReferralFollowed ==
    AtOnce => /\ SecurityOffered # "nothing" => ~OnTab("securityHome")
              /\ referral = "REFERRED" /\ Current.status \in InProgress =>
                    OnTab("securityHome") \/ OnTab("securityDone")

\* Nothing fails and nobody is released: either may leave NOMIS with an
\* assessment of nothing.
Undisturbed == ~faulty /\ "release" \notin atWork

\* The lists agree with the rows and with each other: nobody is on two, all
\* work begun here is on one, but for what is Lost, none is marked as made in
\* P-Nomis, the button matches the row, but for what is ShownAsNew, the done lists
\* tell what the history tells, the landing page offers what the list does, and
\* security sees what was referred.
ListsInStep ==
    Undisturbed => /\ OneList /\ InProgressListed
                   /\ NothingPnomis /\ ButtonMatches
                   /\ HistoryMatches /\ LandingMatches /\ ReferralFollowed
=============================================================================
