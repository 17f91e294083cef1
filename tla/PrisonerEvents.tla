---------------------------- MODULE PrisonerEvents ----------------------------
(***************************************************************************)
(* The queue consumer (sqsService.js) for one prisoner: movements, the     *)
(* release, and the merge of the prisoner's number into another one, each  *)
(* told by a message some time after it happened, while the categorisers   *)
(* and security go on.  A message is handled in one transaction; it is     *)
(* deleted from the queue after that, so that it may come again, and the   *)
(* queue keeps no order.                                                   *)
(*                                                                         *)
(* Handlers are steps of their own here: CategorisationFlow interleaves    *)
(* them.  Rows that are cancelled leave the table.                         *)
(***************************************************************************)
EXTENDS Integers, Sequences, CategorisationStatus

CONSTANTS
    Prisons,
    MaxRows,         \* bound: rows of `form` for the booking
    MaxRaised,       \* bound: referrals raised
    MaxEvents,       \* bound: things that happen to the prisoner
    BackToSecurity   \* whether security may be asked again after a supervisor

ASSUME BoundsAssumption == {MaxRows, MaxRaised, MaxEvents} \subseteq Nat
ASSUME BackAssumption == BackToSecurity \in BOOLEAN

VARIABLES
    rows,       \* table form: the rows of the booking, oldest first
    lite,       \* table lite_category: the booking's latest row
    referral,   \* table security_referral: by number of the prisoner
    risk,       \* table risk_change: the rows that are NEW
    nomis,      \* the prisoner and the assessments, as NOMIS has them
    queue,      \* messages that have not been deleted
    happened,   \* number of things that have happened to the prisoner
    merged,     \* history: the merge has been handled
    again       \* setting: messages may come again and out of order

eventVars == <<rows, lite, referral, risk, nomis, queue, happened, merged, again>>

PrisonerNumbers == {"removed", "survives"}
Message == [type : {"moved", "released", "merged"}, number : PrisonerNumbers, prison : Prisons]
Referral == [ status : {"NONE", "NEW", "REFERRED", "COMPLETED"},
              raised : 0..MaxRaised, prison : Prisons ]
Row == [ status : InProgress \cup {"APPROVED"}, number : PrisonerNumbers, prison : Prisons ]

EventTypeOK ==
    /\ rows \in Seq(Row) /\ Len(rows) <= MaxRows
    /\ lite \in [unapproved : BOOLEAN, number : PrisonerNumbers, prison : Prisons]
    /\ referral \in [PrisonerNumbers -> Referral]
    /\ risk \subseteq [number : PrisonerNumbers, prison : Prisons]
    /\ nomis \in [ number : PrisonerNumbers, prison : Prisons, inside : BOOLEAN,
                   pending : SUBSET {"form", "lite"},  \* whose assessment is
                   below   : SUBSET {"form", "lite"} ] \* and under an active one
    /\ queue \in Seq(Message) /\ Len(queue) <= happened
    /\ happened \in 0..MaxEvents
    /\ merged \in BOOLEAN
    /\ again \in BOOLEAN

EventInit == \E p \in Prisons :
    /\ rows = <<>>
    /\ lite = [unapproved |-> FALSE, number |-> "removed", prison |-> p]
    /\ referral = [n \in PrisonerNumbers |-> [status |-> "NONE", raised |-> 0, prison |-> p]]
    /\ risk = {}
    /\ nomis = [number |-> "removed", prison |-> p, inside |-> TRUE,
                pending |-> {}, below |-> {}]
    /\ queue = <<>>
    /\ happened = 0
    /\ merged = FALSE
    /\ again \in BOOLEAN

\* getCategorisationRecord: its status is undefined when there is no row.
Current == rows[Len(rows)]
Status == IF rows = <<>> THEN Undefined ELSE Current.status

\* The rows that are left when some have gone.
Without(gone) == [s \in DOMAIN rows \ gone |-> rows[s]]
-----------------------------------------------------------------------------
(* What happens to the prisoner, in NOMIS. *)

Send(type, number, prison) ==
    /\ happened < MaxEvents
    /\ happened' = happened + 1
    /\ queue' = Append(queue, [type |-> type, number |-> number, prison |-> prison])

\* An admission to a prison, from another one or after a release.
Admitted == \E p \in Prisons :
    /\ nomis.inside => p # nomis.prison
    /\ nomis' = [nomis EXCEPT !.prison = p, !.inside = TRUE]
    /\ Send("moved", nomis.number, p)
    /\ UNCHANGED <<rows, lite, referral, risk, merged>>

Released ==
    /\ nomis.inside
    /\ nomis' = [nomis EXCEPT !.inside = FALSE]
    /\ Send("released", nomis.number, nomis.prison)
    /\ UNCHANGED <<rows, lite, referral, risk, merged>>

\* The prisoner was known by two numbers.  The merge may copy an older active
\* assessment above those that are pending.
Merged ==
    /\ nomis.number = "removed"
    /\ \E below \in {nomis.below, nomis.pending} :
          nomis' = [nomis EXCEPT !.number = "survives", !.below = below]
    /\ Send("merged", "survives", nomis.prison)
    /\ UNCHANGED <<rows, lite, referral, risk, merged>>

\* An alert has raised a risk change.
RiskRaised ==
    /\ nomis.inside
    /\ risk' = risk \cup {[number |-> nomis.number, prison |-> nomis.prison]}
    /\ UNCHANGED <<rows, lite, referral, nomis, queue, happened, merged>>

\* The other number may have a referral of its own already.
ReferredBefore ==
    /\ ~merged /\ referral["survives"].raised = 0
    /\ \E status \in {"NEW", "COMPLETED"}, r \in 1..MaxRaised :
          /\ \A n \in PrisonerNumbers : referral[n].raised < r
          /\ referral' = [referral EXCEPT !["survives"] =
                             [status |-> status, raised |-> r, prison |-> nomis.prison]]
    /\ UNCHANGED <<rows, lite, risk, nomis, queue, happened, merged>>
-----------------------------------------------------------------------------
(* What the users do: the number and the prison are those NOMIS gives. *)

\* Security raises a referral when nothing is in progress.
Refer ==
    /\ nomis.inside
    /\ Status \notin InProgress /\ ~lite.unapproved
    /\ \E r \in 1..MaxRaised :
          /\ \A n \in PrisonerNumbers : referral[n].raised < r
          /\ \A q \in 1..r - 1 : \E n \in PrisonerNumbers : referral[n].raised >= q
          /\ referral' = [referral EXCEPT ![nomis.number] =
                             [status |-> "NEW", raised |-> r, prison |-> nomis.prison]]
    /\ UNCHANGED <<rows, lite, risk, nomis, queue, happened, merged>>

Opened(status) == [status |-> status, number |-> nomis.number, prison |-> nomis.prison]

\* A tasklist opens a row; it takes up a new referral, and a recategorisation
\* the risk changes.
Open ==
    /\ nomis.inside
    /\ Status \in {Undefined, "APPROVED"} /\ ~lite.unapproved
    /\ Len(rows) < MaxRows
    /\ IF referral[nomis.number].status = "NEW"
       THEN /\ rows' = Append(rows, Opened("SECURITY_FLAGGED"))
            /\ referral' = [referral EXCEPT ![nomis.number].status = "REFERRED"]
       ELSE /\ \E status \in {"STARTED", "SECURITY_AUTO"} :
                  rows' = Append(rows, Opened(status))
            /\ UNCHANGED referral
    /\ risk' = IF Status = "APPROVED" THEN {c \in risk : c.number # nomis.number}
                                      ELSE risk
    /\ UNCHANGED <<lite, nomis, queue, happened, merged>>

\* A tasklist visited again takes up a new referral, if the status allows it.
TakeUp ==
    /\ nomis.inside
    /\ Status \in InProgress /\ Allowed(Status, "SECURITY_FLAGGED")
    /\ referral[nomis.number].status = "NEW"
    /\ rows' = [rows EXCEPT ![Len(rows)].status = "SECURITY_FLAGGED"]
    /\ referral' = [referral EXCEPT ![nomis.number].status = "REFERRED"]
    /\ UNCHANGED <<lite, risk, nomis, queue, happened, merged>>

\* The categoriser, security and the supervisor move the row on.  A submission
\* creates an assessment unless the row already has one.
Advance == \E status \in InProgress \ {"SECURITY_AUTO", "SECURITY_FLAGGED"} :
    /\ nomis.inside
    /\ Status \in InProgress /\ Allowed(Status, status)
    /\ Status = "SUPERVISOR_BACK" /\ status = "SECURITY_MANUAL" => BackToSecurity
    /\ rows' = [rows EXCEPT ![Len(rows)].status = status]
    /\ nomis' = [nomis EXCEPT !.pending =
                    IF status = "AWAITING_APPROVAL" THEN @ \cup {"form"} ELSE @]
    /\ UNCHANGED <<lite, referral, risk, queue, happened, merged>>

\* The supervisor approves: the referral of the row's number is completed.
Approve ==
    /\ nomis.inside
    /\ Allowed(Status, "APPROVED")
    /\ rows' = [rows EXCEPT ![Len(rows)].status = "APPROVED"]
    /\ referral' = [referral EXCEPT ![Current.number].status =
                       IF @ = "NONE" THEN @ ELSE "COMPLETED"]
    /\ nomis' = [nomis EXCEPT !.pending = @ \ {"form"}, !.below = @ \ {"form"}]
    /\ UNCHANGED <<lite, risk, queue, happened, merged>>

\* A cancellation: the referral of the row's number is given back.
Cancel ==
    /\ nomis.inside
    /\ Allowed(Status, "CANCELLED")
    /\ rows' = Without({Len(rows)})
    /\ referral' = [referral EXCEPT ![Current.number].status =
                       IF @ = "REFERRED" THEN "NEW" ELSE @]
    /\ nomis' = [nomis EXCEPT !.pending = {}, !.below = {}]
    /\ UNCHANGED <<lite, risk, queue, happened, merged>>

\* Another category is recorded, and approved.
OpenLite ==
    /\ nomis.inside
    /\ ~lite.unapproved
    /\ lite' = [unapproved |-> TRUE, number |-> nomis.number, prison |-> nomis.prison]
    /\ nomis' = [nomis EXCEPT !.pending = @ \cup {"lite"}]
    /\ UNCHANGED <<rows, referral, risk, queue, happened, merged>>

ApproveLite ==
    /\ nomis.inside
    /\ lite.unapproved
    /\ lite' = [lite EXCEPT !.unapproved = FALSE]
    /\ nomis' = [nomis EXCEPT !.pending = @ \ {"lite"}, !.below = @ \ {"lite"}]
    /\ UNCHANGED <<rows, referral, risk, queue, happened, merged>>
-----------------------------------------------------------------------------
(* The consumer. *)

\* A slip: another category is not moved.
MutantMoveForm(m) ==
    /\ rows' = IF Status \in InProgress
               THEN [rows EXCEPT ![Len(rows)].prison = m.prison] ELSE rows
    /\ UNCHANGED lite

\* The categorisations in progress go with the prisoner.
MoveForm(m) ==
    /\ rows' = IF Status \in InProgress
               THEN [rows EXCEPT ![Len(rows)].prison = m.prison] ELSE rows
    /\ lite' = IF lite.unapproved THEN [lite EXCEPT !.prison = m.prison] ELSE lite

\* handleExternalMovementEvent: so do a new referral and new risk changes.
HandleMoved(m) ==
    /\ m.type = "moved"
    /\ MoveForm(m)
    /\ risk' = {IF c.number = m.number THEN [c EXCEPT !.prison = m.prison] ELSE c : c \in risk}
    /\ referral' = [referral EXCEPT ![m.number].prison =
                       IF referral[m.number].status = "NEW" THEN m.prison ELSE @]
    /\ UNCHANGED <<nomis, merged>>

Exists(r) == r.status # "NONE"
Complete(r) == r.status = "COMPLETED"

\* The referral of the removed number replaces that of the surviving one.
RemovedReplaces ==
    LET removed == referral["removed"]
        survives == referral["survives"]
    IN  /\ Exists(removed)
        /\ Exists(survives) => /\ ~Complete(removed)
                               /\ Complete(survives) \/ removed.raised > survives.raised

\* A slip: only what waits for the supervisor is looked for.
MutantRestored ==
    \/ /\ \E i \in DOMAIN rows : rows[i].number = "removed"
       /\ Status = "AWAITING_APPROVAL"
    \/ /\ lite.number = "removed"
       /\ lite.unapproved

\* checkAndMergeOffenderNo: a pending assessment is to be the latest again.
Restored ==
    \/ /\ \E i \in DOMAIN rows : rows[i].number = "removed"
       /\ Status \in {"AWAITING_APPROVAL", "SUPERVISOR_BACK"}
    \/ /\ lite.number = "removed"
       /\ lite.unapproved

Renumber ==
    /\ rows' = [i \in DOMAIN rows |-> [rows[i] EXCEPT !.number = "survives"]]
    /\ lite' = [lite EXCEPT !.number = "survives"]
    /\ risk' = {[c EXCEPT !.number = "survives"] : c \in risk}

\* updateOffenderIdentifierReturningBookingId.
HandleMerged(m) ==
    /\ m.type = "merged"
    /\ Renumber
    /\ referral' = IF RemovedReplaces
                   THEN [referral EXCEPT !["survives"] = referral["removed"],
                                         !["removed"].status = "NONE"]
                   ELSE referral
    /\ nomis' = IF Restored THEN [nomis EXCEPT !.below = {}] ELSE nomis
    /\ merged' = TRUE

\* getPendingCategorisations.
PendingFor(row, number) == row.number = number /\ row.status \in InProgress

\* deletePendingCategorisations: NOMIS is not told.  The assessments of the rows
\* stay pending there, but they are no row's any more.
HandleReleased(m) ==
    LET pending == {s \in DOMAIN rows : PendingFor(rows[s], m.number)}
        liteGoes == lite.number = m.number /\ lite.unapproved
        gone == (IF Len(rows) \in pending THEN {"form"} ELSE {})
                \cup (IF liteGoes THEN {"lite"} ELSE {})
    IN  /\ m.type = "released"
        /\ rows' = Without(pending)
        /\ lite' = IF liteGoes THEN [lite EXCEPT !.unapproved = FALSE] ELSE lite
        /\ nomis' = [nomis EXCEPT !.pending = @ \ gone, !.below = @ \ gone]
        /\ UNCHANGED <<referral, risk, merged>>

Deleted(i) == [j \in 1..Len(queue) - 1 |-> queue[IF j < i THEN j ELSE j + 1]]

\* handleEventMessage: the message is deleted unless the deletion fails.
Handle == \E i \in DOMAIN queue :
    /\ i > 1 => again
    /\ HandleMoved(queue[i]) \/ HandleMerged(queue[i]) \/ HandleReleased(queue[i])
    /\ \/ queue' = Deleted(i)
       \/ /\ again
          /\ UNCHANGED queue
    /\ UNCHANGED happened

EventNext ==
    /\ \/ Admitted \/ Released \/ Merged \/ RiskRaised \/ ReferredBefore
       \/ Refer \/ Open \/ TakeUp \/ Advance \/ Approve \/ Cancel
       \/ OpenLite \/ ApproveLite
       \/ Handle
    /\ UNCHANGED again

EventSpec == EventInit /\ [][EventNext]_eventVars
-----------------------------------------------------------------------------
Told == queue = <<>>

\* The work in progress is in the lists of the prison the prisoner is in.
AtPrison ==
    Told /\ nomis.inside =>
        /\ Status \in InProgress => Current.prison = nomis.prison
        /\ lite.unapproved => lite.prison = nomis.prison
        /\ \A c \in risk : c.number = nomis.number => c.prison = nomis.prison

\* So is a referral that waits for the next review.
ReferralAtPrison ==
    Told /\ nomis.inside /\ referral[nomis.number].status = "NEW" =>
        referral[nomis.number].prison = nomis.prison

\* Nothing is left under the removed number that somebody still has to act on:
\* of two referrals the survivor has the one that matters.
NoneLeftBehind ==
    Told /\ nomis.number = "survives" =>
        /\ \A i \in DOMAIN rows : rows[i].number = "survives"
        /\ lite.unapproved => lite.number = "survives"
        /\ \A c \in risk : c.number = "survives"
        /\ ~Complete(referral["removed"]) /\ Exists(referral["removed"]) =>
               Exists(referral["survives"])

\* A category under way is the latest NOMIS has of the booking, so that the
\* approval finds it (setInactive after a merge).
PendingOnTop ==
    Told => /\ Status \in InProgress => "form" \notin nomis.below
            /\ lite.unapproved => "lite" \notin nomis.below

\* Nothing unapproved is left of a prisoner who has been released.
ReleasedHasNone ==
    Told /\ ~nomis.inside => Status \notin InProgress /\ ~lite.unapproved

\* What is under way is where NOMIS has the prisoner, and nothing of a first
\* categorisation is under way for who was released, if messages are told once
\* and in order (sqsService.js).
FollowsPrisoner == ~again => AtPrison /\ ReleasedHasNone

\* After a merge nothing is left under the number that was removed, and NOMIS
\* has nothing active above the pending assessment of a row, also when messages
\* are told again and out of order (checkAndMergeOffenderNo).
MergeWhole == NoneLeftBehind /\ (~BackToSecurity => PendingOnTop)

\* The tasklist of a categorisation in progress can be visited: it fails when it
\* finds a new referral that the status does not let it take up.
TasklistOpens ==
    Status \in InProgress /\ referral[nomis.number].status = "NEW" =>
        ~Rejected(Status, "SECURITY_FLAGGED")

\* Once a merge has chosen, the referral that was not used is never used.
ChosenOnce ==
    [][merged => referral'["removed"] = referral["removed"]]_<<merged, referral>>
=============================================================================
