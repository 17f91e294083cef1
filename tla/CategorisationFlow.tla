------------------------- MODULE CategorisationFlow -------------------------
(***************************************************************************)
(* The life of the categorisations of one booking, as the concurrent       *)
(* requests of the web application make it: the rows of table `form`, the  *)
(* prisoner's `security_referral` and `risk_change` rows, and the          *)
(* assessments NOMIS keeps for the same booking.                           *)
(*                                                                         *)
(* A handler runs in one PostgreSQL transaction (db.js, doTransactional)   *)
(* at READ COMMITTED.  Each statement sees what had been committed when it *)
(* began, and the transaction's own writes.  An UPDATE fixes its target    *)
(* row when it begins; if another transaction holds that row it waits and  *)
(* then updates that same row, or nothing if the row has been deleted.     *)
(* NOMIS is called inside the transaction and is never rolled back.        *)
(*                                                                         *)
(* What is written to `security_referral` and `risk_change` takes effect   *)
(* at the commit: nobody can see it, or write those rows, any earlier.     *)
(* Form contents, users and dates are left out.                            *)
(***************************************************************************)
EXTENDS Integers, CategorisationStatus

CONSTANTS
    Requests,     \* requests and queue messages that may be in flight at once
    MaxSeq,       \* bound: rows of `form` for the booking
    MaxNomis,     \* bound: assessments NOMIS creates for the booking
    Ops           \* the handlers that may be called

ASSUME MaxSeqAssumption == MaxSeq \in Nat \ {0}
ASSUME MaxNomisAssumption == MaxNomis \in Nat \ {0}

VARIABLES
    rows,         \* table form: the committed row with each sequence_no
    referral,     \* table security_referral: status of the prisoner's row
    riskChange,   \* table risk_change: status of the prisoner's row
    nomis,        \* NOMIS: status of each assessment of the booking
    approvedFor,  \* history: the row NOMIS approved each assessment for
    tx,           \* what each request in flight has read and written
    atWork,       \* the handlers that are called in this behaviour
    faulty        \* whether one in flight may fail, at any step

setting == <<atWork, faulty>>
vars == <<rows, referral, riskChange, nomis, approvedFor, tx, setting>>
-----------------------------------------------------------------------------
Seqs == 1..MaxSeq
Assessments == 1..MaxNomis

Row == [ status   : Statuses \cup {Undefined},
         catType  : {"NONE", "INITIAL", "RECAT"},
         nomisSeq : 0..MaxNomis,
         approved : BOOLEAN ]            \* approved_by, approval_date are set

NoRow == [ status |-> Undefined, catType |-> "NONE", nomisSeq |-> 0,
           approved |-> FALSE ]

Steps == { "idle", "update", "reread", "refer", "back", "reject", "decide",
           "submit", "record", "stamp", "approve", "inactivate", "cancel",
           "open", "readReferral", "flag", "delete", "commit" }

\* Statements that update the current row, and so may have to wait for it.
Updating == { "update", "refer", "back", "decide", "record", "stamp",
              "cancel", "flag" }

ReferralStatuses == {"NONE", "NEW", "REFERRED", "COMPLETED", "CANCELLED"}
ReferralEffects == {"KEEP", "NEW", "REFERRED", "COMPLETED", "RESTORE"}

\* The statement has not begun: its target row is not fixed yet.
Unaimed == -1

Transaction ==
    [ op       : {"none"} \cup atWork,
      step     : Steps,
      status   : Statuses \cup {Undefined},  \* status last read
      seq      : 0..MaxNomis,                \* nomis_sequence_no read
      target   : {Unaimed} \cup (0..MaxSeq), \* row waited for; 0: it is gone
      held     : SUBSET Seqs,                \* rows written, so locked
      work     : [Seqs -> Row],              \* their uncommitted contents
      made     : 0..MaxNomis,                \* assessment created in NOMIS
      referral : ReferralEffects,            \* written to security_referral
      doomed   : SUBSET Seqs ]               \* rows a release has yet to delete

Idle == [ op |-> "none", step |-> "idle", status |-> Undefined, seq |-> 0,
          target |-> Unaimed, held |-> {}, work |-> [s \in Seqs |-> NoRow],
          made |-> 0, referral |-> "KEEP", doomed |-> {} ]

TypeOK ==
    /\ rows \in [Seqs -> Row]
    /\ referral \in ReferralStatuses
    /\ riskChange \in {"NONE", "NEW", "REVIEWED_FIRST"}
    /\ nomis \in [Assessments -> {"NONE", "PENDING", "APPROVED", "INACTIVE"}]
    /\ approvedFor \in [Assessments -> 0..MaxSeq]
    /\ tx \in [Requests -> Transaction]
    /\ atWork \in SUBSET Ops /\ faulty \in BOOLEAN

Init ==
    /\ rows = [s \in Seqs |-> NoRow]
    /\ referral = "NONE"
    /\ riskChange = "NONE"
    /\ nomis = [k \in Assessments |-> "NONE"]
    /\ approvedFor = [k \in Assessments |-> 0]
    /\ tx = [r \in Requests |-> Idle]
    /\ atWork \in SUBSET Ops /\ faulty \in BOOLEAN
-----------------------------------------------------------------------------
(* Reading *)

\* The table as the transaction of r sees it: its own writes, then what is
\* committed.
View(r) == [s \in Seqs |-> IF s \in tx[r].held THEN tx[r].work[s] ELSE rows[s]]

\* The row `sequenceClause` selects: the highest sequence number among the
\* rows that are not cancelled; 0 when there is none.
Hidden(table, s) == table[s].status \in {Undefined, "CANCELLED"}

IsCurrent(table, s) ==
    /\ s # 0 => ~Hidden(table, s)
    /\ \A t \in Seqs : t > s => Hidden(table, t)

\* The sequence number `create` computes, over all rows, cancelled or not.
IsNext(table, n) ==
    /\ n \in 1..MaxSeq + 1
    /\ n > 1 => table[n - 1] # NoRow
    /\ \A t \in Seqs : t >= n => table[t] = NoRow

RowAt(table, s) == IF s \in Seqs THEN table[s] ELSE NoRow
-----------------------------------------------------------------------------
(* Writing *)

\* No other transaction holds row s.
Free(r, s) == \A q \in Requests \ {r} : s \notin tx[q].held

\* The row the statement of r updates.
Target(r, s) ==
    /\ Free(r, s)
    /\ IF tx[r].target = Unaimed THEN IsCurrent(View(r), s) ELSE s = tx[r].target

\* The handler goes on; the status it had read is not used again.
Goto(r, step) == [tx[r] EXCEPT !.step = step, !.target = Unaimed,
                               !.status = Undefined]

\* The statement leaves `row` in row s (it touches no row when s is 0 or has
\* been deleted) and the handler goes on as `after`.
Write(r, s, row, after) ==
    tx' = [tx EXCEPT ![r] =
              IF RowAt(View(r), s) = NoRow THEN after
              ELSE [after EXCEPT !.held = @ \cup {s}, !.work[s] = row]]

\* UPDATE form SET status = ... on the current row.
SetStatus(r, status, after) ==
    \E s \in 0..MaxSeq :
        /\ Target(r, s)
        /\ Write(r, s, [RowAt(View(r), s) EXCEPT !.status = status], after)

\* The row is held by another transaction: the statement waits for it.
Block(r) ==
    /\ tx[r].target = Unaimed
    /\ \E s \in Seqs :
          /\ \/ tx[r].step \in Updating /\ IsCurrent(View(r), s)
             \/ tx[r].step = "open" /\ IsNext(View(r), s)
          /\ ~Free(r, s)
          /\ tx' = [tx EXCEPT ![r].target = s]
    /\ UNCHANGED <<rows, referral, riskChange, nomis, approvedFor>>

\* ROLLBACK: nothing the transaction wrote remains.
Rollback(r) == tx' = [tx EXCEPT ![r] = Idle]

\* What the statements on security_referral leave: the upsert of a new
\* referral, the conditional one of a cancellation, and updates that find a
\* row only when the prisoner has one.
ReferralAfter(effect) ==
    CASE effect = "KEEP"    -> referral
      [] effect = "NEW"     -> "NEW"
      [] effect = "RESTORE" -> IF referral = "REFERRED" THEN "NEW" ELSE referral
      [] OTHER              -> IF referral = "NONE" THEN "NONE" ELSE effect

\* The tasklist of a recategorisation takes up a new risk change.
RiskChangeAfter(op) ==
    IF op = "tasklistRecat" /\ riskChange = "NEW"
    THEN "REVIEWED_FIRST" ELSE riskChange

\* COMMIT.  A statement waiting for a row this deletes finds it gone.
Commit(r) ==
    /\ tx[r].step = "commit"
    /\ rows' = View(r)
    /\ referral' = ReferralAfter(tx[r].referral)
    /\ riskChange' = RiskChangeAfter(tx[r].op)
    /\ tx' = [q \in Requests |->
                 IF q = r THEN Idle
                 ELSE IF \E s \in tx[r].held :
                            tx[r].work[s] = NoRow /\ tx[q].target = s
                      THEN [tx[q] EXCEPT !.target = 0]
                      ELSE tx[q]]
    /\ UNCHANGED <<nomis, approvedFor>>

\* q cannot go on before p ends.
WaitsFor(q, p) ==
    /\ q # p
    /\ \/ tx[q].target \in tx[p].held
       \/ /\ tx[q].doomed \cap tx[p].held # {}
          /\ \A s \in tx[q].doomed : ~Free(q, s)

\* PostgreSQL ends a transaction that is part of a deadlock.
BreakDeadlock(r) ==
    /\ \E waiting \in SUBSET Requests :
          /\ r \in waiting
          /\ \A q \in waiting : /\ \E p \in waiting : WaitsFor(q, p)
                                /\ \E p \in waiting : WaitsFor(p, q)
    /\ Rollback(r)
    /\ UNCHANGED <<rows, referral, riskChange, nomis, approvedFor>>

\* Any failure: an exception, a failed call, an answer that never came, a
\* crash of the server.  What NOMIS was told before it stands.
Abort(r) ==
    /\ faulty
    /\ tx[r].step # "idle"
    /\ Rollback(r)
    /\ UNCHANGED <<rows, referral, riskChange, nomis, approvedFor>>
-----------------------------------------------------------------------------
(* The first step of each handler: it reads the current row and checks the *)
(* transition it will ask for.  A check that fails leaves nothing behind,  *)
(* so only the handlers that go on are steps here.                         *)

\* The handler goes on with the status (or nothing) of what it has read.
Start(r, op, step, status) ==
    tx' = [tx EXCEPT ![r] = [Idle EXCEPT !.op = op, !.step = step,
                                         !.status = status]]

Calls(r, op, s) == /\ op \in atWork
                   /\ tx[r].step = "idle"
                   /\ s \in 0..MaxSeq
                   /\ IsCurrent(rows, s)

\* Saving a page of the form: formService.update with no new status.
SaveForm(r) == \E s \in 0..MaxSeq :
    /\ Calls(r, "save", s)
    /\ Start(r, "save", "update", RowAt(rows, s).status)

\* The security input page, answered Yes (No only saves the page).
SecurityInput(r) == \E s \in 0..MaxSeq :
    /\ Calls(r, "securityInput", s)
    /\ Start(r, "securityInput", "update", RowAt(rows, s).status)

\* The supervisor sends the categorisation back.
SendBack(r) == \E s \in 0..MaxSeq :
    /\ Calls(r, "sendBack", s)
    /\ Start(r, "sendBack", "update", RowAt(rows, s).status)

\* The categoriser submits for approval; the row is read once for its NOMIS
\* sequence number, and again for its status.
Submit(r) == \E s \in 0..MaxSeq :
    /\ Calls(r, "submit", s)
    /\ tx' = [tx EXCEPT ![r] = [Idle EXCEPT !.op = "submit", !.step = "reread",
                                            !.seq = RowAt(rows, s).nomisSeq]]

\* The supervisor approves.
Approve(r) == \E s \in 0..MaxSeq :
    /\ Calls(r, "approve", s)
    /\ \/ /\ Allowed(RowAt(rows, s).status, "APPROVED")
          /\ Start(r, "approve", "stamp", Undefined)
       \/ /\ Repeated(RowAt(rows, s).status, "APPROVED")
          /\ Start(r, "approve", "approve", Undefined)

\* The categorisation is cancelled; NOMIS is told before anything is checked.
\* The referral to give back is that of the offender on the row read here.
Cancel(r) == \E s \in 0..MaxSeq :
    /\ Calls(r, "cancel", s)
    /\ tx' = [tx EXCEPT ![r] = [Idle EXCEPT !.op = "cancel",
                                            !.step = "inactivate",
                                            !.referral = IF s = 0 THEN "KEEP"
                                                         ELSE "RESTORE"]]

\* A slip: only a row of the same type is looked for.
MutantOpensOverOtherType(row, catType) ==
    row.status \in {Undefined, "APPROVED"} \/ row.catType # catType

\* A tasklist opens a row when none is current, or the current one is approved.
Opens(row, catType) == row.status \in {Undefined, "APPROVED"}
Continues(row, catType) == row.status \in InProgress /\ row.catType = catType

\* GET of a tasklist: it opens a row when there is none, or an approved one.
\* It gives up when the other type of categorisation, or an unapproved row of
\* lite_category, is under way.
TasklistFor(r, op, catType) == \E s \in 0..MaxSeq :
    /\ Calls(r, op, s)
    /\ \/ /\ Opens(RowAt(rows, s), catType)
          /\ Start(r, op, "open", Undefined)
       \/ /\ Continues(RowAt(rows, s), catType)
          /\ Start(r, op, "readReferral", rows[s].status)

Tasklist(r) == TasklistFor(r, "tasklist", "INITIAL")
TasklistRecat(r) == TasklistFor(r, "tasklistRecat", "RECAT")

\* No categorisation is under way.
MayRaise(status) == status \notin InProgress

\* Security raises a referral: refused when a categorisation is under way.
RaiseReferral(r) == \E s \in 0..MaxSeq :
    /\ Calls(r, "raiseReferral", s)
    /\ MayRaise(RowAt(rows, s).status)
    /\ tx' = [tx EXCEPT ![r] = [Idle EXCEPT !.op = "raiseReferral",
                                            !.step = "commit",
                                            !.referral = "NEW"]]

\* A slip: the query without its conditions on the status and the approval.
MutantPendingApproved(row) == row # NoRow

\* getPendingCategorisations.
Pending(row) == row.status \in InProgress /\ ~row.approved

\* The release of the prisoner: the rows to delete are listed first.  The
\* queue delivers one message at a time.
Release(r) ==
    /\ "release" \in atWork
    /\ tx[r].step = "idle"
    /\ \A q \in Requests : tx[q].op # "release"
    /\ tx' = [tx EXCEPT ![r] =
                 [Idle EXCEPT !.op = "release", !.step = "delete",
                              !.doomed = {s \in Seqs : Pending(rows[s])}]]

\* Security cancels its referral: one statement, whatever the status is.
CancelReferral(r) ==
    /\ "cancelReferral" \in atWork
    /\ tx[r].step = "idle"
    /\ referral # "NONE"
    /\ referral' = "CANCELLED"
    /\ UNCHANGED <<rows, riskChange, nomis, approvedFor, tx>>

\* The security review: the handler only calls offender-categorisation-api,
\* which moves the row on.
SecurityReviewed(r) ==
    /\ "securityReview" \in atWork
    /\ tx[r].step = "idle"
    /\ \E s \in Seqs :
          /\ IsCurrent(rows, s)
          /\ \A q \in Requests : s \notin tx[q].held
          /\ Allowed(rows[s].status, "SECURITY_BACK")
          /\ rows' = [rows EXCEPT ![s].status = "SECURITY_BACK"]
    /\ UNCHANGED <<referral, riskChange, nomis, approvedFor, tx>>

\* An alert event has raised a risk change for the prisoner.
RiskChangeRaised ==
    /\ "riskRaised" \in atWork
    /\ riskChange' = "NEW"
    /\ UNCHANGED <<rows, referral, nomis, approvedFor, tx>>

Begin(r) ==
    /\ \/ SaveForm(r) \/ SecurityInput(r) \/ SendBack(r) \/ Submit(r)
       \/ Approve(r) \/ Cancel(r) \/ Tasklist(r) \/ TasklistRecat(r)
       \/ RaiseReferral(r) \/ Release(r)
    /\ UNCHANGED <<rows, referral, riskChange, nomis, approvedFor>>
-----------------------------------------------------------------------------
(* The later steps of the handlers that only touch the database. *)

\* A slip: a saved page always starts over.
MutantStatusReset(current) == "STARTED"

\* calculateStatus, when no new status is asked for.
CalculateStatus(current) == IF current = Undefined THEN "STARTED" ELSE current

\* formService.update: the status that was read is written back.
UpdateForm(r) ==
    /\ tx[r].step = "update"
    /\ SetStatus(r, CalculateStatus(tx[r].status),
                 Goto(r, IF tx[r].op = "save" THEN "commit" ELSE "reread"))

\* The row is read again and the transition checked: allowed, it is written
\* next; already made, the write is skipped; refused, the handler throws.
Reread(r) ==
    LET proposed == CASE tx[r].op = "securityInput" -> "SECURITY_MANUAL"
                      [] tx[r].op = "sendBack" -> "SUPERVISOR_BACK"
                      [] tx[r].op = "submit"   -> "AWAITING_APPROVAL"
                      [] OTHER                 -> "CANCELLED"
        write    == CASE tx[r].op = "securityInput" -> "refer"
                      [] tx[r].op = "sendBack" -> "back"
                      [] tx[r].op = "submit"   -> "decide"
                      [] OTHER                 -> "cancel"
        skip     == CASE tx[r].op = "sendBack" -> "reject"
                      [] tx[r].op = "submit"   -> "submit"
                      [] OTHER                 -> "commit"
    IN  /\ tx[r].step = "reread"
        /\ \E s \in 0..MaxSeq :
              LET row == RowAt(View(r), s)
                  read(step) ==
                      tx' = [tx EXCEPT ![r].step = step,
                                       ![r].seq = IF tx[r].op = "sendBack"
                                                  THEN row.nomisSeq ELSE @]
              IN  /\ IsCurrent(View(r), s)
                  /\ \/ Allowed(row.status, proposed) /\ read(write)
                     \/ Repeated(row.status, proposed) /\ read(skip)
                     \/ Rejected(row.status, proposed) /\ Rollback(r)

\* referToSecurityIfRequested.
Refer(r) == /\ tx[r].step = "refer"
            /\ SetStatus(r, "SECURITY_MANUAL", Goto(r, "commit"))

\* formService.backToCategoriser.
Back(r) == /\ tx[r].step = "back"
           /\ SetStatus(r, "SUPERVISOR_BACK", Goto(r, "reject"))

\* formService.categoriserDecision and categoriserDecisionWithFormResponse.
Decide(r) == /\ tx[r].step = "decide"
             /\ SetStatus(r, "AWAITING_APPROVAL", Goto(r, "submit"))

\* formService.supervisorApproval: the row is stamped and the referral closed.
Stamp(r) ==
    /\ tx[r].step = "stamp"
    /\ \E s \in 0..MaxSeq :
          /\ Target(r, s)
          /\ Write(r, s, [RowAt(View(r), s) EXCEPT !.status = "APPROVED",
                                                   !.approved = TRUE],
                   [Goto(r, "approve") EXCEPT !.referral = "COMPLETED"])

\* A slip: the referral is not given back.
MutantCancelKeepsReferral(r) ==
    /\ tx[r].step = "cancel"
    /\ SetStatus(r, "CANCELLED", [Goto(r, "commit") EXCEPT !.referral = "KEEP"])

\* A slip: the other cancelled status of the enum, which no handler writes.
MutantCancelRelease(r) == /\ tx[r].step = "cancel"
                          /\ SetStatus(r, "CANCELLED_RELEASE", Goto(r, "commit"))

\* formService.cancel.
CancelRow(r) == /\ tx[r].step = "cancel"
                /\ SetStatus(r, "CANCELLED", Goto(r, "commit"))

\* Slips: the number is dropped, wrong by one, or written without the clause
\* that selects the current row.
MutantSeqNotRecorded(r) ==
    tx[r].step = "record" /\ tx' = [tx EXCEPT ![r] = Goto(r, "commit")]
MutantSeqOffByOne(r) ==
    /\ tx[r].step = "record"
    /\ \E s \in 0..MaxSeq :
          /\ Target(r, s)
          /\ Write(r, s, [RowAt(View(r), s) EXCEPT !.nomisSeq = tx[r].made + 1],
                   Goto(r, "commit"))
MutantSeqOnEveryRow(r) ==
    /\ tx[r].step = "record"
    /\ tx' = [tx EXCEPT ![r] =
          [Goto(r, "commit") EXCEPT
              !.held = {s \in Seqs : View(r)[s] # NoRow},
              !.work = [s \in Seqs |-> IF View(r)[s] = NoRow THEN NoRow
                            ELSE [View(r)[s] EXCEPT !.nomisSeq = tx[r].made]]]]

\* formService.recordNomisSeqNumber.
RecordNomisSeq(r) ==
    /\ tx[r].step = "record"
    /\ \E s \in 0..MaxSeq :
          /\ Target(r, s)
          /\ Write(r, s, [RowAt(View(r), s) EXCEPT !.nomisSeq = tx[r].made],
                   Goto(r, "commit"))

\* createCategorisationRecord, then the first visit of addSocProfile: an
\* organised crime alert or an extremism lead refers the new row at once.
Open(r) ==
    /\ tx[r].step = "open"
    /\ \E n \in Seqs :
          /\ Free(r, n)
          /\ IF tx[r].target = Unaimed THEN IsNext(View(r), n)
                                       ELSE n = tx[r].target /\ rows[n] = NoRow
          /\ \E status \in {"STARTED", "SECURITY_AUTO"} :
                tx' = [tx EXCEPT ![r] =
                          [Goto(r, "readReferral") EXCEPT
                              !.status = status,
                              !.held = @ \cup {n},
                              !.work[n] = [NoRow EXCEPT
                                  !.status = status,
                                  !.catType = IF tx[r].op = "tasklist"
                                              THEN "INITIAL" ELSE "RECAT"]]]

\* A slip: an insert that finds its number taken is never given up.
MutantInsertTriedForever(r) ==
    /\ tx[r].step = "open"
    /\ \/ tx[r].target = Unaimed /\ IsNext(View(r), MaxSeq + 1)
       \/ tx[r].target = 0
    /\ Rollback(r)
\* The sequence number was taken while the insert waited for it (the unique
\* constraint of table form), or is past the bound of the model.
OpenFails(r) ==
    /\ tx[r].step = "open"
    /\ \/ tx[r].target = Unaimed /\ IsNext(View(r), MaxSeq + 1)
       \/ tx[r].target = 0
       \/ tx[r].target \in Seqs /\ rows[tx[r].target] # NoRow
    /\ Rollback(r)

\* referToSecurityIfFlagged reads the referral and checks the transition.
ReadReferral(r) ==
    /\ tx[r].step = "readReferral"
    /\ \/ /\ referral # "NEW" \/ Repeated(tx[r].status, "SECURITY_FLAGGED")
          /\ tx' = [tx EXCEPT ![r] = Goto(r, "commit")]
       \/ /\ referral = "NEW" /\ Allowed(tx[r].status, "SECURITY_FLAGGED")
          /\ tx' = [tx EXCEPT ![r] = Goto(r, "flag")]
       \/ /\ referral = "NEW" /\ Rejected(tx[r].status, "SECURITY_FLAGGED")
          /\ Rollback(r)

\* A tasklist that has just opened a row where there was none finds an
\* unapproved row in lite_category and takes its own row back.  (After an
\* approved row it looks before it inserts: nothing remains either way.)
LiteInProgress(r) ==
    /\ tx[r].step = "readReferral"
    /\ tx[r].held # {}
    /\ Rollback(r)

\* A slip: the referral is completed when it is taken up.
MutantFlagCompletes(r) ==
    /\ tx[r].step = "flag"
    /\ SetStatus(r, "SECURITY_FLAGGED",
                 [Goto(r, "commit") EXCEPT !.referral = "COMPLETED"])

\* referToSecurityIfFlagged takes the referral up.
Flag(r) ==
    /\ tx[r].step = "flag"
    /\ SetStatus(r, "SECURITY_FLAGGED",
                 [Goto(r, "commit") EXCEPT !.referral = "REFERRED"])

\* deletePendingCategorisations: each listed row is deleted by its id.
Delete(r) ==
    /\ tx[r].step = "delete"
    /\ \/ \E s \in tx[r].doomed :
             /\ Free(r, s)
             /\ tx' = [tx EXCEPT ![r].held = @ \cup {s}, ![r].work[s] = NoRow,
                                 ![r].doomed = @ \ {s}]
       \/ tx[r].doomed = {} /\ tx' = [tx EXCEPT ![r].step = "commit"]

DatabaseStep(r) ==
    /\ \/ UpdateForm(r) \/ Reread(r) \/ Refer(r) \/ Back(r) \/ Decide(r)
       \/ Stamp(r) \/ CancelRow(r) \/ RecordNomisSeq(r) \/ Open(r)
       \/ OpenFails(r) \/ ReadReferral(r) \/ LiteInProgress(r) \/ Flag(r)
       \/ Delete(r)
    /\ UNCHANGED <<rows, referral, riskChange, nomis, approvedFor>>
-----------------------------------------------------------------------------
(* The calls of the handlers to NOMIS. *)

\* NOMIS acts on the latest assessment that is pending.
LatestPending(k) == /\ nomis[k] = "PENDING"
                    /\ \A j \in Assessments : j > k => nomis[j] # "PENDING"

\* createOrUpdateCategorisation: an assessment is created unless the row, when
\* it was first read, already had one.
NomisSubmit(r) ==
    /\ tx[r].step = "submit"
    /\ IF tx[r].seq # 0
       THEN tx' = [tx EXCEPT ![r].step = "commit"] /\ UNCHANGED nomis
       ELSE \/ \E k \in Assessments :
                  /\ nomis[k] = "NONE"
                  /\ \A j \in Assessments : j < k => nomis[j] # "NONE"
                  /\ nomis' = [nomis EXCEPT ![k] = "PENDING"]
                  /\ tx' = [tx EXCEPT ![r].step = "record", ![r].made = k]
            \/ /\ \A k \in Assessments : nomis[k] # "NONE"   \* past the bound
               /\ Rollback(r)
               /\ UNCHANGED nomis
    /\ UNCHANGED <<rows, referral, riskChange, approvedFor>>

\* A slip: the handler goes on when NOMIS has nothing to approve.
MutantRefusalIgnored(r) == /\ \A k \in Assessments : nomis[k] # "PENDING"
                           /\ tx' = [tx EXCEPT ![r].step = "commit"]

\* NOMIS has nothing to approve: the call fails.
ApprovalRefused(r) == /\ \A k \in Assessments : nomis[k] # "PENDING"
                      /\ Rollback(r)

\* createSupervisorApproval: no sequence number is sent, so NOMIS approves its
\* latest pending assessment, and refuses when none is pending.
NomisApprove(r) ==
    /\ tx[r].step = "approve"
    /\ \/ \E k \in Assessments, s \in 0..MaxSeq :
             /\ LatestPending(k)
             /\ tx[r].held = {s} \ {0}
             /\ nomis' = [nomis EXCEPT ![k] = "APPROVED"]
             /\ approvedFor' = [approvedFor EXCEPT ![k] = s]
             /\ tx' = [tx EXCEPT ![r].step = "commit"]
       \/ ApprovalRefused(r) /\ UNCHANGED <<nomis, approvedFor>>
    /\ UNCHANGED <<rows, referral, riskChange>>

\* createSupervisorRejection, for the assessment the row names; it stays
\* pending.
NomisReject(r) ==
    /\ tx[r].step = "reject"
    /\ IF tx[r].seq # 0 THEN tx' = [tx EXCEPT ![r].step = "commit"]
                        ELSE Rollback(r)
    /\ UNCHANGED <<rows, referral, riskChange, nomis, approvedFor>>

\* setInactive: every pending assessment of the booking.
NomisInactivate(r) ==
    /\ tx[r].step = "inactivate"
    /\ nomis' = [k \in Assessments |-> IF nomis[k] = "PENDING" THEN "INACTIVE"
                                       ELSE nomis[k]]
    /\ tx' = [tx EXCEPT ![r].step = "reread"]
    /\ UNCHANGED <<rows, referral, riskChange, approvedFor>>

NomisStep(r) == \/ NomisSubmit(r) \/ NomisApprove(r)
                \/ NomisReject(r) \/ NomisInactivate(r)
-----------------------------------------------------------------------------
\* What a request in flight does unless it fails.
Step(r) == \/ DatabaseStep(r) \/ NomisStep(r)
           \/ Block(r) \/ Commit(r) \/ BreakDeadlock(r)

Next ==
    /\ \/ \E r \in Requests : \/ Begin(r) \/ CancelReferral(r)
                              \/ SecurityReviewed(r) \/ Step(r) \/ Abort(r)
       \/ RiskChangeRaised
    /\ UNCHANGED setting

Spec == Init /\ [][Next]_vars

\* Calls to NOMIS return, as they have timeouts; so do statements, as
\* PostgreSQL hands a row on to those waiting for it in turn, and ends a
\* deadlock.
Fairness == \A r \in Requests : SF_vars(Step(r) /\ UNCHANGED setting)

FairSpec == Spec /\ Fairness
-----------------------------------------------------------------------------
(* What holds whatever the interleaving and whatever fails. *)

\* The NOMIS sequence number recorded on a row (updateRecordWithNomisSeqNumber)
\* is that of an assessment NOMIS has.
RecordedInNomis ==
    \A s \in Seqs : rows[s].nomisSeq # 0 => nomis[rows[s].nomisSeq] # "NONE"

\* Two rows never name the same assessment: the unique constraint on
\* (booking_id, nomis_sequence_no) never makes a submission fail.
SequencesDiffer ==
    \A s, t \in Seqs : /\ s # t
                       /\ rows[s].nomisSeq # 0
                       => rows[s].nomisSeq # rows[t].nomisSeq

\* A row carries a supervisor's approval only if NOMIS accepted an approval
\* made for it, although NOMIS is called after the row is written.
StampedWasApproved ==
    \A s \in Seqs : rows[s].approved =>
                       \E k \in Assessments : approvedFor[k] = s

\* A referral is completed (setSecurityReferralStatus in supervisorApproval)
\* only by an approval that NOMIS accepted.
CompletedWasApproved ==
    referral = "COMPLETED" => \E k \in Assessments : nomis[k] = "APPROVED"

\* Every request is answered: no set of transactions waits for its own locks.
EveryRequestEnds == \A r \in Requests : tx[r].step # "idle" ~> tx[r].step = "idle"
-----------------------------------------------------------------------------
(* What holds when the handlers of a booking do not overlap. *)

\* A booking has one categorisation under way.
OneInProgress ==
    \A s, t \in Seqs : /\ rows[s].status \in InProgress
                       /\ rows[t].status \in InProgress
                       => s = t

\* The row that is stamped with an approval is the row in status APPROVED.
StampMatchesStatus ==
    \A s \in Seqs : rows[s].approved <=> rows[s].status = "APPROVED"

\* A new referral waits only while nothing is under way: raising one is
\* refused then, and opening a categorisation takes it up.
NewReferralNotHeld ==
    referral = "NEW" => \A s \in Seqs : rows[s].status \notin InProgress

\* Between requests none of which fails, a categorisation that awaits approval
\* names the very assessment NOMIS would approve, as the approval sends no
\* sequence number (createSupervisorApproval) and the to-do list compares the
\* two.
AwaitingIsPending ==
    \A s \in Seqs : /\ ~faulty
                    /\ rows[s].status = "AWAITING_APPROVAL"
                    /\ \A r \in Requests : tx[r].step = "idle"
                    =>
        /\ rows[s].nomisSeq # 0
        /\ LatestPending(rows[s].nomisSeq)

\* An approved row's own assessment is the one that was approved for it.
StampedOwnAssessment ==
    \A s \in Seqs : rows[s].approved =>
        /\ rows[s].nomisSeq # 0
        /\ approvedFor[rows[s].nomisSeq] = s

\* The row stamped with an approval is the row in status APPROVED, and the
\* assessment it names is the one approved for it (supervisorApproval sends no
\* number).
ApprovalInStep == StampMatchesStatus /\ StampedOwnAssessment

\* An approved categorisation is never put back to its beginning, as the
\* transition table says.
ApprovedNeverStarted ==
    [][\A s \in Seqs : rows[s].status = "APPROVED"
                         => rows'[s].status # "STARTED"]_rows

\* A release deletes the categorisations that are not approved, and no other
\* handler deletes any: an approved one is kept for good
\* (deletePendingCategorisations).
ApprovedNeverDeleted ==
    [][\A s \in Seqs : rows[s].approved => rows'[s] # NoRow]_rows

\* A referral that has been taken up is held by a categorisation under way
\* until that is approved or cancelled, which close it or give it back: else
\* no tasklist takes it up again (referToSecurityIfFlagged).
ReferredIsHeld ==
    referral = "REFERRED" => \E s \in Seqs : rows[s].status \in InProgress

\* A new referral waits only while nothing is under way; one that has been
\* taken up is held by what is under way (referToSecurityIfFlagged), unless a
\* release deletes that, which keeps the referral as it is.
ReferralInStep == /\ NewReferralNotHeld
                  /\ "release" \notin atWork => ReferredIsHeld

\* The to-do list of the supervisor takes a row that names an assessment older
\* than the latest pending one for a categorisation made in P-Nomis.  Nothing
\* is made there in this model, so no row waiting for approval is ever older.
DatabaseNotEarlier ==
    (\A r \in Requests : tx[r].step = "idle") =>
        \A s \in Seqs, k \in Assessments :
            /\ rows[s].status = "AWAITING_APPROVAL"
            /\ IsCurrent(rows, s)
            /\ LatestPending(k)
            => k <= rows[s].nomisSeq

\* The rows implement the life cycle that statusEnum.js describes.
Lifecycle == INSTANCE CategorisationLifecycle
                 WITH status <- [s \in Seqs |-> rows[s].status]
LifecycleSpec == Lifecycle!Spec
=============================================================================
