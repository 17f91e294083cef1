----------------------- MODULE CategorisationFlowProofs -----------------------
(***************************************************************************)
(* Proofs that the invariants of CategorisationFlow which hold under any   *)
(* interleaving and any failure hold for every number of requests, rows    *)
(* and assessments.                                                        *)
(*                                                                         *)
(* They are not inductive: what a request has not committed yet counts.    *)
(* IInv adds, for each request, what its uncommitted rows may hold         *)
(* (Accounted), and for each two requests that they neither hold the same  *)
(* row nor created the same assessment (Apart).                            *)
(*                                                                         *)
(* Further down: what holds when the requests of a booking do not overlap  *)
(* (SerialInv), and what the to do lists then show of it (ForeseenInv and  *)
(* ListInv, of ToDoLists).                                                 *)
(***************************************************************************)
EXTENDS ToDoLists, FiniteSetTheorems, WellFoundedInduction, TLAPS

\* Only an assessment that was approved is credited to a row.
CreditIsApproved ==
    \A k \in Assessments : approvedFor[k] # 0 => nomis[k] = "APPROVED"

Credited(s) == \E k \in Assessments : approvedFor[k] = s

\* An uncommitted row s of a request in state t: its sequence number is the
\* committed one or the one the request created, and its stamp has been
\* accepted by NOMIS unless the request is about to ask.
RowAccounted(t, s) ==
    /\ t.work[s].nomisSeq \in {0, rows[s].nomisSeq, t.made}
    /\ t.work[s].approved => \/ Credited(s)
                             \/ t.step = "approve" /\ t.held = {s}

\* An assessment a request has created is in NOMIS and on no committed row;
\* it goes on one row, after which the request only commits.
MadeAccounted(t) ==
    /\ t.made # 0 => /\ t.step \in {"record", "commit"}
                     /\ nomis[t.made] # "NONE"
                     /\ \A s \in Seqs : rows[s].nomisSeq # t.made
                     /\ \A s, u \in t.held : /\ t.work[s].nomisSeq = t.made
                                             /\ t.work[u].nomisSeq = t.made
                                             => s = u
    /\ t.step = "record" => /\ t.made # 0
                            /\ \A s \in t.held : t.work[s].nomisSeq # t.made

Accounted(t) ==
    /\ \A s \in t.held : RowAccounted(t, s)
    /\ MadeAccounted(t)
    /\ t.step = "stamp" => t.held = {}
    /\ t.referral = "COMPLETED" =>
          \/ t.step = "approve"
          \/ \E k \in Assessments : nomis[k] = "APPROVED"

Apart(t, u) == /\ t.held \cap u.held = {}
               /\ t.made # 0 => t.made # u.made

IInv == /\ TypeOK
        /\ RecordedInNomis
        /\ SequencesDiffer
        /\ StampedWasApproved
        /\ CompletedWasApproved
        /\ CreditIsApproved
        /\ \A r \in Requests : Accounted(tx[r])
        /\ \A q, r \in Requests : q # r => Apart(tx[q], tx[r])
-----------------------------------------------------------------------------
(* Types *)

LEMMA NoRowType == NoRow \in Row
BY MaxNomisAssumption DEF NoRow, Row

\* A request that is not in flight.
LEMMA IdleType == Idle \in Transaction
BY NoRowType, MaxSeqAssumption, MaxNomisAssumption
   DEF Idle, Transaction, Steps, ReferralEffects, Seqs, Unaimed

\* What a transaction sees of the table is a table.
LEMMA ViewType ==
    ASSUME TypeOK, NEW r \in Requests
    PROVE  /\ View(r) \in [Seqs -> Row]
           /\ \A s \in Seqs : View(r)[s] = IF s \in tx[r].held THEN tx[r].work[s]
                                           ELSE rows[s]
           /\ \A s : RowAt(View(r), s) \in Row
           /\ \A s : RowAt(rows, s) \in Row
BY NoRowType DEF TypeOK, View, RowAt, Transaction
-----------------------------------------------------------------------------
(* Steps of a request that only change its own state *)

\* The handlers that are called stay the same, and so does what a request is.
LEMMA SameTransactions == ASSUME UNCHANGED setting PROVE Transaction' = Transaction
<1>1. atWork' = atWork
  BY DEF setting
<1>. QED
  BY <1>1 DEF Transaction

\* A request that has written nothing and created nothing is accounted for.
LEMMA FreshAccounted ==
    ASSUME NEW t, t.held = {}, t.made = 0, t.step # "record",
           t.referral # "COMPLETED"
    PROVE  Accounted(t)
BY DEF Accounted, MadeAccounted

\* If a step leaves the tables and NOMIS alone, and the request comes to a
\* state t that is accounted for and takes no row from another, IInv stays.
LEMMA OwnStep ==
    ASSUME IInv, NEW r \in Requests, NEW t \in Transaction,
           Accounted(t),
           \A q \in Requests \ {r} : t.held \cap tx[q].held = {},
           t.made \in {0, tx[r].made},
           tx' = [tx EXCEPT ![r] = t],
           UNCHANGED <<rows, referral, riskChange, nomis, approvedFor>>,
           UNCHANGED setting
    PROVE  IInv'
<1>1. TypeOK'
  BY SameTransactions DEF IInv, TypeOK, setting
<1>2. /\ RecordedInNomis' /\ SequencesDiffer' /\ StampedWasApproved'
      /\ CompletedWasApproved' /\ CreditIsApproved'
  BY DEF IInv, RecordedInNomis, SequencesDiffer, StampedWasApproved,
         CompletedWasApproved, CreditIsApproved
<1>3. tx'[r] = t /\ \A q \in Requests \ {r} : tx'[q] = tx[q]
  BY DEF IInv, TypeOK
<1>4. ASSUME NEW q \in Requests PROVE Accounted(tx[q])'
  <2>1. Accounted(tx'[q])
    BY <1>3 DEF IInv
  <2>. QED
    BY <2>1 DEF Accounted, MadeAccounted, RowAccounted, Credited
<1>5. ASSUME NEW p \in Requests, NEW q \in Requests, p # q
      PROVE  Apart(tx[p], tx[q])'
  <2>1. Apart(tx[p], tx[q]) /\ Apart(tx[q], tx[p])
    BY <1>5 DEF IInv
  <2>2. CASE p = r
    BY <1>3, <1>5, <2>1, <2>2 DEF Apart
  <2>3. CASE q = r
    <3>1. t.made # 0 => t.made # tx[p].made
      BY <1>5, <2>1, <2>3 DEF Apart
    <3>. QED
      BY <1>3, <1>5, <2>1, <2>3, <3>1 DEF Apart
  <2>4. CASE p # r /\ q # r
    BY <1>3, <2>1, <2>4 DEF Apart
  <2>. QED
    BY <2>2, <2>3, <2>4
<1>. QED
  BY <1>1, <1>2, <1>4, <1>5 DEF IInv
-----------------------------------------------------------------------------
(* Steps that write a row *)

\* What a request reads of a row is accounted for.
LEMMA ViewAccounted ==
    ASSUME IInv, NEW r \in Requests, NEW s \in Seqs, tx[r].step # "approve"
    PROVE  /\ RowAt(View(r), s) = View(r)[s]
           /\ View(r)[s].nomisSeq \in {0, rows[s].nomisSeq, tx[r].made}
           /\ View(r)[s].approved => Credited(s)
<1>1. /\ View(r)[s] = IF s \in tx[r].held THEN tx[r].work[s] ELSE rows[s]
      /\ RowAt(View(r), s) = View(r)[s]
  BY ViewType DEF IInv, RowAt
<1>2. Accounted(tx[r])
  BY DEF IInv
<1>3. CASE s \in tx[r].held
  BY <1>1, <1>2, <1>3 DEF Accounted, RowAccounted
<1>4. CASE s \notin tx[r].held
  BY <1>1, <1>4 DEF IInv, StampedWasApproved, Credited
<1>. QED
  BY <1>1, <1>3, <1>4

\* Writing a row that no other request holds keeps IInv, if the row written is
\* accounted for in the state `after` the handler goes on in.
LEMMA WriteStep ==
    ASSUME IInv, NEW r \in Requests, NEW s \in 0..MaxSeq, Free(r, s),
           NEW after \in Transaction, Accounted(after),
           after.held = tx[r].held, after.work = tx[r].work,
           after.made = tx[r].made,
           after.step \notin {"stamp", "record"},
           after.step = "approve" => after.held = {},
           NEW row, row \in Row,
           s \in Seqs => row.nomisSeq \in {0, rows[s].nomisSeq, after.made},
           /\ row.nomisSeq = after.made
           /\ after.made # 0
           => \A u \in after.held : after.work[u].nomisSeq # after.made,
           row.approved => Credited(s) \/ after.step = "approve",
           Write(r, s, row, after),
           UNCHANGED <<rows, referral, riskChange, nomis, approvedFor>>,
           UNCHANGED setting
    PROVE  IInv'
<1>. DEFINE t == [after EXCEPT !.held = @ \cup {s}, !.work[s] = row]
<1>1. CASE RowAt(View(r), s) = NoRow
  <2>1. tx' = [tx EXCEPT ![r] = after]
    BY <1>1 DEF Write
  <2>2. \A q \in Requests \ {r} : after.held \cap tx[q].held = {}
    BY DEF IInv, Apart
  <2>. QED
    BY <2>1, <2>2, OwnStep
<1>2. CASE RowAt(View(r), s) # NoRow
  <2>1. s \in Seqs /\ tx' = [tx EXCEPT ![r] = t]
    BY <1>2 DEF Write, RowAt
  <2>2. /\ t \in Transaction
        /\ t.held = after.held \cup {s}
        /\ t.work[s] = row
        /\ \A u \in Seqs : u # s => t.work[u] = after.work[u]
        /\ t.step = after.step /\ t.made = after.made
        /\ t.referral = after.referral
    BY <2>1 DEF Transaction
  <2>3. \A q \in Requests \ {r} : t.held \cap tx[q].held = {}
    BY <2>2 DEF IInv, Apart, Free
  <2>4. t.held \subseteq Seqs
    BY <2>2 DEF Transaction
  <2>5. ASSUME NEW u \in t.held PROVE RowAccounted(t, u)
    <3>1. CASE u = s
      BY <2>1, <2>2, <3>1 DEF RowAccounted
    <3>2. CASE u # s
      BY <2>2, <2>4, <3>2 DEF Accounted, RowAccounted
    <3>. QED
      BY <3>1, <3>2
  <2>6. MadeAccounted(t)
    BY <2>2, <2>4 DEF Accounted, MadeAccounted
  <2>7. Accounted(t)
    BY <2>2, <2>5, <2>6 DEF Accounted
  <2>. QED
    BY <2>1, <2>2, <2>3, <2>7, OwnStep
<1>. QED
  BY <1>1, <1>2

\* The update of a status, in a handler that has created no assessment yet.
LEMMA StatusStep ==
    ASSUME IInv, NEW r \in Requests,
           tx[r].step \notin {"approve", "record", "commit"},
           NEW status \in Statuses, NEW after \in Transaction,
           after.held = tx[r].held, after.work = tx[r].work,
           after.made = tx[r].made,
           after.step \notin {"stamp", "record", "approve"},
           after.referral \in {tx[r].referral, "REFERRED"},
           SetStatus(r, status, after),
           UNCHANGED <<rows, referral, riskChange, nomis, approvedFor>>,
           UNCHANGED setting
    PROVE  IInv'
<1>1. PICK s \in 0..MaxSeq :
          /\ Free(r, s)
          /\ Write(r, s, [RowAt(View(r), s) EXCEPT !.status = status], after)
  BY DEF SetStatus, Target
<1>. DEFINE row == [RowAt(View(r), s) EXCEPT !.status = status]
<1>2. Accounted(tx[r]) /\ tx[r].made = 0
  BY DEF IInv, Accounted, MadeAccounted
<1>3. Accounted(after)
  BY <1>2 DEF Accounted, MadeAccounted, RowAccounted
<1>4. RowAt(View(r), s) \in Row
  BY ViewType DEF IInv
<1>5. /\ row \in Row
      /\ row.nomisSeq = RowAt(View(r), s).nomisSeq
      /\ row.approved = RowAt(View(r), s).approved
  BY <1>4 DEF Row
<1>6. /\ s \in Seqs => row.nomisSeq \in {0, rows[s].nomisSeq, after.made}
      /\ row.approved => Credited(s)
  <2>1. CASE s \in Seqs
    BY <1>5, <2>1, ViewAccounted
  <2>2. CASE s \notin Seqs
    BY <1>5, <2>2 DEF RowAt, NoRow
  <2>. QED
    BY <2>1, <2>2
<1>. QED
  BY <1>1, <1>2, <1>3, <1>5, <1>6, WriteStep
-----------------------------------------------------------------------------
(* The actions *)

\* A request that ends leaves nothing behind.
LEMMA RollbackStep ==
    ASSUME IInv, NEW r \in Requests, Rollback(r),
           UNCHANGED <<rows, referral, riskChange, nomis, approvedFor>>,
           UNCHANGED setting
    PROVE  IInv'
<1>1. Accounted(Idle)
  BY FreshAccounted DEF Idle
<1>2. \A q \in Requests \ {r} : Idle.held \cap tx[q].held = {}
  BY DEF Idle
<1>3. Idle.made = 0
  BY DEF Idle
<1>. QED
  BY <1>1, <1>2, <1>3, IdleType, OwnStep DEF Rollback

\* A handler begins with nothing written.
LEMMA BeginStep ==
    ASSUME IInv, NEW r \in Requests, Begin(r),
           UNCHANGED setting
    PROVE  IInv'
<1>1. \E t \in Transaction :
          /\ tx' = [tx EXCEPT ![r] = t]
          /\ t.held = {} /\ t.made = 0
          /\ t.step # "record" /\ t.referral # "COMPLETED"
  <2>1. \A s : /\ RowAt(rows, s).status \in Statuses \cup {Undefined}
               /\ RowAt(rows, s).nomisSeq \in 0..MaxNomis
    BY ViewType DEF IInv, Row
  <2>2. \A op \in atWork, step \in Steps, status \in Statuses \cup {Undefined} :
           [Idle EXCEPT !.op = op, !.step = step, !.status = status]
               \in Transaction
    BY IdleType DEF Transaction
  <2>3. CASE \/ SaveForm(r) \/ SecurityInput(r) \/ SendBack(r)
             \/ Approve(r) \/ Tasklist(r) \/ TasklistRecat(r)
    <3>1. PICK op \in atWork,
               step \in {"update", "stamp", "approve", "open", "readReferral"},
               status \in Statuses \cup {Undefined} : Start(r, op, step, status)
      BY <2>1, <2>3
         DEF SaveForm, SecurityInput, SendBack, Approve, Tasklist,
             TasklistRecat, TasklistFor, Calls, Continues, InProgress,
             RowAt, NoRow, Statuses
    <3>2. /\ step \in Steps
          /\ [Idle EXCEPT !.op = op, !.step = step, !.status = status]
                 \in Transaction
      BY <2>2, <3>1 DEF Steps
    <3>. QED
      BY <3>1, <3>2 DEF Start, Idle
  <2>4. CASE Submit(r)
    <3>1. PICK s \in 0..MaxSeq :
             tx' = [tx EXCEPT ![r] = [Idle EXCEPT !.op = "submit",
                                                  !.step = "reread",
                                                  !.seq = RowAt(rows, s).nomisSeq]]
      BY <2>4 DEF Submit
    <3>. DEFINE t == [Idle EXCEPT !.op = "submit", !.step = "reread",
                                  !.seq = RowAt(rows, s).nomisSeq]
    <3>2. "submit" \in atWork /\ "reread" \in Steps
      BY <2>4 DEF Submit, Calls, Steps
    <3>3. t \in Transaction
      BY <2>1, <3>2, IdleType DEF Transaction
    <3>. QED
      BY <3>1, <3>3 DEF Idle
  <2>5. CASE Cancel(r)
    <3>1. PICK s \in 0..MaxSeq :
             tx' = [tx EXCEPT ![r] = [Idle EXCEPT !.op = "cancel",
                                                  !.step = "inactivate",
                                                  !.referral = IF s = 0
                                                               THEN "KEEP"
                                                               ELSE "RESTORE"]]
      BY <2>5 DEF Cancel
    <3>. DEFINE effect == IF s = 0 THEN "KEEP" ELSE "RESTORE"
                t == [Idle EXCEPT !.op = "cancel", !.step = "inactivate",
                                  !.referral = effect]
    <3>2. /\ "cancel" \in atWork /\ "inactivate" \in Steps
          /\ effect \in ReferralEffects /\ effect # "COMPLETED"
      BY <2>5 DEF Cancel, Calls, Steps, ReferralEffects
    <3>3. t \in Transaction
      BY <3>2, IdleType DEF Transaction
    <3>. QED
      BY <3>1, <3>2, <3>3 DEF Idle
  <2>6. CASE RaiseReferral(r)
    <3>. DEFINE t == [Idle EXCEPT !.op = "raiseReferral", !.step = "commit",
                                  !.referral = "NEW"]
    <3>1. /\ tx' = [tx EXCEPT ![r] = t]
          /\ "raiseReferral" \in atWork
      BY <2>6 DEF RaiseReferral, Calls
    <3>2. t \in Transaction
      BY <3>1, IdleType DEF Transaction, Steps, ReferralEffects
    <3>. QED
      BY <3>1, <3>2 DEF Idle
  <2>7. CASE Release(r)
    <3>. DEFINE t == [Idle EXCEPT !.op = "release", !.step = "delete",
                                  !.doomed = {s \in Seqs : Pending(rows[s])}]
    <3>1. tx' = [tx EXCEPT ![r] = t] /\ "release" \in atWork
      BY <2>7 DEF Release
    <3>2. t \in Transaction
      BY <3>1, IdleType DEF Transaction, Steps
    <3>. QED
      BY <3>1, <3>2 DEF Idle
  <2>. QED
    BY <2>3, <2>4, <2>5, <2>6, <2>7 DEF Begin
<1>2. PICK t \in Transaction :
          /\ tx' = [tx EXCEPT ![r] = t]
          /\ t.held = {} /\ t.made = 0
          /\ t.step # "record" /\ t.referral # "COMPLETED"
  BY <1>1
<1>. QED
  BY <1>2, FreshAccounted, OwnStep DEF Begin
-----------------------------------------------------------------------------
(* The steps of a handler on the database *)

\* Going on to another step keeps what the request has written and created.
LEMMA GotoType ==
    ASSUME TypeOK, NEW r \in Requests, NEW step \in Steps
    PROVE  /\ Goto(r, step) \in Transaction
           /\ Goto(r, step).step = step
           /\ Goto(r, step).held = tx[r].held
           /\ Goto(r, step).work = tx[r].work
           /\ Goto(r, step).made = tx[r].made
           /\ Goto(r, step).referral = tx[r].referral
BY ZenonT(60) DEF TypeOK, Transaction, Goto, Unaimed

\* Changing the step alone keeps a request accounted for, unless it leaves the
\* step that holds an uncommitted stamp or a sequence number to record.
LEMMA TurnStep ==
    ASSUME IInv, NEW r \in Requests, NEW t \in Transaction,
           tx[r].step \notin {"approve", "record"},
           t.step \notin {"stamp", "record"},
           t.held = tx[r].held, t.work = tx[r].work, t.made = tx[r].made,
           tx[r].made # 0 => t.step = "commit",
           t.referral = tx[r].referral,
           tx' = [tx EXCEPT ![r] = t],
           UNCHANGED <<rows, referral, riskChange, nomis, approvedFor>>,
           UNCHANGED setting
    PROVE  IInv'
<1>1. Accounted(tx[r])
  BY DEF IInv
<1>2. Accounted(t)
  BY <1>1 DEF Accounted, MadeAccounted, RowAccounted
<1>3. \A q \in Requests \ {r} : t.held \cap tx[q].held = {}
  BY DEF IInv, Apart
<1>. QED
  BY <1>2, <1>3, OwnStep

\* A request that only goes on to another step.
LEMMA Moved ==
    ASSUME IInv, NEW r \in Requests, NEW step \in Steps,
           tx' = [tx EXCEPT ![r].step = step]
    PROVE  \E t \in Transaction :
              /\ tx' = [tx EXCEPT ![r] = t]
              /\ t.step = step /\ t.held = tx[r].held /\ t.work = tx[r].work
              /\ t.made = tx[r].made /\ t.referral = tx[r].referral
<1>. DEFINE t == [tx[r] EXCEPT !.step = step]
<1>1. tx[r] \in Transaction /\ tx' = [tx EXCEPT ![r] = t]
  BY DEF IInv, TypeOK
<1>2. /\ t \in Transaction
      /\ t.step = step /\ t.held = tx[r].held /\ t.work = tx[r].work
      /\ t.made = tx[r].made /\ t.referral = tx[r].referral
  BY <1>1 DEF Transaction
<1>. HIDE DEF t
<1>. QED
  BY <1>1, <1>2

\* Going on to the commit from a step that holds nothing unfinished.
LEMMA ToCommit ==
    ASSUME IInv, NEW r \in Requests,
           tx[r].step \notin {"approve", "record"},
           tx' = [tx EXCEPT ![r].step = "commit"],
           UNCHANGED <<rows, referral, riskChange, nomis, approvedFor>>,
           UNCHANGED setting
    PROVE  IInv'
<1>1. PICK t \in Transaction :
         /\ tx' = [tx EXCEPT ![r] = t]
         /\ t.step = "commit" /\ t.held = tx[r].held /\ t.work = tx[r].work
         /\ t.made = tx[r].made /\ t.referral = tx[r].referral
  BY Moved DEF Steps
<1>. QED
  BY <1>1, TurnStep

\* The statements that only set a status.
LEMMA StatusSteps ==
    ASSUME IInv, NEW r \in Requests,
           \/ UpdateForm(r) \/ Refer(r) \/ Back(r) \/ Decide(r)
           \/ CancelRow(r) \/ Flag(r),
           UNCHANGED <<rows, referral, riskChange, nomis, approvedFor>>,
           UNCHANGED setting
    PROVE  IInv'
<1>0. TypeOK
  BY DEF IInv
<1>1. CASE UpdateForm(r)
  <2>. DEFINE step == IF tx[r].op = "save" THEN "commit" ELSE "reread"
              status == CalculateStatus(tx[r].status)
  <2>1. step \in Steps /\ step \notin {"stamp", "record", "approve"}
    BY DEF Steps
  <2>2. status \in Statuses
    BY <1>0 DEF TypeOK, Transaction, CalculateStatus, Statuses, InProgress
  <2>3. tx[r].step = "update" /\ SetStatus(r, status, Goto(r, step))
    BY <1>1 DEF UpdateForm
  <2>. HIDE DEF step, status
  <2>. QED
    BY <1>0, <2>1, <2>2, <2>3, GotoType, StatusStep
<1>2. CASE Refer(r) \/ Back(r) \/ Decide(r) \/ CancelRow(r)
  <2>1. PICK status \in Statuses, step \in {"commit", "reject", "submit"} :
            SetStatus(r, status, Goto(r, step))
    BY <1>2 DEF Refer, Back, Decide, CancelRow, Statuses, InProgress
  <2>2. tx[r].step \in {"refer", "back", "decide", "cancel"}
    BY <1>2 DEF Refer, Back, Decide, CancelRow
  <2>3. step \in Steps
    BY DEF Steps
  <2>. QED
    BY <1>0, <2>1, <2>2, <2>3, GotoType, StatusStep
<1>3. CASE Flag(r)
  <2>. DEFINE after == [Goto(r, "commit") EXCEPT !.referral = "REFERRED"]
  <2>1. /\ Goto(r, "commit") \in Transaction
        /\ Goto(r, "commit").step = "commit"
        /\ Goto(r, "commit").held = tx[r].held
        /\ Goto(r, "commit").work = tx[r].work
        /\ Goto(r, "commit").made = tx[r].made
    BY <1>0, GotoType DEF Steps
  <2>2. /\ after \in Transaction
        /\ after.step = "commit"
        /\ after.held = tx[r].held
        /\ after.work = tx[r].work
        /\ after.made = tx[r].made
        /\ after.referral = "REFERRED"
    BY <2>1 DEF Transaction, ReferralEffects
  <2>3. tx[r].step = "flag" /\ SetStatus(r, "SECURITY_FLAGGED", after)
    BY <1>3 DEF Flag
  <2>4. "SECURITY_FLAGGED" \in Statuses
    BY DEF Statuses, InProgress
  <2>. HIDE DEF after
  <2>. QED
    BY <2>2, <2>3, <2>4, StatusStep
<1>. QED
  BY <1>1, <1>2, <1>3

\* The second read of a row.
LEMMA RereadStep ==
    ASSUME IInv, NEW r \in Requests, Reread(r),
           UNCHANGED <<rows, referral, riskChange, nomis, approvedFor>>,
           UNCHANGED setting
    PROVE  IInv'
<1>0. TypeOK /\ tx[r] \in Transaction
  BY DEF IInv, TypeOK
<1>1. CASE Rollback(r)
  BY <1>1, RollbackStep
<1>2. CASE ~Rollback(r)
  <2>1. PICK step \in {"refer", "back", "decide", "cancel", "reject", "submit",
                       "commit"}, s \in 0..MaxSeq :
            tx' = [tx EXCEPT ![r].step = step,
                             ![r].seq = IF tx[r].op = "sendBack"
                                        THEN RowAt(View(r), s).nomisSeq ELSE @]
    BY <1>2 DEF Reread
  <2>. DEFINE seq == IF tx[r].op = "sendBack"
                     THEN RowAt(View(r), s).nomisSeq ELSE tx[r].seq
              t == [tx[r] EXCEPT !.step = step, !.seq = seq]
  <2>2. seq \in 0..MaxNomis
    BY <1>0, ViewType DEF Row, Transaction
  <2>3. t \in Transaction
    BY ZenonT(60), <1>0, <2>2 DEF Transaction, Steps
  <2>4. tx' = [tx EXCEPT ![r] = t]
    BY <1>0, <2>1 DEF TypeOK
  <2>5. /\ t.step = step /\ t.held = tx[r].held /\ t.work = tx[r].work
        /\ t.made = tx[r].made /\ t.referral = tx[r].referral
    BY <1>0 DEF Transaction
  <2>6. tx[r].step = "reread" /\ tx[r].made = 0
    BY DEF Reread, IInv, Accounted, MadeAccounted
  <2>. HIDE DEF t
  <2>. QED
    BY <2>3, <2>4, <2>5, <2>6, TurnStep
<1>. QED
  BY <1>1, <1>2

\* The approval of a row before NOMIS is asked.
LEMMA StampStep ==
    ASSUME IInv, NEW r \in Requests, Stamp(r),
           UNCHANGED <<rows, referral, riskChange, nomis, approvedFor>>,
           UNCHANGED setting
    PROVE  IInv'
<1>. DEFINE after == [Goto(r, "approve") EXCEPT !.referral = "COMPLETED"]
<1>1. PICK s \in 0..MaxSeq :
          /\ Free(r, s)
          /\ Write(r, s, [RowAt(View(r), s) EXCEPT !.status = "APPROVED",
                                                   !.approved = TRUE], after)
  BY DEF Stamp, Target
<1>. DEFINE row == [RowAt(View(r), s) EXCEPT !.status = "APPROVED",
                                             !.approved = TRUE]
<1>2. tx[r].step = "stamp" /\ tx[r].held = {} /\ tx[r].made = 0
  BY DEF Stamp, IInv, Accounted, MadeAccounted
<1>3. /\ Goto(r, "approve") \in Transaction
      /\ Goto(r, "approve").step = "approve"
      /\ Goto(r, "approve").held = tx[r].held
      /\ Goto(r, "approve").work = tx[r].work
      /\ Goto(r, "approve").made = tx[r].made
  BY GotoType DEF IInv, Steps
<1>4. /\ after \in Transaction
      /\ after.step = "approve"
      /\ after.held = tx[r].held
      /\ after.work = tx[r].work
      /\ after.made = tx[r].made
  BY <1>3 DEF Transaction, ReferralEffects
<1>5. Accounted(after)
  BY <1>2, <1>4 DEF Accounted, MadeAccounted
<1>6. RowAt(View(r), s) \in Row
  BY ViewType DEF IInv
<1>7. /\ row \in Row
      /\ row.nomisSeq = RowAt(View(r), s).nomisSeq
  BY <1>6 DEF Row, Statuses
<1>8. s \in Seqs => row.nomisSeq \in {0, rows[s].nomisSeq, after.made}
  BY <1>2, <1>4, <1>7, ViewAccounted
<1>. HIDE DEF after, row
<1>. QED
  BY <1>1, <1>2, <1>4, <1>5, <1>7, <1>8, WriteStep DEF row

\* The sequence number NOMIS has answered goes on one row.
LEMMA RecordStep ==
    ASSUME IInv, NEW r \in Requests, RecordNomisSeq(r),
           UNCHANGED <<rows, referral, riskChange, nomis, approvedFor>>,
           UNCHANGED setting
    PROVE  IInv'
<1>. DEFINE after == Goto(r, "commit")
<1>1. PICK s \in 0..MaxSeq :
          /\ Free(r, s)
          /\ Write(r, s, [RowAt(View(r), s) EXCEPT !.nomisSeq = tx[r].made],
                   after)
  BY DEF RecordNomisSeq, Target
<1>. DEFINE row == [RowAt(View(r), s) EXCEPT !.nomisSeq = tx[r].made]
<1>2. tx[r].step = "record" /\ Accounted(tx[r])
  BY DEF RecordNomisSeq, IInv
<1>3. /\ after \in Transaction
      /\ after.step = "commit"
      /\ after.held = tx[r].held
      /\ after.work = tx[r].work
      /\ after.made = tx[r].made
      /\ after.referral = tx[r].referral
  BY GotoType DEF IInv, Steps
<1>. HIDE DEF after
<1>4. /\ \A u \in tx[r].held : RowAccounted(tx[r], u)
      /\ \A u \in tx[r].held : tx[r].work[u].nomisSeq # tx[r].made
      /\ tx[r].made # 0
  BY <1>2 DEF Accounted, MadeAccounted
<1>5. Accounted(after)
  <2>1. \A u \in after.held : RowAccounted(after, u)
    BY <1>2, <1>3, <1>4 DEF RowAccounted
  <2>2. MadeAccounted(after)
    BY <1>2, <1>3, <1>4 DEF Accounted, MadeAccounted
  <2>. QED
    BY <1>2, <1>3, <2>1, <2>2 DEF Accounted
<1>6. RowAt(View(r), s) \in Row /\ tx[r].made \in 0..MaxNomis
  BY ViewType DEF IInv, TypeOK, Transaction
<1>7. /\ row \in Row
      /\ row.nomisSeq = after.made
      /\ row.approved = RowAt(View(r), s).approved
  BY <1>3, <1>6 DEF Row
<1>8. row.approved => Credited(s)
  <2>1. CASE s \in Seqs
    BY <1>2, <1>7, <2>1, ViewAccounted
  <2>2. CASE s \notin Seqs
    BY <1>7, <2>2 DEF RowAt, NoRow
  <2>. QED
    BY <2>1, <2>2
<1>. QED
  BY <1>1, <1>3, <1>4, <1>5, <1>7, <1>8, WriteStep DEF row

\* A new row names no assessment and carries no approval.
LEMMA OpenStep ==
    ASSUME IInv, NEW r \in Requests, Open(r),
           UNCHANGED <<rows, referral, riskChange, nomis, approvedFor>>,
           UNCHANGED setting
    PROVE  IInv'
<1>1. PICK n \in Seqs, status \in {"STARTED", "SECURITY_AUTO"},
           catType \in {"INITIAL", "RECAT"} :
          /\ Free(r, n)
          /\ tx' = [tx EXCEPT ![r] =
                 [Goto(r, "readReferral") EXCEPT
                     !.status = status,
                     !.held = @ \cup {n},
                     !.work[n] = [NoRow EXCEPT !.status = status,
                                               !.catType = catType]]]
  BY DEF Open
<1>. DEFINE row == [NoRow EXCEPT !.status = status, !.catType = catType]
            t == [Goto(r, "readReferral") EXCEPT
                     !.status = status, !.held = @ \cup {n}, !.work[n] = row]
<1>2. tx[r].step = "open" /\ tx[r].made = 0 /\ Accounted(tx[r])
  BY DEF Open, IInv, Accounted, MadeAccounted
<1>3. row \in Row /\ row.nomisSeq = 0 /\ ~row.approved
  BY NoRowType DEF NoRow, Row, Statuses, InProgress
<1>4. /\ Goto(r, "readReferral") \in Transaction
      /\ Goto(r, "readReferral").step = "readReferral"
      /\ Goto(r, "readReferral").held = tx[r].held
      /\ Goto(r, "readReferral").work = tx[r].work
      /\ Goto(r, "readReferral").made = tx[r].made
      /\ Goto(r, "readReferral").referral = tx[r].referral
  BY GotoType DEF IInv, Steps
<1>. HIDE DEF row
<1>5. t \in Transaction
  BY <1>3, <1>4 DEF Transaction, Statuses, InProgress
<1>6. /\ t.step = "readReferral" /\ t.held = tx[r].held \cup {n}
      /\ t.work[n] = row
      /\ \A u \in Seqs : u # n => t.work[u] = tx[r].work[u]
      /\ t.made = 0 /\ t.referral = tx[r].referral
  BY <1>2, <1>4 DEF Transaction
<1>7. tx' = [tx EXCEPT ![r] = t]
  BY <1>1 DEF row
<1>. HIDE DEF t
<1>8. tx[r].held \subseteq Seqs
  BY DEF IInv, TypeOK, Transaction
<1>9. ASSUME NEW u \in t.held PROVE RowAccounted(t, u)
  BY <1>2, <1>3, <1>6, <1>8 DEF Accounted, RowAccounted
<1>10. Accounted(t)
  BY <1>2, <1>6, <1>9 DEF Accounted, MadeAccounted
<1>11. \A q \in Requests \ {r} : t.held \cap tx[q].held = {}
  BY <1>1, <1>6 DEF IInv, Apart, Free
<1>. QED
  BY <1>5, <1>6, <1>7, <1>10, <1>11, OwnStep

\* A release deletes rows and creates nothing.
LEMMA DeleteStep ==
    ASSUME IInv, NEW r \in Requests, Delete(r),
           UNCHANGED <<rows, referral, riskChange, nomis, approvedFor>>,
           UNCHANGED setting
    PROVE  IInv'
<1>1. /\ tx[r] \in Transaction /\ tx[r].step = "delete" /\ tx[r].made = 0
      /\ Accounted(tx[r])
  BY DEF Delete, IInv, TypeOK, Accounted, MadeAccounted
<1>2. CASE \E s \in tx[r].doomed :
               /\ Free(r, s)
               /\ tx' = [tx EXCEPT ![r].held = @ \cup {s},
                                   ![r].work[s] = NoRow,
                                   ![r].doomed = @ \ {s}]
  <2>1. PICK s \in Seqs :
               /\ Free(r, s)
               /\ tx' = [tx EXCEPT ![r].held = @ \cup {s},
                                   ![r].work[s] = NoRow,
                                   ![r].doomed = @ \ {s}]
    BY <1>1, <1>2 DEF Transaction
  <2>. DEFINE t == [tx[r] EXCEPT !.held = @ \cup {s}, !.work[s] = NoRow,
                                 !.doomed = @ \ {s}]
  <2>2. t \in Transaction
    BY <1>1, NoRowType DEF Transaction
  <2>3. /\ t.step = "delete" /\ t.held = tx[r].held \cup {s}
        /\ t.work[s] = NoRow
        /\ \A u \in Seqs : u # s => t.work[u] = tx[r].work[u]
        /\ t.made = 0 /\ t.referral = tx[r].referral
    BY <1>1 DEF Transaction
  <2>4. tx' = [tx EXCEPT ![r] = t]
    BY <2>1 DEF IInv, TypeOK
  <2>. HIDE DEF t
  <2>5. tx[r].held \subseteq Seqs
    BY <1>1 DEF Transaction
  <2>6. ASSUME NEW u \in t.held PROVE RowAccounted(t, u)
    BY <1>1, <2>3, <2>5 DEF Accounted, RowAccounted, NoRow
  <2>7. Accounted(t)
    BY <1>1, <2>3, <2>6 DEF Accounted, MadeAccounted
  <2>8. \A q \in Requests \ {r} : t.held \cap tx[q].held = {}
    BY <2>1, <2>3 DEF IInv, Apart, Free
  <2>. QED
    BY <2>2, <2>3, <2>4, <2>7, <2>8, OwnStep
<1>3. CASE tx' = [tx EXCEPT ![r].step = "commit"]
  BY <1>1, <1>3, ToCommit
<1>. QED
  BY <1>2, <1>3 DEF Delete

LEMMA DatabaseStepKeeps ==
    ASSUME IInv, NEW r \in Requests, DatabaseStep(r),
           UNCHANGED setting
    PROVE  IInv'
<1>1. UNCHANGED <<rows, referral, riskChange, nomis, approvedFor>>
  BY DEF DatabaseStep
<1>2. CASE \/ UpdateForm(r) \/ Refer(r) \/ Back(r) \/ Decide(r)
           \/ CancelRow(r) \/ Flag(r)
  BY <1>1, <1>2, StatusSteps
<1>3. CASE ReadReferral(r)
  <2>1. CASE Rollback(r)
    BY <1>1, <2>1, RollbackStep
  <2>2. CASE ~Rollback(r)
    <3>1. PICK step \in {"commit", "flag"} :
              tx' = [tx EXCEPT ![r] = Goto(r, step)]
      BY <1>3, <2>2 DEF ReadReferral
    <3>2. /\ Goto(r, step) \in Transaction
          /\ Goto(r, step).step = step
          /\ Goto(r, step).held = tx[r].held
          /\ Goto(r, step).work = tx[r].work
          /\ Goto(r, step).made = tx[r].made
          /\ Goto(r, step).referral = tx[r].referral
      BY GotoType DEF IInv, Steps
    <3>3. tx[r].step = "readReferral" /\ tx[r].made = 0
      BY <1>3 DEF ReadReferral, IInv, Accounted, MadeAccounted
    <3>. QED
      BY <1>1, <3>1, <3>2, <3>3, TurnStep
  <2>. QED
    BY <2>1, <2>2
<1>4. CASE OpenFails(r) \/ LiteInProgress(r)
  BY <1>1, <1>4, RollbackStep DEF OpenFails, LiteInProgress
<1>. QED
  BY <1>1, <1>2, <1>3, <1>4, RereadStep, StampStep, RecordStep, OpenStep,
     DeleteStep DEF DatabaseStep

\* Waiting for a row changes nothing else.
LEMMA BlockStep ==
    ASSUME IInv, NEW r \in Requests, Block(r),
           UNCHANGED setting
    PROVE  IInv'
<1>1. PICK s \in Seqs : tx' = [tx EXCEPT ![r].target = s]
  BY DEF Block
<1>. DEFINE t == [tx[r] EXCEPT !.target = s]
<1>2. tx[r] \in Transaction /\ Accounted(tx[r])
  BY DEF IInv, TypeOK
<1>3. t \in Transaction
  BY <1>2 DEF Transaction, Seqs
<1>4. /\ t.step = tx[r].step /\ t.held = tx[r].held /\ t.work = tx[r].work
      /\ t.made = tx[r].made /\ t.referral = tx[r].referral
  BY <1>2 DEF Transaction
<1>5. tx' = [tx EXCEPT ![r] = t]
  BY <1>1 DEF IInv, TypeOK
<1>. HIDE DEF t
<1>6. Accounted(t)
  BY <1>2, <1>4 DEF Accounted, MadeAccounted, RowAccounted
<1>7. \A q \in Requests \ {r} : t.held \cap tx[q].held = {}
  BY <1>4 DEF IInv, Apart
<1>. QED
  BY <1>3, <1>4, <1>5, <1>6, <1>7, OwnStep DEF Block
-----------------------------------------------------------------------------
(* The calls to NOMIS *)

\* NOMIS forgets nothing: if no assessment disappears, none loses its approval
\* or the row it was approved for, and the request that called is accounted
\* for afterwards, IInv stays.
LEMMA CallStep ==
    ASSUME IInv, NEW r \in Requests, NEW t \in Transaction,
           nomis' \in [Assessments -> {"NONE", "PENDING", "APPROVED", "INACTIVE"}],
           approvedFor' \in [Assessments -> 0..MaxSeq],
           \A k \in Assessments :
              /\ nomis[k] # "NONE" => nomis'[k] # "NONE"
              /\ nomis[k] = "APPROVED" => nomis'[k] = "APPROVED"
              /\ approvedFor[k] # 0 => approvedFor'[k] = approvedFor[k]
              /\ approvedFor'[k] # 0 => nomis'[k] = "APPROVED",
           Accounted(t)',
           t.held = tx[r].held,
           \A q \in Requests \ {r} : t.made # 0 => tx[q].made # t.made,
           tx' = [tx EXCEPT ![r] = t],
           UNCHANGED <<rows, referral, riskChange>>,
           UNCHANGED setting
    PROVE  IInv'
<1>1. TypeOK'
  BY SameTransactions DEF IInv, TypeOK, setting
<1>2. RecordedInNomis'
  BY DEF IInv, TypeOK, Row, RecordedInNomis, Assessments
<1>3. SequencesDiffer'
  BY DEF IInv, SequencesDiffer
<1>4. StampedWasApproved'
  <2>1. ASSUME NEW s \in Seqs, rows[s].approved
        PROVE  \E k \in Assessments : approvedFor'[k] = s
    <3>1. PICK k \in Assessments : approvedFor[k] = s
      BY <2>1 DEF IInv, StampedWasApproved
    <3>. QED
      BY <3>1 DEF Seqs
  <2>. QED
    BY <2>1 DEF StampedWasApproved
<1>5. CompletedWasApproved' /\ CreditIsApproved'
  BY DEF IInv, CompletedWasApproved, CreditIsApproved
<1>6. tx'[r] = t /\ \A q \in Requests \ {r} : tx'[q] = tx[q]
  BY DEF IInv, TypeOK
<1>7. ASSUME NEW q \in Requests PROVE Accounted(tx[q])'
  <2>1. CASE q = r
    BY <1>6, <2>1 DEF Accounted, MadeAccounted, RowAccounted, Credited
  <2>2. CASE q # r
    <3>1. tx'[q] = tx[q] /\ Accounted(tx[q]) /\ tx[q] \in Transaction
      BY <1>6, <2>2 DEF IInv, TypeOK
    <3>2. \A s \in Seqs : Credited(s) => Credited(s)'
      BY DEF Credited, Seqs
    <3>3. \A s \in tx[q].held : RowAccounted(tx[q], s)'
      BY <3>1, <3>2 DEF Accounted, RowAccounted, Transaction
    <3>4. MadeAccounted(tx[q])'
      <4>1. tx[q].made # 0 => tx[q].made \in Assessments
        BY <3>1 DEF Transaction, Assessments
      <4>. QED
        BY <3>1, <4>1 DEF Accounted, MadeAccounted
    <3>. QED
      BY <3>1, <3>3, <3>4 DEF Accounted
  <2>. QED
    BY <2>1, <2>2
<1>8. ASSUME NEW p \in Requests, NEW q \in Requests, p # q
      PROVE  Apart(tx[p], tx[q])'
  <2>1. Apart(tx[p], tx[q]) /\ Apart(tx[q], tx[p])
    BY <1>8 DEF IInv
  <2>2. CASE p = r
    BY <1>6, <1>8, <2>1, <2>2 DEF Apart
  <2>3. CASE q = r
    BY <1>6, <1>8, <2>1, <2>3 DEF Apart
  <2>4. CASE p # r /\ q # r
    BY <1>6, <2>1, <2>4 DEF Apart
  <2>. QED
    BY <2>2, <2>3, <2>4
<1>. QED
  BY <1>1, <1>2, <1>3, <1>4, <1>5, <1>7, <1>8 DEF IInv

\* An assessment is created under a number that no row and no request has.
LEMMA SubmitStep ==
    ASSUME IInv, NEW r \in Requests, NomisSubmit(r),
           UNCHANGED setting
    PROVE  IInv'
<1>1. /\ tx[r] \in Transaction /\ tx[r].step = "submit" /\ tx[r].made = 0
      /\ Accounted(tx[r])
      /\ UNCHANGED <<rows, referral, riskChange, approvedFor>>
  BY DEF NomisSubmit, IInv, TypeOK, Accounted, MadeAccounted
<1>2. CASE tx' = [tx EXCEPT ![r].step = "commit"] /\ UNCHANGED nomis
  BY <1>1, <1>2, ToCommit
<1>3. CASE Rollback(r) /\ UNCHANGED nomis
  BY <1>1, <1>3, RollbackStep
<1>4. CASE \E k \in Assessments :
              /\ nomis[k] = "NONE"
              /\ nomis' = [nomis EXCEPT ![k] = "PENDING"]
              /\ tx' = [tx EXCEPT ![r].step = "record", ![r].made = k]
  <2>1. PICK k \in Assessments :
              /\ nomis[k] = "NONE"
              /\ nomis' = [nomis EXCEPT ![k] = "PENDING"]
              /\ tx' = [tx EXCEPT ![r].step = "record", ![r].made = k]
    BY <1>4
  <2>2. PICK t \in Transaction :
           /\ tx' = [tx EXCEPT ![r] = t]
           /\ t.step = "record" /\ t.held = tx[r].held /\ t.work = tx[r].work
           /\ t.made = k /\ t.referral = tx[r].referral
    <3>. DEFINE u == [tx[r] EXCEPT !.step = "record", !.made = k]
    <3>0. "record" \in Steps /\ k \in 0..MaxNomis
      BY MaxNomisAssumption DEF Steps, Assessments
    <3>1. /\ u \in Transaction
          /\ u.step = "record" /\ u.held = tx[r].held /\ u.work = tx[r].work
          /\ u.made = k /\ u.referral = tx[r].referral
      BY <1>1, <3>0 DEF Transaction
    <3>2. tx' = [tx EXCEPT ![r] = u]
      BY <2>1 DEF IInv, TypeOK
    <3>. HIDE DEF u
    <3>. QED
      BY <3>1, <3>2
  <2>4. /\ nomis' \in [Assessments ->
                          {"NONE", "PENDING", "APPROVED", "INACTIVE"}]
        /\ nomis'[k] = "PENDING"
        /\ \A j \in Assessments : j # k => nomis'[j] = nomis[j]
    BY <2>1 DEF IInv, TypeOK
  <2>5. \A j \in Assessments : approvedFor[j] # 0 => nomis[j] = "APPROVED"
    BY DEF IInv, CreditIsApproved
  <2>6. /\ \A s \in Seqs : rows[s].nomisSeq # k
        /\ \A q \in Requests : tx[q].made # k
        /\ k # 0
    BY <2>1 DEF IInv, RecordedInNomis, Accounted, MadeAccounted, Assessments
  <2>7. tx[r].held \subseteq Seqs
    BY <1>1 DEF Transaction
  <2>8. \A s \in tx[r].held : RowAccounted(t, s)'
    BY <1>1, <2>2, <2>7 DEF Accounted, RowAccounted, Credited
  <2>9. \A s \in tx[r].held : tx[r].work[s].nomisSeq # k
    BY <1>1, <2>6, <2>7 DEF Accounted, RowAccounted
  <2>10. MadeAccounted(t)'
    BY <1>1, <2>2, <2>4, <2>6, <2>9 DEF MadeAccounted
  <2>11. t.referral = "COMPLETED" => \E j \in Assessments : nomis'[j] = "APPROVED"
    BY <1>1, <2>1, <2>2, <2>4 DEF Accounted
  <2>12. Accounted(t)'
    BY <2>2, <2>8, <2>10, <2>11 DEF Accounted
  <2>13. \A j \in Assessments :
            /\ nomis[j] # "NONE" => nomis'[j] # "NONE"
            /\ nomis[j] = "APPROVED" => nomis'[j] = "APPROVED"
            /\ approvedFor[j] # 0 => nomis'[j] = "APPROVED"
    BY <2>1, <2>4, <2>5
  <2>14. approvedFor \in [Assessments -> 0..MaxSeq]
    BY DEF IInv, TypeOK
  <2>. QED
    BY <1>1, <2>2, <2>4, <2>6, <2>12, <2>13, <2>14, CallStep
<1>. QED
  BY <1>2, <1>3, <1>4 DEF NomisSubmit

\* The approval is credited to the row that is stamped, if there is one.
LEMMA ApproveStep ==
    ASSUME IInv, NEW r \in Requests, NomisApprove(r),
           UNCHANGED setting
    PROVE  IInv'
<1>1. /\ tx[r] \in Transaction /\ tx[r].step = "approve" /\ tx[r].made = 0
      /\ Accounted(tx[r])
      /\ UNCHANGED <<rows, referral, riskChange>>
  BY DEF NomisApprove, IInv, TypeOK, Accounted, MadeAccounted
<1>2. CASE Rollback(r) /\ UNCHANGED <<nomis, approvedFor>>
  BY <1>1, <1>2, RollbackStep
<1>3. CASE \E k \in Assessments, s \in 0..MaxSeq :
             /\ LatestPending(k)
             /\ tx[r].held = {s} \ {0}
             /\ nomis' = [nomis EXCEPT ![k] = "APPROVED"]
             /\ approvedFor' = [approvedFor EXCEPT ![k] = s]
             /\ tx' = [tx EXCEPT ![r].step = "commit"]
  <2>1. PICK k \in Assessments, s \in 0..MaxSeq :
             /\ nomis[k] = "PENDING"
             /\ tx[r].held = {s} \ {0}
             /\ nomis' = [nomis EXCEPT ![k] = "APPROVED"]
             /\ approvedFor' = [approvedFor EXCEPT ![k] = s]
             /\ tx' = [tx EXCEPT ![r].step = "commit"]
    BY <1>3 DEF LatestPending
  <2>2. PICK t \in Transaction :
           /\ tx' = [tx EXCEPT ![r] = t]
           /\ t.step = "commit" /\ t.held = tx[r].held /\ t.work = tx[r].work
           /\ t.made = tx[r].made /\ t.referral = tx[r].referral
    BY <2>1, Moved DEF Steps
  <2>3. t.made = 0
    BY <1>1, <2>2
  <2>4. /\ nomis' \in [Assessments ->
                          {"NONE", "PENDING", "APPROVED", "INACTIVE"}]
        /\ approvedFor' \in [Assessments -> 0..MaxSeq]
        /\ nomis'[k] = "APPROVED" /\ approvedFor'[k] = s
        /\ \A j \in Assessments : j # k => /\ nomis'[j] = nomis[j]
                                           /\ approvedFor'[j] = approvedFor[j]
    BY <2>1 DEF IInv, TypeOK
  <2>5. /\ \A j \in Assessments : approvedFor[j] # 0 => nomis[j] = "APPROVED"
        /\ approvedFor[k] = 0
    BY <2>1 DEF IInv, CreditIsApproved
  <2>6. ASSUME NEW u \in t.held PROVE RowAccounted(t, u)'
    <3>1. u = s /\ Credited(u)'
      BY <2>1, <2>2, <2>4 DEF Credited
    <3>2. t.work[u].nomisSeq \in {0, rows[u].nomisSeq, t.made}
      BY <1>1, <2>2 DEF Accounted, RowAccounted
    <3>. QED
      BY <1>1, <3>1, <3>2 DEF RowAccounted
  <2>7. Accounted(t)'
    BY <2>2, <2>3, <2>4, <2>6 DEF Accounted, MadeAccounted
  <2>. QED
    BY <1>1, <2>2, <2>3, <2>4, <2>5, <2>7, CallStep
<1>. QED
  BY <1>2, <1>3 DEF NomisApprove, ApprovalRefused

\* Pending assessments become inactive: they stay in NOMIS.
LEMMA InactivateStep ==
    ASSUME IInv, NEW r \in Requests, NomisInactivate(r),
           UNCHANGED setting
    PROVE  IInv'
<1>1. /\ tx[r] \in Transaction /\ tx[r].step = "inactivate" /\ tx[r].made = 0
      /\ Accounted(tx[r])
      /\ UNCHANGED <<rows, referral, riskChange, approvedFor>>
  BY DEF NomisInactivate, IInv, TypeOK, Accounted, MadeAccounted
<1>2. PICK t \in Transaction :
         /\ tx' = [tx EXCEPT ![r] = t]
         /\ t.step = "reread" /\ t.held = tx[r].held /\ t.work = tx[r].work
         /\ t.made = tx[r].made /\ t.referral = tx[r].referral
  BY ZenonT(60), Moved DEF NomisInactivate, Steps
<1>3. t.made = 0
  BY <1>1, <1>2
<1>4. \A k \in Assessments :
          nomis'[k] = IF nomis[k] = "PENDING" THEN "INACTIVE" ELSE nomis[k]
  BY DEF NomisInactivate
<1>5. nomis' \in [Assessments -> {"NONE", "PENDING", "APPROVED", "INACTIVE"}]
  BY DEF NomisInactivate, IInv, TypeOK
<1>6. \A u \in t.held : RowAccounted(t, u)'
  BY <1>1, <1>2 DEF Accounted, RowAccounted, Credited
<1>7. t.referral = "COMPLETED" => \E k \in Assessments : nomis'[k] = "APPROVED"
  BY <1>1, <1>2, <1>4 DEF Accounted
<1>8. Accounted(t)'
  BY <1>2, <1>3, <1>6, <1>7 DEF Accounted, MadeAccounted
<1>9. /\ approvedFor \in [Assessments -> 0..MaxSeq]
      /\ \A k \in Assessments : approvedFor[k] # 0 => nomis[k] = "APPROVED"
  BY DEF IInv, TypeOK, CreditIsApproved
<1>. QED
  BY <1>1, <1>2, <1>3, <1>4, <1>5, <1>8, <1>9, CallStep

LEMMA NomisStepKeeps ==
    ASSUME IInv, NEW r \in Requests, NomisStep(r),
           UNCHANGED setting
    PROVE  IInv'
<1>1. CASE NomisReject(r)
  BY <1>1, ToCommit, RollbackStep DEF NomisReject
<1>. QED
  BY <1>1, SubmitStep, ApproveStep, InactivateStep DEF NomisStep
-----------------------------------------------------------------------------
(* The end of a transaction, and steps outside one *)

\* At its commit, what a request has written replaces what was committed; what
\* IInv knows of the one is what it must know of the other.
LEMMA CommitStep ==
    ASSUME IInv, NEW r \in Requests, Commit(r),
           UNCHANGED setting
    PROVE  IInv'
<1>1. /\ tx[r] \in Transaction /\ tx[r].step = "commit" /\ Accounted(tx[r])
      /\ tx[r].held \subseteq Seqs
      /\ UNCHANGED <<nomis, approvedFor>>
  BY DEF Commit, IInv, TypeOK, Transaction
<1>2. /\ rows' \in [Seqs -> Row]
      /\ \A s \in Seqs : rows'[s] = IF s \in tx[r].held THEN tx[r].work[s]
                                    ELSE rows[s]
  BY ViewType DEF Commit, IInv
<1>3. /\ tx'[r] = Idle
      /\ \A q \in Requests \ {r} :
            /\ tx'[q] \in Transaction
            /\ tx'[q].step = tx[q].step /\ tx'[q].held = tx[q].held
            /\ tx'[q].work = tx[q].work /\ tx'[q].made = tx[q].made
            /\ tx'[q].referral = tx[q].referral
  <2>1. tx' = [q \in Requests |->
                  IF q = r THEN Idle
                  ELSE IF \E s \in tx[r].held :
                             tx[r].work[s] = NoRow /\ tx[q].target = s
                       THEN [tx[q] EXCEPT !.target = 0] ELSE tx[q]]
    BY DEF Commit
  <2>2. ASSUME NEW q \in Requests \ {r}
        PROVE  tx'[q] = tx[q] \/ tx'[q] = [tx[q] EXCEPT !.target = 0]
    BY <2>1
  <2>3. \A q \in Requests : tx[q] \in Transaction
    BY DEF IInv, TypeOK
  <2>4. \A q \in Requests \ {r} :
           [tx[q] EXCEPT !.target = 0] \in Transaction
    BY <2>3, MaxSeqAssumption DEF Transaction
  <2>5. \A q \in Requests \ {r} :
           /\ [tx[q] EXCEPT !.target = 0].step = tx[q].step
           /\ [tx[q] EXCEPT !.target = 0].held = tx[q].held
           /\ [tx[q] EXCEPT !.target = 0].work = tx[q].work
           /\ [tx[q] EXCEPT !.target = 0].made = tx[q].made
           /\ [tx[q] EXCEPT !.target = 0].referral = tx[q].referral
    BY <2>3 DEF Transaction
  <2>. QED
    BY <2>1, <2>2, <2>3, <2>4, <2>5
<1>4. \A s \in Seqs : /\ rows'[s].nomisSeq \in {0, rows[s].nomisSeq, tx[r].made}
                      /\ s \notin tx[r].held => rows'[s] = rows[s]
  BY <1>1, <1>2 DEF Accounted, RowAccounted
<1>5. TypeOK'
  <2>1. referral' \in ReferralStatuses
    BY <1>1 DEF Commit, ReferralAfter, ReferralStatuses, ReferralEffects,
                IInv, TypeOK, Transaction
  <2>2. riskChange' \in {"NONE", "NEW", "REVIEWED_FIRST"}
    BY DEF Commit, RiskChangeAfter, IInv, TypeOK
  <2>3. tx' \in [Requests -> Transaction]
    <3>1. \A q \in Requests : tx'[q] \in Transaction
      BY <1>3, IdleType
    <3>2. tx' = [q \in Requests |-> tx'[q]]
      BY DEF Commit
    <3>. QED
      BY <3>1, <3>2
  <2>. QED
    BY <1>1, <1>2, <2>1, <2>2, <2>3, SameTransactions DEF IInv, TypeOK, setting
<1>6. RecordedInNomis'
  BY <1>1, <1>4 DEF IInv, RecordedInNomis, Accounted, MadeAccounted
<1>7. SequencesDiffer'
  <2>. SUFFICES ASSUME NEW s \in Seqs, NEW u \in Seqs, s # u,
                       rows'[s].nomisSeq # 0, rows'[u].nomisSeq # 0
                PROVE  rows'[s].nomisSeq # rows'[u].nomisSeq
    BY DEF SequencesDiffer
  <2>1. CASE rows'[s].nomisSeq = rows[s].nomisSeq /\ rows'[u].nomisSeq = rows[u].nomisSeq
    BY <2>1 DEF IInv, SequencesDiffer
  <2>2. CASE rows'[s].nomisSeq = tx[r].made /\ rows'[u].nomisSeq = tx[r].made
    <3>1. s \in tx[r].held /\ u \in tx[r].held
      BY <1>1, <1>4, <2>2 DEF Accounted, MadeAccounted
    <3>. QED
      BY <1>1, <1>2, <2>2, <3>1 DEF Accounted, MadeAccounted
  <2>3. CASE \/ /\ rows'[s].nomisSeq = tx[r].made
                /\ rows'[u].nomisSeq = rows[u].nomisSeq
             \/ /\ rows'[u].nomisSeq = tx[r].made
                /\ rows'[s].nomisSeq = rows[s].nomisSeq
    BY <1>1, <2>3 DEF Accounted, MadeAccounted
  <2>. QED
    BY <1>4, <2>1, <2>2, <2>3
<1>8. StampedWasApproved'
  <2>. SUFFICES ASSUME NEW s \in Seqs, rows'[s].approved PROVE Credited(s)
    BY <1>1 DEF StampedWasApproved, Credited
  <2>1. CASE s \in tx[r].held
    BY <1>1, <1>2, <2>1 DEF Accounted, RowAccounted
  <2>2. CASE s \notin tx[r].held
    BY <1>4, <2>2 DEF IInv, StampedWasApproved, Credited
  <2>. QED
    BY <2>1, <2>2
<1>9. CompletedWasApproved'
  <2>1. referral' = "COMPLETED" => referral = "COMPLETED"
                                   \/ tx[r].referral = "COMPLETED"
    BY <1>1 DEF Commit, ReferralAfter, Transaction, ReferralEffects
  <2>. QED
    BY <1>1, <2>1 DEF IInv, CompletedWasApproved, Accounted
<1>10. CreditIsApproved'
  BY <1>1 DEF IInv, CreditIsApproved
<1>11. Accounted(tx[r])'
  <2>1. Accounted(Idle)'
    BY DEF Accounted, MadeAccounted, Idle
  <2>. QED
    BY <1>3, <2>1 DEF Accounted, MadeAccounted, RowAccounted, Credited, Idle
<1>12. ASSUME NEW q \in Requests, q # r PROVE Accounted(tx[q])'
  <2>1. /\ Accounted(tx[q]) /\ tx[q].held \subseteq Seqs
        /\ Apart(tx[q], tx[r])
    BY <1>12 DEF IInv, TypeOK, Transaction
  <2>2. /\ tx'[q].step = tx[q].step /\ tx'[q].held = tx[q].held
        /\ tx'[q].work = tx[q].work /\ tx'[q].made = tx[q].made
        /\ tx'[q].referral = tx[q].referral
    BY <1>3, <1>12
  <2>3. \A s \in tx[q].held : rows'[s] = rows[s]
    BY <1>4, <2>1 DEF Apart
  <2>4. \A s \in tx[q].held : RowAccounted(tx[q], s)'
    BY <1>1, <2>1, <2>2, <2>3 DEF Accounted, RowAccounted, Credited
  <2>5. tx[q].made # 0 => \A s \in Seqs : rows'[s].nomisSeq # tx[q].made
    BY <1>4, <2>1 DEF Accounted, MadeAccounted, Apart
  <2>6. MadeAccounted(tx[q])'
    BY <1>1, <2>1, <2>2, <2>5 DEF Accounted, MadeAccounted
  <2>. QED
    BY <1>1, <2>1, <2>2, <2>4, <2>6 DEF Accounted
<1>13. ASSUME NEW p \in Requests, NEW q \in Requests, p # q
       PROVE  Apart(tx[p], tx[q])'
  <2>1. Apart(tx[p], tx[q])
    BY <1>13 DEF IInv
  <2>2. Idle.held = {} /\ Idle.made = 0
    BY DEF Idle
  <2>. QED
    BY <1>3, <1>13, <2>1, <2>2 DEF Apart
<1>. QED
  BY <1>5, <1>6, <1>7, <1>8, <1>9, <1>10, <1>11, <1>12, <1>13 DEF IInv

\* The other services change no sequence number and no stamp, and complete no
\* referral.
LEMMA OutsideStep ==
    ASSUME IInv,
           \/ \E r \in Requests : CancelReferral(r) \/ SecurityReviewed(r)
           \/ RiskChangeRaised,
           UNCHANGED setting
    PROVE  IInv'
<1>1. UNCHANGED <<nomis, approvedFor, tx>>
  BY DEF CancelReferral, SecurityReviewed, RiskChangeRaised
<1>2. /\ rows' \in [Seqs -> Row]
      /\ \A s \in Seqs : /\ rows'[s].nomisSeq = rows[s].nomisSeq
                         /\ rows'[s].approved = rows[s].approved
  BY DEF CancelReferral, SecurityReviewed, RiskChangeRaised, IInv, TypeOK,
         Row, Statuses, InProgress
<1>3. /\ referral' \in ReferralStatuses
      /\ referral' = "COMPLETED" => referral = "COMPLETED"
      /\ riskChange' \in {"NONE", "NEW", "REVIEWED_FIRST"}
  BY DEF CancelReferral, SecurityReviewed, RiskChangeRaised, IInv, TypeOK,
         ReferralStatuses
<1>4. TypeOK'
  BY <1>1, <1>2, <1>3, SameTransactions DEF IInv, TypeOK, setting
<1>5. /\ RecordedInNomis' /\ SequencesDiffer' /\ StampedWasApproved'
      /\ CompletedWasApproved' /\ CreditIsApproved'
  BY <1>1, <1>2, <1>3
     DEF IInv, RecordedInNomis, SequencesDiffer, StampedWasApproved,
         CompletedWasApproved, CreditIsApproved
<1>6. ASSUME NEW q \in Requests PROVE Accounted(tx[q])'
  <2>1. Accounted(tx[q]) /\ tx[q].held \subseteq Seqs
    BY DEF IInv, TypeOK, Transaction
  <2>. QED
    BY <1>1, <1>2, <2>1 DEF Accounted, MadeAccounted, RowAccounted, Credited
<1>7. \A p, q \in Requests : p # q => Apart(tx[p], tx[q])'
  BY <1>1 DEF IInv, Apart
<1>. QED
  BY <1>4, <1>5, <1>6, <1>7 DEF IInv
-----------------------------------------------------------------------------
(* The theorems *)

LEMMA InitIInv == Init => IInv
<1>. SUFFICES ASSUME Init PROVE IInv
  OBVIOUS
<1>1. TypeOK
  BY NoRowType, IdleType, MaxSeqAssumption
     DEF Init, TypeOK, ReferralStatuses
<1>2. \A r \in Requests : Accounted(tx[r])
  <2>1. Accounted(Idle)
    BY FreshAccounted DEF Idle
  <2>. QED
    BY <2>1 DEF Init
<1>3. \A q, r \in Requests : q # r => Apart(tx[q], tx[r])
  BY DEF Init, Apart, Idle
<1>. QED
  BY <1>1, <1>2, <1>3
     DEF Init, IInv, RecordedInNomis, SequencesDiffer, StampedWasApproved,
         CompletedWasApproved, CreditIsApproved, NoRow

LEMMA NextIInv == IInv /\ [Next]_vars => IInv'
<1>. SUFFICES ASSUME IInv, [Next]_vars PROVE IInv'
  OBVIOUS
<1>1. CASE UNCHANGED vars
  <2>1. TypeOK'
    BY <1>1, SameTransactions DEF IInv, TypeOK, vars, setting
  <2>. QED
    BY <1>1, <2>1 DEF vars, IInv, RecordedInNomis, SequencesDiffer,
                StampedWasApproved, CompletedWasApproved, CreditIsApproved,
                Credited, RowAccounted, MadeAccounted, Accounted, Apart
<1>2. CASE Next
  <2>1. UNCHANGED setting
    BY <1>2 DEF Next
  <2>2. ASSUME NEW r \in Requests, Begin(r) PROVE IInv'
    BY <2>1, <2>2, BeginStep
  <2>3. ASSUME NEW r \in Requests, Step(r) PROVE IInv'
    BY <2>1, <2>3, DatabaseStepKeeps, NomisStepKeeps, BlockStep, CommitStep,
       RollbackStep DEF Step, BreakDeadlock
  <2>4. ASSUME NEW r \in Requests, Abort(r) PROVE IInv'
    BY <2>1, <2>4, RollbackStep DEF Abort
  <2>. QED
    BY <1>2, <2>1, <2>2, <2>3, <2>4, OutsideStep DEF Next
<1>. QED
  BY <1>1, <1>2

LEMMA Invariance == Spec => []IInv
BY InitIInv, NextIInv, PTL DEF Spec

\* The tables, the referral and every transaction in flight keep their types,
\* however many requests run and whatever fails.
THEOREM TypeCorrect == Spec => []TypeOK
<1>1. IInv => TypeOK
  BY DEF IInv
<1>. QED
  BY <1>1, Invariance, PTL

\* updateRecordWithNomisSeqNumber only ever commits the number of an
\* assessment that NOMIS has.
THEOREM RecordedNumbersExist == Spec => []RecordedInNomis
<1>1. IInv => RecordedInNomis
  BY DEF IInv
<1>. QED
  BY <1>1, Invariance, PTL

\* No two rows of a booking ever commit the same NOMIS sequence number, so the
\* unique constraint of table form on it never refuses a submission.
THEOREM RecordedNumbersDiffer == Spec => []SequencesDiffer
<1>1. IInv => SequencesDiffer
  BY DEF IInv
<1>. QED
  BY <1>1, Invariance, PTL

\* formService.supervisorApproval writes the stamp before NOMIS is asked, and
\* still no stamp is ever committed without the answer.
THEOREM StampsAreApproved == Spec => []StampedWasApproved
<1>1. IInv => StampedWasApproved
  BY DEF IInv
<1>. QED
  BY <1>1, Invariance, PTL

\* Nor is a security referral ever completed without it.
THEOREM CompletionsAreApproved == Spec => []CompletedWasApproved
<1>1. IInv => CompletedWasApproved
  BY DEF IInv
<1>. QED
  BY <1>1, Invariance, PTL
-----------------------------------------------------------------------------
(***************************************************************************)
(* What CategorisationFlow promises of a booking whose requests do not     *)
(* overlap (OneAtATime): for every number of rows and assessments, and     *)
(* whatever a request fails at.                                            *)
(*                                                                         *)
(* The inductive invariant, SerialInv, says of the committed table that it *)
(* is sound (TableSound, ReferralSound), and of the request in flight what *)
(* its steps so far have made sure of (Prepared): from the first read of a *)
(* handler to its last write, that the commit leaves a sound table, one    *)
(* step of the life cycle further (Ready).                                 *)
(***************************************************************************)

\* The requests of a booking do not overlap.
OneAtATime == \A q, r \in Requests : q = r
-----------------------------------------------------------------------------
(* Tables *)

NothingInProgress(table) == \A s \in Seqs : table[s].status \notin InProgress

\* If NOMIS accepts an approval for row s, which names assessment k, then k is
\* the assessment it approves.
Backed(k, s) == \/ LatestPending(k)
                \/ approvedFor[k] = s
                \/ \A j \in Assessments : nomis[j] # "PENDING"

\* What the columns of row s say of each other, and of NOMIS.
RowShaped(row) ==
    /\ row.status = Undefined => row = NoRow
    /\ row.approved <=> row.status = "APPROVED"
    /\ row.status \in {"AWAITING_APPROVAL", "APPROVED"} => row.nomisSeq # 0
RowBacked(row, s) ==
    /\ row.approved => approvedFor[row.nomisSeq] = s
    /\ row.status \in InProgress /\ row.nomisSeq # 0 => Backed(row.nomisSeq, s)

\* What is under way is the current row.
TableShaped(table) ==
    \A s \in Seqs : /\ RowShaped(table[s])
                    /\ table[s].status \in InProgress => IsCurrent(table, s)
TableBacked(table) == \A s \in Seqs : RowBacked(table[s], s)
TableSound(table) == TableShaped(table) /\ TableBacked(table)

\* The assessment of what is under way is the one NOMIS would approve.
Settled(table) ==
    \A s \in Seqs : /\ table[s].status \in InProgress
                    /\ table[s].nomisSeq # 0
                    => LatestPending(table[s].nomisSeq)

ReferralSound(table, status) ==
    /\ status = "NEW" => NothingInProgress(table)
    /\ "release" \notin atWork /\ status = "REFERRED" => ~NothingInProgress(table)

\* NOMIS numbers its assessments in turn.
Dense == \A j, k \in Assessments :
            j < k /\ nomis[j] = "NONE" => nomis[k] = "NONE"

StatusOf(table) == [s \in Seqs |-> table[s].status]

\* The statuses of `new` are those of `old`, or one step of the life cycle on.
Follows(old, new) ==
    \/ StatusOf(new) = StatusOf(old)
    \/ \E s \in Seqs, status \in {"STARTED", "SECURITY_AUTO", "SECURITY_FLAGGED"} :
          /\ IsNext(old, s) /\ NothingInProgress(old)
          /\ StatusOf(new) = [StatusOf(old) EXCEPT ![s] = status]
    \/ \E s \in Seqs, status \in Statuses :
          /\ old[s].status # Undefined /\ Allowed(old[s].status, status)
          /\ StatusOf(new) = [StatusOf(old) EXCEPT ![s] = status]
    \/ StatusOf(new) = [s \in Seqs |-> IF old[s].status \in InProgress
                                       THEN Undefined ELSE old[s].status]
-----------------------------------------------------------------------------
(* A request in state t *)

\* The table as the request sees it.
TableOf(t) == [s \in Seqs |-> IF s \in t.held THEN t.work[s] ELSE rows[s]]

Untouched(t) == TableOf(t) = rows
Changed(t, s, row) == TableOf(t) = [rows EXCEPT ![s] = row]

CurrentAllows(status) ==
    \E s \in Seqs : IsCurrent(rows, s) /\ Allowed(rows[s].status, status)

\* The current row has been submitted, by an earlier request or by this one.
Submitted(t) ==
    \E s \in Seqs :
        /\ IsCurrent(rows, s)
        /\ \/ rows[s].status = "AWAITING_APPROVAL" /\ Untouched(t)
           \/ /\ Allowed(rows[s].status, "AWAITING_APPROVAL")
              /\ Changed(t, s, [rows[s] EXCEPT !.status = "AWAITING_APPROVAL"])

\* The request has stamped the row that was waiting for approval.
Stamped(t) ==
    \E s \in Seqs :
        /\ IsCurrent(rows, s) /\ rows[s].status = "AWAITING_APPROVAL"
        /\ t.held = {s}
        /\ t.work[s] = [rows[s] EXCEPT !.status = "APPROVED", !.approved = TRUE]

\* The request has opened a row.
Opened(t) ==
    \E n \in Seqs, status \in {"STARTED", "SECURITY_AUTO"},
       catType \in {"INITIAL", "RECAT"} :
        /\ IsNext(rows, n) /\ NothingInProgress(rows)
        /\ Changed(t, n, [NoRow EXCEPT !.status = status, !.catType = catType])

\* What is under way is deleted, but for the rows still to delete.
Deleting(t) ==
    /\ TableOf(t) = [s \in Seqs |-> IF /\ rows[s].status \in InProgress
                                       /\ s \notin t.doomed
                                    THEN NoRow ELSE rows[s]]
    /\ \A s \in t.doomed : rows[s].status \in InProgress

\* What the request would commit is sound.
Ready(t) == /\ TableSound(TableOf(t))
            /\ Follows(rows, TableOf(t))
            /\ ReferralSound(TableOf(t), ReferralAfter(t.referral))
            /\ ~faulty => Settled(TableOf(t))

\* What the request read of the current row is still so.
StatusHolds(t) ==
    \A s \in 0..MaxSeq : IsCurrent(rows, s) => t.status = RowAt(rows, s).status
SeqHolds(t) ==
    \A s \in 0..MaxSeq : IsCurrent(rows, s) => t.seq = RowAt(rows, s).nomisSeq

\* The steps before the handler has written anything that differs.
Reading == {"update", "reread", "refer", "back", "decide", "stamp",
            "inactivate", "cancel", "open"}

Prepared(t) ==
    /\ t.target = Unaimed
    /\ t.step \in Reading => Untouched(t)
    /\ \/ t.referral = "KEEP"
       \/ t.step \in {"idle", "commit"}
       \/ t.step = "approve"
       \/ t.op = "cancel" /\ t.step \in {"inactivate", "reread", "cancel"}
    /\ t.step = "update" => /\ t.op \in {"save", "securityInput", "sendBack"}
                            /\ StatusHolds(t)
    /\ t.step = "reread" => t.op \in {"securityInput", "sendBack", "submit", "cancel"}
    /\ t.op = "submit" /\ t.step \in {"reread", "decide", "submit"} => SeqHolds(t)
    /\ t.op = "cancel" /\ t.step \in {"inactivate", "reread", "cancel"} =>
          NothingInProgress(rows) \/ t.referral = "RESTORE"
    /\ t.step = "inactivate" => t.op = "cancel"
    /\ t.step = "refer" => CurrentAllows("SECURITY_MANUAL")
    /\ t.step = "back" => CurrentAllows("SUPERVISOR_BACK")
    /\ t.step = "decide" => t.op = "submit" /\ CurrentAllows("AWAITING_APPROVAL")
    /\ t.step = "submit" => t.op = "submit" /\ Submitted(t)
    /\ t.step = "record" => /\ Submitted(t)
                            /\ LatestPending(t.made)
                            /\ \A s \in Seqs : rows[s].status \in InProgress
                                                  => rows[s].nomisSeq = 0
    /\ t.step = "stamp" => t.op = "approve" /\ CurrentAllows("APPROVED")
    /\ t.step = "approve" =>
          /\ t.op = "approve"
          /\ \/ Stamped(t) /\ t.referral = "COMPLETED"
             \/ /\ Untouched(t) /\ NothingInProgress(rows)
                /\ t.referral = "KEEP"
    /\ t.step = "cancel" => t.op = "cancel" /\ CurrentAllows("CANCELLED")
    /\ t.step = "open" => NothingInProgress(rows)
    /\ t.step = "readReferral" =>
          \/ Opened(t) /\ t.status \in {"STARTED", "SECURITY_AUTO"}
          \/ Untouched(t) /\ ~NothingInProgress(rows)
    /\ t.step = "flag" => Opened(t) /\ referral = "NEW"
    /\ t.step = "delete" => t.op = "release" /\ Deleting(t)
    /\ t.step \in {"reject", "commit"} => Ready(t)

\* NOMIS has been told of a cancellation or an approval before the commit.
Unsettled(t) == \/ t.op = "cancel" /\ t.step \in {"reread", "cancel", "commit"}
                \/ t.op = "approve" /\ t.step = "commit"

SerialInv ==
    /\ TableSound(rows)
    /\ ReferralSound(rows, referral)
    /\ Dense
    /\ ~faulty /\ (\A r \in Requests : ~Unsettled(tx[r])) => Settled(rows)
    /\ \A r \in Requests : Prepared(tx[r])
-----------------------------------------------------------------------------
(* Lemmas on tables *)

\* A table has one current row.
LEMMA CurrentUnique ==
    ASSUME NEW table, NEW s \in 0..MaxSeq, NEW u \in 0..MaxSeq,
           IsCurrent(table, s), IsCurrent(table, u)
    PROVE  s = u
BY MaxSeqAssumption DEF IsCurrent, Seqs

\* A status under way is neither hidden nor final.
LEMMA InProgressFacts ==
    /\ Undefined \notin InProgress /\ "APPROVED" \notin InProgress
    /\ "CANCELLED" \notin InProgress
    /\ \A x \in Statuses \cup {Undefined} :
          x \in InProgress \/ x \in {"APPROVED", "CANCELLED", Undefined}
BY DEF InProgress, Undefined, Statuses

\* What statusEnum.js allows from a row that exists starts under way.
LEMMA AllowedFrom ==
    ASSUME NEW current, NEW proposed \in Statuses,
           Allowed(current, proposed),
           \/ current # Undefined
           \/ proposed \in {"SECURITY_MANUAL", "SECURITY_BACK",
                            "AWAITING_APPROVAL", "APPROVED",
                            "SUPERVISOR_BACK", "CANCELLED"}
    PROVE  current \in InProgress
BY DEF Allowed, Previous, Statuses, InProgress, Undefined

\* Nothing is under way when the current row is not.
LEMMA NothingBegun ==
    ASSUME NEW table, TableShaped(table), NEW s \in 0..MaxSeq,
           IsCurrent(table, s), RowAt(table, s).status \notin InProgress
    PROVE  NothingInProgress(table)
<1>. SUFFICES ASSUME NEW u \in Seqs, table[u].status \in InProgress
              PROVE  FALSE
  BY DEF NothingInProgress
<1>1. IsCurrent(table, u) /\ u \in 0..MaxSeq
  BY DEF TableShaped, Seqs
<1>2. u = s
  BY <1>1, CurrentUnique
<1>. QED
  BY <1>2 DEF RowAt

\* What is under way is the only one.
LEMMA OneUnderWay ==
    ASSUME NEW table, TableShaped(table), NEW s \in Seqs, NEW u \in Seqs,
           table[s].status \in InProgress,
           IsCurrent(table, u) \/ table[u].status \in InProgress
    PROVE  s = u
<1>1. IsCurrent(table, s) /\ IsCurrent(table, u)
  BY DEF TableShaped
<1>2. s \in 0..MaxSeq /\ u \in 0..MaxSeq
  BY DEF Seqs
<1>. QED
  BY <1>1, <1>2, CurrentUnique

\* Writing the row under way keeps a table well shaped.
LEMMA UpdateShaped ==
    ASSUME NEW table \in [Seqs -> Row], TableShaped(table), NEW s \in Seqs,
           table[s].status \in InProgress,
           NEW row \in Row, RowShaped(row)
    PROVE  TableShaped([table EXCEPT ![s] = row])
<1>. DEFINE new == [table EXCEPT ![s] = row]
<1>1. new[s] = row /\ \A u \in Seqs : u # s => new[u] = table[u]
  OBVIOUS
<1>. HIDE DEF new
<1>2. IsCurrent(table, s)
  BY DEF TableShaped
<1>3. ASSUME NEW u \in Seqs, new[u].status \in InProgress
      PROVE  IsCurrent(new, u)
  <2>1. u = s
    BY <1>1, <1>3, OneUnderWay
  <2>. QED
    BY <1>1, <1>2, <1>3, <2>1, InProgressFacts DEF IsCurrent, Hidden, Seqs
<1>4. \A u \in Seqs : RowShaped(new[u])
  BY <1>1 DEF TableShaped
<1>. QED
  BY <1>3, <1>4 DEF TableShaped, new

\* So does opening the next row when nothing is under way.
LEMMA OpenShaped ==
    ASSUME NEW table \in [Seqs -> Row], TableShaped(table), NEW n \in Seqs,
           IsNext(table, n), NothingInProgress(table),
           NEW row \in Row, RowShaped(row), row.status \in InProgress
    PROVE  TableShaped([table EXCEPT ![n] = row])
<1>. DEFINE new == [table EXCEPT ![n] = row]
<1>1. new[n] = row /\ \A u \in Seqs : u # n => new[u] = table[u]
  OBVIOUS
<1>. HIDE DEF new
<1>2. \A u \in Seqs : u > n => Hidden(new, u)
  BY <1>1 DEF IsNext, Hidden, NoRow, Seqs
<1>3. IsCurrent(new, n)
  BY <1>1, <1>2, InProgressFacts DEF IsCurrent, Hidden, Seqs
<1>4. \A u \in Seqs : RowShaped(new[u])
  BY <1>1 DEF TableShaped
<1>5. \A u \in Seqs : new[u].status \in InProgress => u = n
  BY <1>1 DEF NothingInProgress
<1>. QED
  BY <1>3, <1>4, <1>5 DEF TableShaped, new

\* Nothing is under way any more when every row under way is deleted.
LEMMA DeletedShaped ==
    ASSUME NEW table \in [Seqs -> Row], TableShaped(table), NEW new,
           new = [s \in Seqs |-> IF table[s].status \in InProgress THEN NoRow
                                 ELSE table[s]]
    PROVE  TableShaped(new) /\ NothingInProgress(new)
<1>1. NothingInProgress(new)
  BY InProgressFacts DEF NothingInProgress, NoRow
<1>2. RowShaped(NoRow)
  BY DEF RowShaped, NoRow, Undefined
<1>3. \A s \in Seqs : RowShaped(new[s])
  BY <1>2 DEF TableShaped
<1>. QED
  BY <1>1, <1>3 DEF TableShaped, NothingInProgress
-----------------------------------------------------------------------------
(* Lemmas on the request in flight *)

LEMMA TableOfType ==
    ASSUME TypeOK, NEW t \in Transaction
    PROVE  /\ TableOf(t) \in [Seqs -> Row]
           /\ t.held = {} => Untouched(t)
           /\ Untouched(t) => \A s \in t.held : t.work[s] = rows[s]
<1>1. rows \in [Seqs -> Row] /\ t.work \in [Seqs -> Row] /\ t.held \subseteq Seqs
  BY DEF TypeOK, Transaction
<1>. QED
  BY <1>1 DEF TableOf, Untouched

\* What the request keeps of its state when it goes on.
SameEffects(t, u) == /\ t.op = u.op /\ t.seq = u.seq /\ t.made = u.made
                     /\ t.doomed = u.doomed /\ t.target = Unaimed

\* The request in flight, and every request there is.
LEMMA TheRequest ==
    ASSUME IInv, SerialInv, NEW r \in Requests
    PROVE  /\ tx[r] \in Transaction /\ Prepared(tx[r])
           /\ tx[r].target = Unaimed
           /\ View(r) = TableOf(tx[r])
           /\ rows \in [Seqs -> Row] /\ TypeOK
           /\ TableShaped(rows) /\ TableBacked(rows)
           /\ TableOf(tx[r]) \in [Seqs -> Row]
<1>1. tx[r] \in Transaction /\ Prepared(tx[r]) /\ TypeOK
      /\ rows \in [Seqs -> Row]
  BY DEF IInv, SerialInv, TypeOK
<1>. QED
  BY <1>1, TableOfType DEF View, TableOf, Prepared, SerialInv, TableSound

LEMMA GotoFields ==
    ASSUME NEW r \in Requests, tx[r] \in Transaction, NEW step \in Steps
    PROVE  /\ SameEffects(Goto(r, step), tx[r])
           /\ Goto(r, step).held = tx[r].held /\ Goto(r, step).work = tx[r].work
           /\ Goto(r, step).step = step /\ Goto(r, step).status = Undefined
           /\ Goto(r, step).referral = tx[r].referral
           /\ Goto(r, step) \in Transaction
<1>. DEFINE t == Goto(r, step)
<1>1. t \in Transaction
  BY ZenonT(60) DEF Transaction, Goto, Unaimed
<1>2. /\ t.op = tx[r].op /\ t.seq = tx[r].seq /\ t.made = tx[r].made
      /\ t.doomed = tx[r].doomed /\ t.target = Unaimed
      /\ t.held = tx[r].held /\ t.work = tx[r].work
      /\ t.step = step /\ t.status = Undefined /\ t.referral = tx[r].referral
  BY DEF Goto, Transaction
<1>. QED
  BY <1>1, <1>2 DEF SameEffects

\* A predicate of a request reads the tables and NOMIS only.
LEMMA SamePrepared ==
    ASSUME NEW t, Prepared(t),
           UNCHANGED <<rows, referral, nomis, approvedFor>>,
           UNCHANGED <<atWork, faulty>>
    PROVE  Prepared(t)'
<1>1. TableOf(t)' = TableOf(t)
  BY DEF TableOf
<1>2. \A row, s : RowBacked(row, s)' <=> RowBacked(row, s)
  BY DEF RowBacked, Backed, LatestPending
<1>3. TableSound(TableOf(t)) => TableSound(TableOf(t))'
  BY <1>1, <1>2 DEF TableSound, TableBacked, TableShaped, IsCurrent, Hidden
<1>4. Settled(TableOf(t)) => Settled(TableOf(t))'
  BY <1>1 DEF Settled, LatestPending
<1>5. Follows(rows, TableOf(t))' <=> Follows(rows, TableOf(t))
  BY <1>1 DEF Follows, StatusOf, NothingInProgress, IsNext
<1>6. ReferralSound(TableOf(t), ReferralAfter(t.referral))
         => ReferralSound(TableOf(t), ReferralAfter(t.referral))'
  BY <1>1 DEF ReferralSound, ReferralAfter, NothingInProgress
<1>7. Ready(t) => Ready(t)'
  BY <1>3, <1>4, <1>5, <1>6 DEF Ready
<1>8. \A status : CurrentAllows(status)' <=> CurrentAllows(status)
  BY DEF CurrentAllows, IsCurrent, Hidden
<1>9. /\ Untouched(t)' <=> Untouched(t)
      /\ \A s, row : Changed(t, s, row)' <=> Changed(t, s, row)
  BY <1>1 DEF Untouched, Changed
<1>10. /\ Submitted(t)' <=> Submitted(t)
       /\ Stamped(t)' <=> Stamped(t)
       /\ StatusHolds(t)' <=> StatusHolds(t)
       /\ SeqHolds(t)' <=> SeqHolds(t)
  BY <1>9 DEF Submitted, Stamped, StatusHolds, SeqHolds, IsCurrent, Hidden, RowAt
<1>11. Opened(t)' <=> Opened(t)
  BY <1>9 DEF Opened, IsNext, NothingInProgress
<1>12. Deleting(t)' <=> Deleting(t)
  BY <1>1 DEF Deleting
<1>13. NothingInProgress(rows)' <=> NothingInProgress(rows)
  BY DEF NothingInProgress
<1>. QED
  BY <1>7, <1>8, <1>9, <1>10, <1>11, <1>12, <1>13 DEF Prepared, LatestPending

\* A step of the request that leaves the tables and NOMIS alone keeps
\* SerialInv if the state it comes to is prepared.
LEMMA OwnStepSerial ==
    ASSUME OneAtATime, IInv, SerialInv, NEW r \in Requests,
           NEW t, Prepared(t),
           ~faulty /\ Unsettled(tx[r]) => Unsettled(t) \/ NothingInProgress(rows),
           tx' = [tx EXCEPT ![r] = t],
           UNCHANGED <<rows, referral, nomis, approvedFor>>,
           UNCHANGED <<atWork, faulty>>
    PROVE  SerialInv'
<1>1. \A q \in Requests : q = r /\ tx'[q] = t
  BY DEF OneAtATime, IInv, TypeOK
<1>2. TableSound(rows)'
  BY DEF SerialInv, TableSound, TableShaped, TableBacked, RowBacked, Backed,
         LatestPending, IsCurrent, Hidden
<1>3. ReferralSound(rows, referral)' /\ Dense'
  BY DEF SerialInv, ReferralSound, NothingInProgress, Dense
<1>4. ~faulty /\ ~Unsettled(t) => Settled(rows)
  <2>1. CASE Unsettled(tx[r])
    BY <2>1 DEF Settled, NothingInProgress
  <2>2. CASE ~Unsettled(tx[r])
    <3>1. \A q \in Requests : ~Unsettled(tx[q])
      BY <1>1, <2>2
    <3>. QED
      BY <3>1 DEF SerialInv
  <2>. QED
    BY <2>1, <2>2
<1>5. Settled(rows) => Settled(rows)'
  BY DEF Settled, LatestPending
<1>6. (~faulty /\ (\A q \in Requests : ~Unsettled(tx[q])) => Settled(rows))'
  <2>1. (\A q \in Requests : ~Unsettled(tx[q]))' => ~Unsettled(t)
    BY <1>1 DEF Unsettled
  <2>. QED
    BY <1>4, <1>5, <2>1
<1>7. Prepared(t)'
  BY SamePrepared
<1>8. (\A q \in Requests : Prepared(tx[q]))'
  BY <1>1, <1>7
<1>. QED
  BY <1>2, <1>3, <1>6, <1>8 DEF SerialInv
-----------------------------------------------------------------------------
(* What a request may commit *)

\* While NOMIS is not ahead of the request, what is under way is settled.
LEMMA SettledNow ==
    ASSUME OneAtATime, SerialInv, NEW r \in Requests, ~Unsettled(tx[r]), ~faulty
    PROVE  Settled(rows)
<1>1. \A q \in Requests : q = r
  BY DEF OneAtATime
<1>2. \A q \in Requests : ~Unsettled(tx[q])
  BY <1>1
<1>. QED
  BY <1>2 DEF SerialInv

\* A request that has changed nothing commits what was there.
LEMMA ReadyUntouched ==
    ASSUME OneAtATime, SerialInv, NEW r \in Requests,
           ~Unsettled(tx[r]) \/ NothingInProgress(rows),
           NEW t, Untouched(t),
           \/ t.referral = "KEEP"
           \/ t.referral = "NEW" /\ NothingInProgress(rows)
    PROVE  Ready(t)
<1>1. TableOf(t) = rows /\ TableSound(rows) /\ ReferralSound(rows, referral)
  BY DEF Untouched, SerialInv
<1>2. ReferralSound(rows, ReferralAfter(t.referral))
  BY <1>1 DEF ReferralSound, ReferralAfter
<1>3. ~faulty => Settled(rows)
  BY SettledNow DEF Settled, NothingInProgress
<1>4. Follows(rows, rows)
  BY DEF Follows
<1>. QED
  BY <1>1, <1>2, <1>3, <1>4 DEF Ready

\* A request that has written the row under way, and nothing else, commits it.
LEMMA ReadyUpdate ==
    ASSUME IInv, SerialInv, NEW t, NEW s \in Seqs,
           rows[s].status \in InProgress,
           NEW row \in Row, RowShaped(row), RowBacked(row, s),
           Changed(t, s, row),
           \/ row.status = rows[s].status
           \/ Allowed(rows[s].status, row.status) /\ row.status \in Statuses,
           \/ row.status \in InProgress /\ t.referral = "KEEP"
           \/ row.status \notin InProgress /\ t.referral = "RESTORE",
           ~faulty => \/ row.status \notin InProgress \/ row.nomisSeq = 0
                      \/ LatestPending(row.nomisSeq)
    PROVE  Ready(t)
<1>. DEFINE T == TableOf(t)
<1>0. /\ rows \in [Seqs -> Row] /\ TableShaped(rows) /\ TableBacked(rows)
      /\ ReferralSound(rows, referral)
  BY DEF IInv, TypeOK, SerialInv, TableSound
<1>1. /\ T = [rows EXCEPT ![s] = row]
      /\ T[s] = row /\ \A u \in Seqs : u # s => T[u] = rows[u]
  BY <1>0 DEF Changed
<1>. HIDE DEF T
<1>2. \A u \in Seqs : u # s => T[u].status \notin InProgress
  BY <1>0, <1>1, OneUnderWay
<1>3. TableShaped(T)
  BY <1>0, <1>1, UpdateShaped
<1>4. TableBacked(T)
  BY <1>0, <1>1 DEF TableBacked
<1>5. Follows(rows, T)
  <2>1. StatusOf(T) = [StatusOf(rows) EXCEPT ![s] = row.status]
    BY <1>0, <1>1 DEF StatusOf
  <2>2. rows[s].status # Undefined
    BY InProgressFacts
  <2>3. CASE row.status = rows[s].status
    BY <1>0, <2>1, <2>3 DEF Follows, StatusOf
  <2>4. CASE Allowed(rows[s].status, row.status) /\ row.status \in Statuses
    BY <2>1, <2>2, <2>4 DEF Follows
  <2>. QED
    BY <2>3, <2>4
<1>6. ReferralSound(T, ReferralAfter(t.referral))
  <2>1. referral # "NEW"
    BY <1>0 DEF ReferralSound, NothingInProgress
  <2>2. CASE row.status \in InProgress /\ t.referral = "KEEP"
    BY <1>1, <2>1, <2>2 DEF ReferralSound, ReferralAfter, NothingInProgress
  <2>3. CASE row.status \notin InProgress /\ t.referral = "RESTORE"
    BY <1>1, <1>2, <2>1, <2>3 DEF ReferralSound, ReferralAfter, NothingInProgress
  <2>. QED
    BY <2>2, <2>3
<1>7. ~faulty => Settled(T)
  BY <1>1, <1>2 DEF Settled
<1>. QED
  BY <1>3, <1>4, <1>5, <1>6, <1>7 DEF Ready, TableSound, T

\* So does one that has opened a row, unless a new referral waits for it.
LEMMA ReadyOpened ==
    ASSUME IInv, SerialInv, NEW t, NEW n \in Seqs, IsNext(rows, n),
           NothingInProgress(rows),
           NEW row \in Row, RowShaped(row), row.nomisSeq = 0, ~row.approved,
           row.status \in {"STARTED", "SECURITY_AUTO", "SECURITY_FLAGGED"},
           Changed(t, n, row),
           \/ t.referral = "KEEP" /\ referral # "NEW"
           \/ t.referral = "REFERRED"
    PROVE  Ready(t)
<1>. DEFINE T == TableOf(t)
<1>0. rows \in [Seqs -> Row] /\ TableShaped(rows) /\ TableBacked(rows)
  BY DEF IInv, TypeOK, SerialInv, TableSound
<1>1. /\ T = [rows EXCEPT ![n] = row]
      /\ T[n] = row /\ \A u \in Seqs : u # n => T[u] = rows[u]
  BY <1>0 DEF Changed
<1>. HIDE DEF T
<1>2. row.status \in InProgress
  BY DEF InProgress
<1>3. TableShaped(T)
  BY <1>0, <1>1, <1>2, OpenShaped
<1>4. TableBacked(T)
  BY <1>0, <1>1 DEF TableBacked, RowBacked
<1>5. Follows(rows, T)
  <2>1. StatusOf(T) = [StatusOf(rows) EXCEPT ![n] = row.status]
    BY <1>0, <1>1 DEF StatusOf
  <2>. QED
    BY <2>1 DEF Follows
<1>6. ReferralSound(T, ReferralAfter(t.referral))
  <2>1. ReferralAfter(t.referral) # "NEW"
    BY DEF ReferralAfter
  <2>. QED
    BY <1>1, <1>2, <2>1 DEF ReferralSound, NothingInProgress
<1>7. Settled(T)
  BY <1>1 DEF Settled, NothingInProgress
<1>. QED
  BY <1>3, <1>4, <1>5, <1>6, <1>7 DEF Ready, TableSound, T

\* So does a release that has deleted all that was under way.
LEMMA ReadyDeleted ==
    ASSUME IInv, SerialInv, NEW t, Deleting(t), t.doomed = {},
           "release" \in atWork, t.referral = "KEEP"
    PROVE  Ready(t)
<1>. DEFINE T == TableOf(t)
<1>0. rows \in [Seqs -> Row] /\ TableShaped(rows) /\ TableBacked(rows)
  BY DEF IInv, TypeOK, SerialInv, TableSound
<1>1. T = [s \in Seqs |-> IF rows[s].status \in InProgress THEN NoRow
                          ELSE rows[s]]
  BY DEF Deleting
<1>. HIDE DEF T
<1>2. TableShaped(T) /\ NothingInProgress(T)
  BY <1>0, <1>1, DeletedShaped
<1>3. TableBacked(T)
  BY <1>0, <1>1, InProgressFacts DEF TableBacked, RowBacked, NoRow
<1>4. StatusOf(T) = [s \in Seqs |-> IF rows[s].status \in InProgress
                                    THEN Undefined ELSE rows[s].status]
  BY <1>1 DEF StatusOf, NoRow
<1>5. Follows(rows, T)
  BY <1>4 DEF Follows
<1>6. ReferralSound(T, ReferralAfter(t.referral))
  BY <1>2 DEF ReferralSound
<1>7. Settled(T)
  BY <1>2 DEF Settled, NothingInProgress
<1>. QED
  BY <1>2, <1>3, <1>5, <1>6, <1>7 DEF Ready, TableSound, T
-----------------------------------------------------------------------------
(* The first steps *)

\* What a handler that has written nothing yet must have made sure of.
LEMMA BeginSerial ==
    ASSUME OneAtATime, IInv, SerialInv, NEW r \in Requests, Begin(r),
           UNCHANGED <<atWork, faulty>>
    PROVE  SerialInv'

<1>0. /\ UNCHANGED <<rows, referral, nomis, approvedFor>>
      /\ tx[r].step = "idle"
  BY DEF Begin, SaveForm, SecurityInput, SendBack, Submit, Approve, Cancel,
         Tasklist, TasklistRecat, TasklistFor, RaiseReferral, Release, Calls
<1>1. ~Unsettled(tx[r])
  BY <1>0 DEF Unsettled
<1>2. /\ TypeOK /\ rows \in [Seqs -> Row] /\ TableShaped(rows)
      /\ ReferralSound(rows, referral)
  BY TheRequest DEF SerialInv
<1>3. \A t : t.held = {} => Untouched(t)
  BY <1>2 DEF Untouched, TableOf
<1>4. \A s, u \in 0..MaxSeq : IsCurrent(rows, s) /\ IsCurrent(rows, u) => s = u
  BY CurrentUnique
<1>5. \A s \in 0..MaxSeq :
         IsCurrent(rows, s) /\ RowAt(rows, s).status \notin InProgress
           => NothingInProgress(rows)
  BY <1>2, NothingBegun
<1>6. \A s \in 0..MaxSeq : RowAt(rows, s).status \in Statuses \cup {Undefined}
                           /\ (s \notin Seqs => RowAt(rows, s).status = Undefined)
  BY <1>2, ViewType DEF Row, RowAt, NoRow
<1>7. \A t, s : /\ s \in 0..MaxSeq
                /\ IsCurrent(rows, s)
                => /\ t.status = RowAt(rows, s).status => StatusHolds(t)
                   /\ t.seq = RowAt(rows, s).nomisSeq => SeqHolds(t)
  BY <1>4 DEF StatusHolds, SeqHolds
<1>8. CASE SaveForm(r) \/ SecurityInput(r) \/ SendBack(r)
  <2>1. PICK op \in {"save", "securityInput", "sendBack"}, s \in 0..MaxSeq :
            /\ IsCurrent(rows, s)
            /\ Start(r, op, "update", RowAt(rows, s).status)
    BY <1>8 DEF SaveForm, SecurityInput, SendBack, Calls
  <2>. DEFINE t == [Idle EXCEPT !.op = op, !.step = "update",
                                !.status = RowAt(rows, s).status]
  <2>2. /\ t.op = op /\ t.step = "update" /\ t.held = {}
        /\ t.status = RowAt(rows, s).status
        /\ t.referral = "KEEP" /\ t.target = Unaimed
    BY DEF Idle
  <2>3. tx' = [tx EXCEPT ![r] = t]
    BY <2>1 DEF Start
  <2>. HIDE DEF t
  <2>4. Untouched(t) /\ StatusHolds(t)
    BY <1>3, <1>7, <2>1, <2>2
  <2>5. Prepared(t)
    BY <2>2, <2>4 DEF Prepared
  <2>. QED
    BY <1>0, <1>1, <2>3, <2>5, OwnStepSerial
<1>9. CASE Submit(r)
  <2>1. PICK s \in 0..MaxSeq :
            /\ IsCurrent(rows, s)
            /\ tx' = [tx EXCEPT ![r] = [Idle EXCEPT !.op = "submit", !.step = "reread",
                                                    !.seq = RowAt(rows, s).nomisSeq]]
    BY <1>9 DEF Submit, Calls
  <2>. DEFINE t == [Idle EXCEPT !.op = "submit", !.step = "reread",
                                !.seq = RowAt(rows, s).nomisSeq]
  <2>2. /\ t.op = "submit" /\ t.step = "reread" /\ t.held = {}
        /\ t.seq = RowAt(rows, s).nomisSeq
        /\ t.referral = "KEEP" /\ t.target = Unaimed
    BY DEF Idle
  <2>. HIDE DEF t
  <2>3. Untouched(t) /\ SeqHolds(t)
    BY <1>3, <1>7, <2>1, <2>2
  <2>4. Prepared(t)
    BY <2>2, <2>3 DEF Prepared
  <2>. QED
    BY <1>0, <1>1, <2>1, <2>4, OwnStepSerial DEF t
<1>10. CASE Approve(r)
  <2>1. PICK s \in 0..MaxSeq, step \in {"stamp", "approve"} :
            /\ IsCurrent(rows, s)
            /\ Start(r, "approve", step, Undefined)
            /\ \/ step = "stamp" /\ Allowed(RowAt(rows, s).status, "APPROVED")
               \/ step = "approve" /\ RowAt(rows, s).status = "APPROVED"
    BY <1>10 DEF Approve, Calls, Repeated
  <2>. DEFINE t == [Idle EXCEPT !.op = "approve", !.step = step,
                                !.status = Undefined]
  <2>2. /\ t.op = "approve" /\ t.step = step /\ t.held = {}
        /\ t.referral = "KEEP" /\ t.target = Unaimed
    BY DEF Idle
  <2>3. tx' = [tx EXCEPT ![r] = t]
    BY <2>1 DEF Start
  <2>. HIDE DEF t
  <2>4. step = "stamp" => CurrentAllows("APPROVED")
    <3>. SUFFICES ASSUME step = "stamp" PROVE CurrentAllows("APPROVED")
      OBVIOUS
    <3>1. RowAt(rows, s).status \in InProgress
      BY <2>1, AllowedFrom DEF Statuses
    <3>2. s \in Seqs
      BY <1>6, <3>1, InProgressFacts
    <3>. QED
      BY <2>1, <3>2 DEF CurrentAllows, RowAt
  <2>5. step = "approve" => NothingInProgress(rows)
    BY <1>5, <2>1, InProgressFacts
  <2>6. Prepared(t)
    BY <1>3, <2>1, <2>2, <2>4, <2>5 DEF Prepared
  <2>. QED
    BY <1>0, <1>1, <2>3, <2>6, OwnStepSerial
<1>11. CASE Cancel(r)
  <2>1. PICK s \in 0..MaxSeq, effect \in {"KEEP", "RESTORE"} :
            /\ IsCurrent(rows, s)
            /\ s # 0 => effect = "RESTORE"
            /\ tx' = [tx EXCEPT ![r] = [Idle EXCEPT !.op = "cancel",
                                                    !.step = "inactivate",
                                                    !.referral = effect]]
    BY <1>11 DEF Cancel, Calls
  <2>. DEFINE t == [Idle EXCEPT !.op = "cancel", !.step = "inactivate",
                                !.referral = effect]
  <2>2. /\ t.op = "cancel" /\ t.step = "inactivate" /\ t.held = {}
        /\ t.referral = effect /\ t.target = Unaimed
    BY DEF Idle
  <2>. HIDE DEF t
  <2>3. s = 0 => NothingInProgress(rows)
    BY <1>5, <1>6, <2>1, InProgressFacts DEF Seqs
  <2>4. Prepared(t)
    BY <1>3, <2>1, <2>2, <2>3 DEF Prepared
  <2>. QED
    BY <1>0, <1>1, <2>1, <2>4, OwnStepSerial DEF t
<1>12. CASE Tasklist(r) \/ TasklistRecat(r)
  <2>1. PICK op \in {"tasklist", "tasklistRecat"}, s \in 0..MaxSeq,
             step \in {"open", "readReferral"},
             status \in Statuses \cup {Undefined} :
            /\ IsCurrent(rows, s)
            /\ Start(r, op, step, status)
            /\ \/ /\ step = "open"
                  /\ RowAt(rows, s).status \in {Undefined, "APPROVED"}
               \/ /\ step = "readReferral"
                  /\ RowAt(rows, s).status \in InProgress
    <3>1. PICK op \in {"tasklist", "tasklistRecat"},
               catType \in {"INITIAL", "RECAT"} : TasklistFor(r, op, catType)
      BY <1>12 DEF Tasklist, TasklistRecat
    <3>2. PICK s \in 0..MaxSeq :
             /\ IsCurrent(rows, s)
             /\ \/ /\ Opens(RowAt(rows, s), catType)
                   /\ Start(r, op, "open", Undefined)
                \/ /\ Continues(RowAt(rows, s), catType)
                   /\ Start(r, op, "readReferral", rows[s].status)
      BY <3>1 DEF TasklistFor, Calls
    <3>3. Continues(RowAt(rows, s), catType) => rows[s].status \in Statuses
      BY <1>6, InProgressFacts DEF Continues, RowAt, NoRow, Statuses
    <3>. QED
      BY <3>2, <3>3 DEF Opens, Continues
  <2>. DEFINE t == [Idle EXCEPT !.op = op, !.step = step, !.status = status]
  <2>2. /\ t.op = op /\ t.step = step /\ t.held = {}
        /\ t.referral = "KEEP" /\ t.target = Unaimed
    BY DEF Idle
  <2>3. tx' = [tx EXCEPT ![r] = t]
    BY <2>1 DEF Start
  <2>. HIDE DEF t
  <2>4. step = "open" => NothingInProgress(rows)
    BY <1>5, <2>1, InProgressFacts
  <2>5. step = "readReferral" => ~NothingInProgress(rows)
    BY <1>6, <2>1, InProgressFacts DEF NothingInProgress, RowAt
  <2>6. Prepared(t)
    BY <1>3, <2>1, <2>2, <2>4, <2>5 DEF Prepared
  <2>. QED
    BY <1>0, <1>1, <2>3, <2>6, OwnStepSerial
<1>13. CASE RaiseReferral(r)
  <2>. DEFINE t == [Idle EXCEPT !.op = "raiseReferral", !.step = "commit",
                                !.referral = "NEW"]
  <2>1. PICK s \in 0..MaxSeq :
            /\ IsCurrent(rows, s) /\ RowAt(rows, s).status \notin InProgress
            /\ tx' = [tx EXCEPT ![r] = t]
    BY <1>13 DEF RaiseReferral, Calls, MayRaise
  <2>2. /\ t.op = "raiseReferral" /\ t.step = "commit" /\ t.held = {}
        /\ t.referral = "NEW" /\ t.target = Unaimed
    BY DEF Idle
  <2>. HIDE DEF t
  <2>3. NothingInProgress(rows)
    BY <1>5, <2>1
  <2>4. Ready(t)
    BY <1>1, <1>3, <2>2, <2>3, ReadyUntouched
  <2>5. Prepared(t)
    BY <2>2, <2>4 DEF Prepared, Reading
  <2>. QED
    BY <1>0, <1>1, <2>1, <2>5, OwnStepSerial
<1>14. CASE Release(r)
  <2>. DEFINE t == [Idle EXCEPT !.op = "release", !.step = "delete",
                                !.doomed = {s \in Seqs : Pending(rows[s])}]
  <2>1. tx' = [tx EXCEPT ![r] = t]
    BY <1>14 DEF Release
  <2>2. /\ t.op = "release" /\ t.step = "delete" /\ t.held = {}
        /\ t.referral = "KEEP" /\ t.target = Unaimed
        /\ t.doomed = {s \in Seqs : Pending(rows[s])}
    BY DEF Idle
  <2>. HIDE DEF t
  <2>3. \A s \in Seqs : rows[s].status \in InProgress <=> s \in t.doomed
    BY <1>2, <2>2, InProgressFacts DEF Pending, TableShaped, RowShaped
  <2>4. TableOf(t) = rows
    BY <1>3, <2>2 DEF Untouched
  <2>5. Deleting(t)
    BY <1>2, <2>2, <2>3, <2>4 DEF Deleting
  <2>6. Prepared(t)
    BY <2>2, <2>5 DEF Prepared, Reading
  <2>. QED
    BY <1>0, <1>1, <2>1, <2>6, OwnStepSerial
<1>. QED
  BY <1>8, <1>9, <1>10, <1>11, <1>12, <1>13, <1>14 DEF Begin
-----------------------------------------------------------------------------
(* The steps on the database *)

\* A statement that finds its row leaves it in the request's table.
LEMMA RowWritten ==
    ASSUME TypeOK, NEW r \in Requests, NEW s \in Seqs, NEW row \in Row,
           NEW after \in Transaction,
           after.held = tx[r].held, after.work = tx[r].work,
           View(r)[s] # NoRow, Write(r, s, row, after)
    PROVE  \E t \in Transaction :
              /\ tx' = [tx EXCEPT ![r] = t]
              /\ TableOf(t) = [TableOf(tx[r]) EXCEPT ![s] = row]
              /\ t.held = tx[r].held \cup {s} /\ t.work[s] = row
              /\ t.op = after.op /\ t.step = after.step
              /\ t.status = after.status /\ t.seq = after.seq
              /\ t.target = after.target /\ t.made = after.made
              /\ t.referral = after.referral /\ t.doomed = after.doomed
<1>. DEFINE t == [after EXCEPT !.held = @ \cup {s}, !.work[s] = row]
<1>1. tx' = [tx EXCEPT ![r] = t]
  BY DEF Write, RowAt
<1>2. /\ t \in Transaction
      /\ t.held = tx[r].held \cup {s} /\ t.work = [tx[r].work EXCEPT ![s] = row]
      /\ t.op = after.op /\ t.step = after.step
      /\ t.status = after.status /\ t.seq = after.seq
      /\ t.target = after.target /\ t.made = after.made
      /\ t.referral = after.referral /\ t.doomed = after.doomed
  BY DEF Transaction
<1>3. rows \in [Seqs -> Row] /\ tx[r].work \in [Seqs -> Row]
  BY DEF TypeOK, Transaction
<1>. HIDE DEF t
<1>4. TableOf(t) = [TableOf(tx[r]) EXCEPT ![s] = row]
  BY <1>2, <1>3 DEF TableOf
<1>5. t.work[s] = row
  BY <1>2, <1>3
<1>. QED
  BY <1>1, <1>2, <1>4, <1>5

\* A status that the transition table allows is written on the row under way.
LEMMA StatusWritten ==
    ASSUME IInv, SerialInv, NEW r \in Requests, Untouched(tx[r]),
           NEW status \in {"SECURITY_MANUAL", "SUPERVISOR_BACK",
                           "AWAITING_APPROVAL", "CANCELLED"},
           CurrentAllows(status), NEW after \in Transaction,
           after.held = tx[r].held, after.work = tx[r].work,
           SetStatus(r, status, after)
    PROVE  \E t \in Transaction, s \in Seqs :
              /\ tx' = [tx EXCEPT ![r] = t]
              /\ IsCurrent(rows, s) /\ rows[s].status \in InProgress
              /\ Allowed(rows[s].status, status)
              /\ Changed(t, s, [rows[s] EXCEPT !.status = status])
              /\ t.op = after.op /\ t.step = after.step
              /\ t.seq = after.seq /\ t.target = after.target
              /\ t.referral = after.referral
<1>1. /\ TypeOK /\ tx[r] \in Transaction /\ tx[r].target = Unaimed
      /\ View(r) = rows /\ TableOf(tx[r]) = rows /\ rows \in [Seqs -> Row]
  BY TheRequest DEF Untouched
<1>2. PICK u \in 0..MaxSeq :
         /\ IsCurrent(rows, u)
         /\ Write(r, u, [RowAt(rows, u) EXCEPT !.status = status], after)
  BY <1>1 DEF SetStatus, Target
<1>3. PICK s \in Seqs : IsCurrent(rows, s) /\ Allowed(rows[s].status, status)
  BY DEF CurrentAllows
<1>4. u = s
  BY <1>2, <1>3, CurrentUnique DEF Seqs
<1>5. rows[s].status \in InProgress
  BY <1>3, AllowedFrom DEF Statuses, InProgress
<1>. DEFINE row == [rows[s] EXCEPT !.status = status]
<1>6. row \in Row
  BY <1>1 DEF Row, Statuses, InProgress
<1>7. rows[s] # NoRow /\ RowAt(rows, s) = rows[s]
  BY <1>5, InProgressFacts DEF NoRow, RowAt
<1>. HIDE DEF row
<1>8. PICK t \in Transaction :
         /\ tx' = [tx EXCEPT ![r] = t]
         /\ TableOf(t) = [TableOf(tx[r]) EXCEPT ![s] = row]
         /\ t.op = after.op /\ t.step = after.step
         /\ t.seq = after.seq /\ t.target = after.target
         /\ t.referral = after.referral
  <2>1. Write(r, s, row, after)
    BY <1>2, <1>4, <1>7 DEF row
  <2>2. View(r)[s] # NoRow
    BY <1>1, <1>7
  <2>3. TypeOK
    BY <1>1
  <2>. QED
    BY <1>6, <2>1, <2>2, <2>3, RowWritten
<1>. QED
  BY <1>1, <1>3, <1>5, <1>8 DEF Changed, row

\* Giving the row under way another status keeps it sound.
LEMMA StatusSound ==
    ASSUME NEW row \in Row, NEW s, RowShaped(row), RowBacked(row, s),
           row.status \in InProgress,
           NEW status \in {"SECURITY_MANUAL", "SECURITY_BACK",
                           "SUPERVISOR_BACK", "CANCELLED"}
    PROVE  /\ RowShaped([row EXCEPT !.status = status])
           /\ RowBacked([row EXCEPT !.status = status], s)
           /\ [row EXCEPT !.status = status] \in Row
           /\ [row EXCEPT !.status = status].status = status
           /\ [row EXCEPT !.status = status].nomisSeq = row.nomisSeq
<1>. DEFINE new == [row EXCEPT !.status = status]
<1>1. /\ new \in Row /\ new.status = status /\ new.nomisSeq = row.nomisSeq
      /\ new.approved = row.approved
  BY DEF Row, Statuses, InProgress
<1>2. ~row.approved /\ status \notin {Undefined, "APPROVED", "AWAITING_APPROVAL"}
  BY InProgressFacts DEF RowShaped, Undefined
<1>. HIDE DEF new
<1>3. RowShaped(new)
  BY <1>1, <1>2 DEF RowShaped
<1>4. RowBacked(new, s)
  BY <1>1, <1>2 DEF RowBacked
<1>. QED
  BY <1>1, <1>3, <1>4 DEF new

\* Saving the form leaves the row as it was.
LEMMA FormSaved ==
    ASSUME IInv, SerialInv, NEW r \in Requests, UpdateForm(r)
    PROVE  \E t \in Transaction :
              /\ tx' = [tx EXCEPT ![r] = t] /\ Untouched(t)
              /\ t.op = tx[r].op
              /\ t.step = IF tx[r].op = "save" THEN "commit" ELSE "reread"
              /\ t.target = Unaimed /\ t.referral = "KEEP"
<1>. DEFINE step == IF tx[r].op = "save" THEN "commit" ELSE "reread"
            after == Goto(r, step)
<1>1. /\ TypeOK /\ tx[r] \in Transaction /\ tx[r].target = Unaimed
      /\ View(r) = TableOf(tx[r]) /\ rows \in [Seqs -> Row]
      /\ TableShaped(rows)
  BY TheRequest
<1>2. /\ tx[r].step = "update" /\ tx[r].referral = "KEEP"
      /\ tx[r].op \in {"save", "securityInput", "sendBack"}
      /\ Untouched(tx[r]) /\ StatusHolds(tx[r])
  BY TheRequest DEF UpdateForm, Prepared, Reading
<1>4. /\ after \in Transaction /\ after.op = tx[r].op /\ after.step = step
      /\ after.held = tx[r].held /\ after.work = tx[r].work
      /\ after.target = Unaimed /\ after.referral = "KEEP"
  BY <1>1, <1>2, GotoFields DEF Steps, SameEffects
<1>5. PICK s \in 0..MaxSeq :
         /\ IsCurrent(rows, s)
         /\ Write(r, s, [RowAt(rows, s) EXCEPT
                            !.status = CalculateStatus(tx[r].status)], after)
  BY <1>1, <1>2 DEF UpdateForm, SetStatus, Target, Untouched
<1>. HIDE DEF after
<1>6. RowAt(rows, s).status = tx[r].status
  BY <1>2, <1>5 DEF StatusHolds
<1>7. \E t \in Transaction :
         /\ tx' = [tx EXCEPT ![r] = t] /\ Untouched(t)
         /\ t.op = tx[r].op /\ t.step = step
         /\ t.target = Unaimed /\ t.referral = "KEEP"
  <2>1. CASE RowAt(rows, s) = NoRow
    <3>1. tx' = [tx EXCEPT ![r] = after]
      BY <1>1, <1>2, <1>5, <2>1 DEF Write, Untouched
    <3>2. Untouched(after)
      BY <1>2, <1>4 DEF Untouched, TableOf
    <3>. QED
      BY <1>4, <3>1, <3>2
  <2>2. CASE RowAt(rows, s) # NoRow
    <3>1. s \in Seqs /\ RowAt(rows, s) = rows[s] /\ View(r)[s] # NoRow
      BY <1>1, <1>2, <2>2 DEF RowAt, Untouched
    <3>2. rows[s].status # Undefined
      BY <1>1, <2>2, <3>1 DEF TableShaped, RowShaped
    <3>3. [rows[s] EXCEPT !.status = CalculateStatus(tx[r].status)] = rows[s]
      BY <1>1, <1>6, <3>1, <3>2 DEF CalculateStatus, Row
    <3>4. Write(r, s, rows[s], after) /\ rows[s] \in Row
      BY <1>1, <1>5, <3>1, <3>3
    <3>5. PICK t \in Transaction :
             /\ tx' = [tx EXCEPT ![r] = t]
             /\ TableOf(t) = [TableOf(tx[r]) EXCEPT ![s] = rows[s]]
             /\ t.op = after.op /\ t.step = after.step
             /\ t.target = after.target /\ t.referral = after.referral
      BY <1>1, <1>4, <3>1, <3>4, RowWritten
    <3>6. Untouched(t)
      BY <1>1, <1>2, <3>1, <3>5 DEF Untouched
    <3>. QED
      BY <1>4, <3>5, <3>6
  <2>. QED
    BY <2>1, <2>2
<1>. QED
  BY <1>7

LEMMA UpdateFormSerial ==
    ASSUME OneAtATime, IInv, SerialInv, NEW r \in Requests, UpdateForm(r),
           UNCHANGED <<rows, referral, riskChange, nomis, approvedFor>>,
           UNCHANGED <<atWork, faulty>>
    PROVE  SerialInv'
<1>1. PICK t \in Transaction :
         /\ tx' = [tx EXCEPT ![r] = t] /\ Untouched(t)
         /\ t.op = tx[r].op
         /\ t.step = IF tx[r].op = "save" THEN "commit" ELSE "reread"
         /\ t.target = Unaimed /\ t.referral = "KEEP"
  BY FormSaved
<1>2. tx[r].step = "update" /\ tx[r].op \in {"save", "securityInput", "sendBack"}
  BY TheRequest DEF UpdateForm, Prepared
<1>3. ~Unsettled(tx[r])
  BY <1>2 DEF Unsettled
<1>4. Ready(t)
  BY <1>1, <1>3, ReadyUntouched
<1>5. Prepared(t)
  BY <1>1, <1>2, <1>4 DEF Prepared, Reading
<1>. QED
  BY <1>1, <1>3, <1>5, OwnStepSerial

\* The handlers that move the row along the transition table.
LEMMA RowMoved ==
    ASSUME IInv, SerialInv, NEW r \in Requests,
           Refer(r) \/ Back(r) \/ Decide(r) \/ CancelRow(r)
    PROVE  \E status \in {"SECURITY_MANUAL", "SUPERVISOR_BACK",
                          "AWAITING_APPROVAL", "CANCELLED"},
              step \in {"commit", "reject", "submit"}, t \in Transaction, s \in Seqs :
         /\ \/ /\ tx[r].step = "refer" /\ status = "SECURITY_MANUAL"
               /\ step = "commit"
            \/ /\ tx[r].step = "back" /\ status = "SUPERVISOR_BACK"
               /\ step = "reject"
            \/ /\ tx[r].step = "decide" /\ status = "AWAITING_APPROVAL"
               /\ step = "submit"
            \/ /\ tx[r].step = "cancel" /\ status = "CANCELLED"
               /\ step = "commit"
         /\ tx' = [tx EXCEPT ![r] = t]
         /\ IsCurrent(rows, s) /\ rows[s].status \in InProgress
         /\ Allowed(rows[s].status, status)
         /\ Changed(t, s, [rows[s] EXCEPT !.status = status])
         /\ t.op = tx[r].op /\ t.step = step
         /\ t.seq = tx[r].seq /\ t.target = Unaimed
         /\ t.referral = tx[r].referral
<1>1. PICK status \in {"SECURITY_MANUAL", "SUPERVISOR_BACK",
                       "AWAITING_APPROVAL", "CANCELLED"},
           step \in {"commit", "reject", "submit"} :
         /\ SetStatus(r, status, Goto(r, step))
         /\ \/ /\ tx[r].step = "refer" /\ status = "SECURITY_MANUAL"
               /\ step = "commit"
            \/ /\ tx[r].step = "back" /\ status = "SUPERVISOR_BACK"
               /\ step = "reject"
            \/ /\ tx[r].step = "decide" /\ status = "AWAITING_APPROVAL"
               /\ step = "submit"
            \/ /\ tx[r].step = "cancel" /\ status = "CANCELLED"
               /\ step = "commit"
  BY DEF Refer, Back, Decide, CancelRow
<1>2. tx[r] \in Transaction /\ Prepared(tx[r]) /\ rows \in [Seqs -> Row]
      /\ TableShaped(rows) /\ TableBacked(rows)
  BY TheRequest
<1>3. Untouched(tx[r]) /\ CurrentAllows(status)
  BY <1>1, <1>2 DEF Prepared, Reading
<1>. DEFINE after == Goto(r, step)
<1>4. /\ after \in Transaction /\ after.op = tx[r].op /\ after.step = step
      /\ after.held = tx[r].held /\ after.work = tx[r].work
      /\ after.seq = tx[r].seq
      /\ after.target = Unaimed /\ after.referral = tx[r].referral
  BY <1>2, GotoFields DEF Steps, SameEffects
<1>. HIDE DEF after
<1>5. PICK t \in Transaction, s \in Seqs :
         /\ tx' = [tx EXCEPT ![r] = t]
         /\ IsCurrent(rows, s) /\ rows[s].status \in InProgress
         /\ Allowed(rows[s].status, status)
         /\ Changed(t, s, [rows[s] EXCEPT !.status = status])
         /\ t.op = tx[r].op /\ t.step = step
         /\ t.seq = tx[r].seq /\ t.target = Unaimed
         /\ t.referral = tx[r].referral
  <2>1. SetStatus(r, status, after)
    BY <1>1 DEF after
  <2>. QED
    BY <1>3, <1>4, <2>1, StatusWritten
<1>. QED
  BY <1>1, <1>5

LEMMA MoveSerial ==
    ASSUME OneAtATime, IInv, SerialInv, NEW r \in Requests,
           Refer(r) \/ Back(r) \/ Decide(r) \/ CancelRow(r),
           UNCHANGED <<rows, referral, riskChange, nomis, approvedFor>>,
           UNCHANGED <<atWork, faulty>>
    PROVE  SerialInv'
<1>1. PICK status \in {"SECURITY_MANUAL", "SUPERVISOR_BACK",
                       "AWAITING_APPROVAL", "CANCELLED"},
           step \in {"commit", "reject", "submit"}, t \in Transaction, s \in Seqs :
         /\ \/ /\ tx[r].step = "refer" /\ status = "SECURITY_MANUAL"
               /\ step = "commit"
            \/ /\ tx[r].step = "back" /\ status = "SUPERVISOR_BACK"
               /\ step = "reject"
            \/ /\ tx[r].step = "decide" /\ status = "AWAITING_APPROVAL"
               /\ step = "submit"
            \/ /\ tx[r].step = "cancel" /\ status = "CANCELLED"
               /\ step = "commit"
         /\ tx' = [tx EXCEPT ![r] = t]
         /\ IsCurrent(rows, s) /\ rows[s].status \in InProgress
         /\ Allowed(rows[s].status, status)
         /\ Changed(t, s, [rows[s] EXCEPT !.status = status])
         /\ t.op = tx[r].op /\ t.step = step
         /\ t.seq = tx[r].seq /\ t.target = Unaimed
         /\ t.referral = tx[r].referral
  BY RowMoved
<1>2. tx[r] \in Transaction /\ Prepared(tx[r]) /\ rows \in [Seqs -> Row]
      /\ TableShaped(rows) /\ TableBacked(rows)
  BY TheRequest
<1>5. rows[s].status \in InProgress /\ s \in Seqs
      /\ tx' = [tx EXCEPT ![r] = t]
      /\ IsCurrent(rows, s)
      /\ Allowed(rows[s].status, status)
      /\ Changed(t, s, [rows[s] EXCEPT !.status = status])
      /\ t.op = tx[r].op /\ t.step = step
      /\ t.seq = tx[r].seq /\ t.target = Unaimed
      /\ t.referral = tx[r].referral
  BY <1>1
<1>6. ~NothingInProgress(rows)
  BY <1>5 DEF NothingInProgress
<1>7. CASE status = "AWAITING_APPROVAL"
  <2>1. tx[r].step = "decide" /\ step = "submit"
    BY <1>1, <1>7
  <2>2. tx[r].op = "submit" /\ tx[r].referral = "KEEP" /\ SeqHolds(tx[r])
    BY <1>2, <2>1 DEF Prepared
  <2>3. SeqHolds(t) /\ Submitted(t)
    BY <1>5, <1>7, <2>2 DEF SeqHolds, Submitted
  <2>4. Prepared(t)
    BY <1>5, <2>1, <2>2, <2>3 DEF Prepared, Reading
  <2>5. ~Unsettled(tx[r])
    BY <2>1 DEF Unsettled
  <2>. QED
    BY <1>5, <2>4, <2>5, OwnStepSerial
<1>8. CASE status # "AWAITING_APPROVAL"
  <2>. DEFINE row == [rows[s] EXCEPT !.status = status]
  <2>1. /\ RowShaped(row) /\ RowBacked(row, s) /\ row \in Row
        /\ row.status = status /\ row.nomisSeq = rows[s].nomisSeq
    <3>1. rows[s] \in Row /\ RowShaped(rows[s]) /\ RowBacked(rows[s], s)
      BY <1>2 DEF TableShaped, TableBacked
    <3>2. rows[s].status \in InProgress
      BY <1>5
    <3>3. status \in {"SECURITY_MANUAL", "SECURITY_BACK", "SUPERVISOR_BACK",
                      "CANCELLED"}
      BY <1>8
    <3>. QED
      BY <3>1, <3>2, <3>3, StatusSound
  <2>2. Changed(t, s, row)
    BY <1>5
  <2>. HIDE DEF row
  <2>3. \/ status = "CANCELLED" /\ t.referral = "RESTORE"
        \/ status # "CANCELLED" /\ t.referral = "KEEP"
    BY <1>1, <1>2, <1>5, <1>6, <1>8 DEF Prepared
  <2>4. status = "CANCELLED" \/ ~Unsettled(tx[r])
    BY <1>1 DEF Unsettled
  <2>5. ~faulty /\ status # "CANCELLED" =>
           row.nomisSeq = 0 \/ LatestPending(row.nomisSeq)
    BY <1>5, <2>1, <2>4, SettledNow DEF Settled
  <2>6. status = "CANCELLED" <=> status \notin InProgress
    BY <1>8 DEF InProgress
  <2>7. Ready(t)
    BY <1>5, <2>1, <2>2, <2>3, <2>5, <2>6, ReadyUpdate DEF Statuses, InProgress
  <2>8. step \in {"commit", "reject"}
    BY <1>1, <1>8
  <2>9. t.referral = "KEEP" \/ step = "commit"
    BY <1>1, <2>3
  <2>10. Prepared(t)
    BY <1>5, <2>7, <2>8, <2>9 DEF Prepared, Reading
  <2>11. Unsettled(tx[r]) => Unsettled(t)
    BY <1>1, <1>5, <2>8 DEF Unsettled
  <2>. QED
    BY <1>5, <2>10, <2>11, OwnStepSerial
<1>. QED
  BY <1>7, <1>8

\* A request that ends without a commit leaves the tables as they were; NOMIS
\* must not be ahead of it, unless there was a failure.
LEMMA RollbackSerial ==
    ASSUME OneAtATime, IInv, SerialInv, NEW r \in Requests, Rollback(r),
           ~faulty /\ Unsettled(tx[r]) => NothingInProgress(rows),
           UNCHANGED <<rows, referral, nomis, approvedFor>>,
           UNCHANGED <<atWork, faulty>>
    PROVE  SerialInv'
<1>1. Prepared(Idle)
  BY DEF Prepared, Idle, Reading
<1>. QED
  BY <1>1, OwnStepSerial DEF Rollback

\* The second read of the row checks the transition.
LEMMA RereadSerial ==
    ASSUME OneAtATime, IInv, SerialInv, NEW r \in Requests, Reread(r),
           UNCHANGED <<rows, referral, riskChange, nomis, approvedFor>>,
           UNCHANGED <<atWork, faulty>>
    PROVE  SerialInv'
<1>1. /\ tx[r] \in Transaction /\ Prepared(tx[r]) /\ tx[r].target = Unaimed
      /\ rows \in [Seqs -> Row] /\ TableShaped(rows)
      /\ TypeOK /\ View(r) = TableOf(tx[r])
  BY TheRequest
<1>2. /\ tx[r].step = "reread"
      /\ tx[r].op \in {"securityInput", "sendBack", "submit", "cancel"}
  BY <1>1 DEF Reread, Prepared
<1>3. View(r) = rows /\ Untouched(tx[r])
  BY <1>1, <1>2 DEF Prepared, Reading, Untouched
<1>. DEFINE op == tx[r].op
            proposed == CASE op = "securityInput" -> "SECURITY_MANUAL"
                          [] op = "sendBack" -> "SUPERVISOR_BACK"
                          [] op = "submit"   -> "AWAITING_APPROVAL"
                          [] OTHER           -> "CANCELLED"
            write    == CASE op = "securityInput" -> "refer"
                          [] op = "sendBack" -> "back"
                          [] op = "submit"   -> "decide"
                          [] OTHER           -> "cancel"
            skip     == CASE op = "sendBack" -> "reject"
                          [] op = "submit"   -> "submit"
                          [] OTHER           -> "commit"
<1>4. PICK s \in 0..MaxSeq :
         /\ IsCurrent(rows, s)
         /\ \/ /\ Allowed(RowAt(rows, s).status, proposed)
               /\ tx' = [tx EXCEPT ![r].step = write,
                                   ![r].seq = IF op = "sendBack"
                                              THEN RowAt(rows, s).nomisSeq ELSE @]
            \/ /\ RowAt(rows, s).status = proposed
               /\ tx' = [tx EXCEPT ![r].step = skip,
                                   ![r].seq = IF op = "sendBack"
                                              THEN RowAt(rows, s).nomisSeq ELSE @]
            \/ /\ ~Allowed(RowAt(rows, s).status, proposed)
               /\ Rollback(r)
  BY ZenonT(30), <1>3 DEF Reread, Repeated, Rejected
<1>5. proposed \in {"SECURITY_MANUAL", "SUPERVISOR_BACK", "AWAITING_APPROVAL",
                    "CANCELLED"}
  OBVIOUS
<1>6. CASE Rollback(r) /\ ~Allowed(RowAt(rows, s).status, proposed)
  <2>1. Unsettled(tx[r]) => NothingInProgress(rows)
    <3>. SUFFICES ASSUME op = "cancel" PROVE NothingInProgress(rows)
      BY <1>2 DEF Unsettled
    <3>1. RowAt(rows, s).status \notin InProgress
      BY <1>6 DEF Allowed, Previous
    <3>. QED
      BY <1>1, <1>4, <3>1, NothingBegun
  <2>. QED
    BY <1>6, <2>1, RollbackSerial
<1>7. CASE ~(Rollback(r) /\ ~Allowed(RowAt(rows, s).status, proposed))
  <2>1. PICK step \in {write, skip},
             seq \in {RowAt(rows, s).nomisSeq, tx[r].seq} :
           /\ tx' = [tx EXCEPT ![r] = [tx[r] EXCEPT !.step = step, !.seq = seq]]
           /\ op # "sendBack" => seq = tx[r].seq
           /\ \/ step = write /\ Allowed(RowAt(rows, s).status, proposed)
              \/ step = skip /\ RowAt(rows, s).status = proposed
    <3>. DEFINE seq == IF op = "sendBack" THEN RowAt(rows, s).nomisSeq
                       ELSE tx[r].seq
    <3>1. PICK step \in {write, skip} :
           /\ tx' = [tx EXCEPT ![r].step = step, ![r].seq = seq]
           /\ \/ step = write /\ Allowed(RowAt(rows, s).status, proposed)
              \/ step = skip /\ RowAt(rows, s).status = proposed
      BY <1>1, <1>4, <1>7 DEF TypeOK
    <3>2. tx' = [tx EXCEPT ![r] = [tx[r] EXCEPT !.step = step, !.seq = seq]]
      BY <1>1, <3>1 DEF TypeOK
    <3>. QED
      BY <3>1, <3>2
  <2>. DEFINE t == [tx[r] EXCEPT !.step = step, !.seq = seq]
  <2>2. /\ t.op = op /\ t.step = step /\ t.seq = seq
        /\ t.target = Unaimed /\ t.referral = tx[r].referral
        /\ t.held = tx[r].held /\ t.work = tx[r].work
    BY <1>1 DEF Transaction
  <2>. HIDE DEF t
  <2>3. Untouched(t)
    BY <1>3, <2>2 DEF Untouched, TableOf
  <2>4. RowAt(rows, s).status \in InProgress /\ s \in Seqs
    <3>1. CASE Allowed(RowAt(rows, s).status, proposed)
      <4>1. RowAt(rows, s).status \in InProgress
        BY <1>5, <3>1, AllowedFrom DEF Statuses, InProgress
      <4>. QED
        BY <4>1, InProgressFacts DEF RowAt, NoRow
    <3>2. CASE RowAt(rows, s).status = proposed
      <4>1. s \in Seqs
        BY <1>5, <3>2 DEF RowAt, NoRow, Undefined
      <4>2. ~Hidden(rows, s)
        BY <1>4, <4>1 DEF IsCurrent, Seqs
      <4>3. RowAt(rows, s).status # "CANCELLED"
        BY <4>1, <4>2 DEF Hidden, RowAt
      <4>. QED
        BY <1>5, <3>2, <4>1, <4>3 DEF InProgress
    <3>. QED
      BY <2>1, <3>1, <3>2
  <2>5. rows[s].status = RowAt(rows, s).status /\ ~NothingInProgress(rows)
    BY <2>4 DEF RowAt, NothingInProgress
  <2>6. op = "cancel" <=> tx[r].referral = "RESTORE"
    BY <1>1, <1>2, <2>5 DEF Prepared
  <2>7. op # "cancel" => tx[r].referral = "KEEP"
    BY <1>1, <1>2 DEF Prepared
  <2>8. CASE step = write /\ Allowed(RowAt(rows, s).status, proposed)
    <3>1. CurrentAllows(proposed)
      BY <1>4, <2>4, <2>5, <2>8 DEF CurrentAllows
    <3>2. op = "submit" => SeqHolds(t)
      BY <1>1, <1>2, <2>1, <2>2 DEF Prepared, SeqHolds
    <3>3. Prepared(t)
      BY <1>2, <2>2, <2>3, <2>6, <2>7, <2>8, <3>1, <3>2 DEF Prepared, Reading
    <3>4. Unsettled(tx[r]) => Unsettled(t)
      BY <1>2, <2>2, <2>8 DEF Unsettled
    <3>. QED
      BY <2>1, <3>3, <3>4, OwnStepSerial DEF t
  <2>9. CASE step = skip /\ RowAt(rows, s).status = proposed
    <3>1. op # "cancel"
      BY <2>4, <2>9, InProgressFacts
    <3>2. ~Unsettled(tx[r])
      BY <1>2, <3>1 DEF Unsettled
    <3>3. Ready(t)
      BY <2>2, <2>3, <2>7, <3>1, <3>2, ReadyUntouched
    <3>4. op = "submit" => SeqHolds(t) /\ Submitted(t)
      BY <1>1, <1>2, <1>4, <2>1, <2>2, <2>3, <2>4, <2>5, <2>9
         DEF Prepared, SeqHolds, Submitted
    <3>5. Prepared(t)
      BY <1>2, <2>2, <2>3, <2>7, <2>9, <3>1, <3>3, <3>4 DEF Prepared, Reading
    <3>. QED
      BY <2>1, <3>2, <3>5, OwnStepSerial DEF t
  <2>. QED
    BY <2>1, <2>8, <2>9
<1>. QED
  BY <1>6, <1>7

\* The approval is written on the row that was waiting for it.
LEMMA StampSerial ==
    ASSUME OneAtATime, IInv, SerialInv, NEW r \in Requests, Stamp(r),
           UNCHANGED <<rows, referral, riskChange, nomis, approvedFor>>,
           UNCHANGED <<atWork, faulty>>
    PROVE  SerialInv'
<1>1. /\ tx[r] \in Transaction /\ Prepared(tx[r]) /\ tx[r].target = Unaimed
      /\ rows \in [Seqs -> Row] /\ TypeOK /\ View(r) = TableOf(tx[r])
  BY TheRequest
<1>2. /\ tx[r].step = "stamp" /\ tx[r].op = "approve" /\ tx[r].held = {}
      /\ View(r) = rows /\ CurrentAllows("APPROVED")
  BY <1>1 DEF Stamp, Prepared, Reading, Untouched, IInv, Accounted
<1>. DEFINE after == [Goto(r, "approve") EXCEPT !.referral = "COMPLETED"]
<1>3. /\ after \in Transaction /\ after.op = "approve"
      /\ after.step = "approve" /\ after.target = Unaimed
      /\ after.held = tx[r].held /\ after.work = tx[r].work
      /\ after.referral = "COMPLETED"
  <2>1. /\ Goto(r, "approve") \in Transaction
        /\ SameEffects(Goto(r, "approve"), tx[r])
        /\ Goto(r, "approve").held = tx[r].held
        /\ Goto(r, "approve").work = tx[r].work
        /\ Goto(r, "approve").step = "approve"
    BY <1>1, GotoFields DEF Steps
  <2>. QED
    BY <1>2, <2>1 DEF SameEffects, Transaction, ReferralEffects
<1>. HIDE DEF after
<1>4. PICK u \in 0..MaxSeq :
         /\ IsCurrent(rows, u)
         /\ Write(r, u, [RowAt(rows, u) EXCEPT !.status = "APPROVED",
                                               !.approved = TRUE], after)
  BY <1>1, <1>2 DEF Stamp, Target, after
<1>5. PICK s \in Seqs : IsCurrent(rows, s) /\ Allowed(rows[s].status, "APPROVED")
  BY <1>2 DEF CurrentAllows
<1>6. u = s /\ rows[s].status = "AWAITING_APPROVAL" /\ RowAt(rows, s) = rows[s]
  BY <1>4, <1>5, CurrentUnique DEF Seqs, Allowed, Previous, RowAt
<1>. DEFINE row == [rows[s] EXCEPT !.status = "APPROVED", !.approved = TRUE]
<1>7. row \in Row /\ View(r)[s] # NoRow
  <2>1. rows[s] \in Row
    BY <1>1
  <2>2. row \in Row
    BY <2>1 DEF Row, Statuses
  <2>3. rows[s] # NoRow
    BY <1>6 DEF NoRow, Undefined
  <2>. QED
    BY <1>2, <2>2, <2>3
<1>8. Write(r, s, row, after)
  BY <1>4, <1>6
<1>. HIDE DEF row
<1>9. PICK t \in Transaction :
         /\ tx' = [tx EXCEPT ![r] = t]
         /\ t.held = tx[r].held \cup {s} /\ t.work[s] = row
         /\ t.op = after.op /\ t.step = after.step
         /\ t.target = after.target /\ t.referral = after.referral
  BY <1>1, <1>3, <1>7, <1>8, RowWritten
<1>10. Stamped(t)
  BY <1>2, <1>5, <1>6, <1>9 DEF Stamped, row
<1>11. Prepared(t)
  BY <1>3, <1>9, <1>10 DEF Prepared, Reading
<1>12. ~Unsettled(tx[r])
  BY <1>2 DEF Unsettled
<1>. QED
  BY <1>9, <1>11, <1>12, OwnStepSerial

\* The number of the assessment just created goes on the submitted row.
LEMMA NumberRecorded ==
    ASSUME IInv, SerialInv, NEW r \in Requests, RecordNomisSeq(r)
    PROVE  \E t \in Transaction, s \in Seqs, row \in Row :
         /\ tx' = [tx EXCEPT ![r] = t]
         /\ IsCurrent(rows, s) /\ rows[s].status \in InProgress
         /\ Allowed(rows[s].status, "AWAITING_APPROVAL")
         /\ Changed(t, s, row)
         /\ row.status = "AWAITING_APPROVAL" /\ row.nomisSeq = tx[r].made
         /\ row.approved = rows[s].approved /\ row.catType = rows[s].catType
         /\ t.op = tx[r].op /\ t.step = "commit"
         /\ t.target = Unaimed /\ t.referral = "KEEP"
<1>1. /\ tx[r] \in Transaction /\ Prepared(tx[r]) /\ tx[r].target = Unaimed
      /\ rows \in [Seqs -> Row] /\ TableShaped(rows) /\ TableBacked(rows)
      /\ TypeOK /\ View(r) = TableOf(tx[r]) /\ View(r) \in [Seqs -> Row]
  BY TheRequest
<1>2. /\ tx[r].step = "record" /\ Submitted(tx[r])
      /\ LatestPending(tx[r].made)
      /\ tx[r].made # 0 /\ tx[r].made \in 0..MaxNomis
      /\ \A s \in Seqs : rows[s].status \in InProgress => rows[s].nomisSeq = 0
  BY <1>1 DEF RecordNomisSeq, Prepared, IInv, Accounted, MadeAccounted,
              Transaction
<1>3. tx[r].referral = "KEEP"
  BY <1>1, <1>2 DEF Prepared
<1>. DEFINE made == tx[r].made
            after == Goto(r, "commit")
<1>4. PICK s \in Seqs :
         /\ IsCurrent(rows, s)
         /\ Allowed(rows[s].status, "AWAITING_APPROVAL")
         /\ View(r) = [rows EXCEPT ![s] =
                          [rows[s] EXCEPT !.status = "AWAITING_APPROVAL"]]
  <2>1. \A s \in Seqs : rows[s].status # "AWAITING_APPROVAL"
    BY <1>1, <1>2 DEF TableShaped, RowShaped, InProgress
  <2>. QED
    BY <1>1, <1>2, <2>1 DEF Submitted, Changed
<1>5. rows[s].status \in InProgress
  BY <1>4, AllowedFrom DEF Statuses, InProgress
<1>. DEFINE submitted == [rows[s] EXCEPT !.status = "AWAITING_APPROVAL"]
            row == [submitted EXCEPT !.nomisSeq = made]
<1>6. /\ submitted.status = "AWAITING_APPROVAL"
      /\ row.status = "AWAITING_APPROVAL" /\ row.nomisSeq = made
      /\ row.approved = rows[s].approved /\ row.catType = rows[s].catType
      /\ row \in Row
  BY <1>1, <1>2 DEF Row, Statuses, InProgress
<1>8. View(r)[s] = submitted /\ \A u \in Seqs : u # s => View(r)[u] = rows[u]
  BY <1>1, <1>4
<1>. HIDE DEF submitted, row
<1>9. IsCurrent(View(r), s)
  BY <1>4, <1>6, <1>8 DEF IsCurrent, Hidden, Seqs, Undefined
<1>10. /\ after \in Transaction /\ after.op = tx[r].op /\ after.step = "commit"
       /\ after.held = tx[r].held /\ after.work = tx[r].work
       /\ after.target = Unaimed /\ after.referral = "KEEP"
  BY <1>1, <1>3, GotoFields DEF Steps, SameEffects
<1>. HIDE DEF after
<1>11. Write(r, s, row, after)
  <2>1. PICK u \in 0..MaxSeq :
           /\ IsCurrent(View(r), u)
           /\ Write(r, u, [RowAt(View(r), u) EXCEPT !.nomisSeq = made], after)
    BY <1>1 DEF RecordNomisSeq, Target, after
  <2>2. u = s
    BY <1>9, <2>1, CurrentUnique DEF Seqs
  <2>. QED
    BY <1>8, <2>1, <2>2 DEF RowAt, row
<1>12. View(r)[s] # NoRow
  BY <1>6, <1>8 DEF NoRow, Undefined
<1>13. PICK t \in Transaction :
         /\ tx' = [tx EXCEPT ![r] = t]
         /\ TableOf(t) = [TableOf(tx[r]) EXCEPT ![s] = row]
         /\ t.op = after.op /\ t.step = after.step
         /\ t.target = after.target /\ t.referral = after.referral
  <2>1. TypeOK /\ row \in Row
    BY <1>1, <1>6
  <2>2. after \in Transaction /\ after.held = tx[r].held /\ after.work = tx[r].work
    BY <1>10
  <2>. QED
    BY <1>11, <1>12, <2>1, <2>2, RowWritten
<1>14. Changed(t, s, row)
  BY <1>1, <1>4, <1>13 DEF Changed
<1>. QED
  BY <1>4, <1>5, <1>6, <1>10, <1>13, <1>14

LEMMA RecordSerial ==
    ASSUME OneAtATime, IInv, SerialInv, NEW r \in Requests, RecordNomisSeq(r),
           UNCHANGED <<rows, referral, riskChange, nomis, approvedFor>>,
           UNCHANGED <<atWork, faulty>>
    PROVE  SerialInv'
<1>1. PICK t \in Transaction, s \in Seqs, row \in Row :
         /\ tx' = [tx EXCEPT ![r] = t]
         /\ IsCurrent(rows, s) /\ rows[s].status \in InProgress
         /\ Allowed(rows[s].status, "AWAITING_APPROVAL")
         /\ Changed(t, s, row)
         /\ row.status = "AWAITING_APPROVAL" /\ row.nomisSeq = tx[r].made
         /\ row.approved = rows[s].approved /\ row.catType = rows[s].catType
         /\ t.op = tx[r].op /\ t.step = "commit"
         /\ t.target = Unaimed /\ t.referral = "KEEP"
  BY NumberRecorded
<1>2. /\ tx[r].step = "record" /\ LatestPending(tx[r].made)
      /\ tx[r].made # 0 /\ TableShaped(rows)
  BY TheRequest DEF RecordNomisSeq, Prepared, IInv, Accounted, MadeAccounted
<1>3. ~rows[s].approved
  BY <1>1, <1>2, InProgressFacts DEF TableShaped, RowShaped
<1>4. RowShaped(row) /\ RowBacked(row, s)
  BY <1>1, <1>2, <1>3 DEF RowShaped, RowBacked, Backed, Undefined
<1>5. Ready(t)
  BY <1>1, <1>2, <1>4, ReadyUpdate DEF Statuses, InProgress
<1>6. Prepared(t)
  BY <1>1, <1>5 DEF Prepared, Reading
<1>7. ~Unsettled(tx[r])
  BY <1>2 DEF Unsettled
<1>. QED
  BY <1>1, <1>6, <1>7, OwnStepSerial

\* The next row is opened.
LEMMA OpenSerial ==
    ASSUME OneAtATime, IInv, SerialInv, NEW r \in Requests, Open(r),
           UNCHANGED <<rows, referral, riskChange, nomis, approvedFor>>,
           UNCHANGED <<atWork, faulty>>
    PROVE  SerialInv'
<1>1. /\ tx[r] \in Transaction /\ Prepared(tx[r]) /\ tx[r].target = Unaimed
      /\ rows \in [Seqs -> Row] /\ TypeOK /\ View(r) = TableOf(tx[r])
  BY TheRequest
<1>2. /\ tx[r].step = "open" /\ View(r) = rows /\ NothingInProgress(rows)
      /\ tx[r].referral = "KEEP" \/ tx[r].op = "cancel"
      /\ TableOf(tx[r]) = rows
  BY <1>1 DEF Open, Prepared, Reading, Untouched
<1>3. tx[r].referral = "KEEP"
  BY <1>1, <1>2 DEF Prepared
<1>4. PICK n \in Seqs, status \in {"STARTED", "SECURITY_AUTO"},
           catType \in {"INITIAL", "RECAT"} :
         /\ IsNext(rows, n)
         /\ tx' = [tx EXCEPT ![r] =
                [Goto(r, "readReferral") EXCEPT
                    !.status = status,
                    !.held = @ \cup {n},
                    !.work[n] = [NoRow EXCEPT !.status = status,
                                              !.catType = catType]]]
  BY <1>1, <1>2 DEF Open
<1>. DEFINE row == [NoRow EXCEPT !.status = status, !.catType = catType]
            t == [Goto(r, "readReferral") EXCEPT
                    !.status = status, !.held = @ \cup {n}, !.work[n] = row]
<1>5. /\ Goto(r, "readReferral") \in Transaction
      /\ SameEffects(Goto(r, "readReferral"), tx[r])
      /\ Goto(r, "readReferral").held = tx[r].held
      /\ Goto(r, "readReferral").work = tx[r].work
      /\ Goto(r, "readReferral").step = "readReferral"
      /\ Goto(r, "readReferral").referral = tx[r].referral
  BY <1>1, GotoFields DEF Steps
<1>. HIDE DEF row
<1>6. /\ t.step = "readReferral" /\ t.status = status /\ t.op = tx[r].op
      /\ t.held = tx[r].held \cup {n}
      /\ t.work = [tx[r].work EXCEPT ![n] = row]
      /\ t.referral = "KEEP" /\ t.target = Unaimed
  BY <1>3, <1>5 DEF SameEffects, Transaction
<1>7. tx' = [tx EXCEPT ![r] = t]
  BY <1>4 DEF row
<1>. HIDE DEF t
<1>8. Changed(t, n, row)
  <2>1. tx[r].work \in [Seqs -> Row]
    BY <1>1 DEF Transaction
  <2>. QED
    BY <1>1, <1>2, <1>6, <2>1 DEF Changed, TableOf
<1>9. Opened(t)
  BY <1>2, <1>4, <1>8 DEF Opened, row
<1>10. Prepared(t)
  BY <1>6, <1>9 DEF Prepared, Reading
<1>11. ~Unsettled(tx[r])
  BY <1>2 DEF Unsettled
<1>. QED
  BY <1>7, <1>10, <1>11, OwnStepSerial

\* A row that has been opened, and may have been referred since.
LEMMA OpenedRow ==
    ASSUME NEW status \in {"STARTED", "SECURITY_AUTO", "SECURITY_FLAGGED"},
           NEW catType \in {"INITIAL", "RECAT"}, NEW row,
           row = [NoRow EXCEPT !.status = status, !.catType = catType]
    PROVE  /\ row \in Row /\ RowShaped(row) /\ row.nomisSeq = 0
           /\ ~row.approved /\ row.status = status /\ row # NoRow
<1>1. NoRow \in Row
  BY NoRowType
<1>2. /\ row.status = status /\ row.catType = catType
      /\ row.nomisSeq = 0 /\ row.approved = FALSE
      /\ status # Undefined /\ status \in Statuses
  BY DEF NoRow, Undefined, Statuses, InProgress
<1>3. row \in Row
  BY <1>1, <1>2 DEF Row
<1>4. RowShaped(row) /\ row # NoRow
  BY <1>2 DEF RowShaped, NoRow
<1>. QED
  BY <1>2, <1>3, <1>4

\* The referral is looked for; only a row just opened can take up a new one.
LEMMA ReadReferralSerial ==
    ASSUME OneAtATime, IInv, SerialInv, NEW r \in Requests, ReadReferral(r),
           UNCHANGED <<rows, referral, riskChange, nomis, approvedFor>>,
           UNCHANGED <<atWork, faulty>>
    PROVE  SerialInv'
<1>1. /\ tx[r] \in Transaction /\ Prepared(tx[r])
      /\ rows \in [Seqs -> Row] /\ ReferralSound(rows, referral)
  BY TheRequest DEF SerialInv
<1>2. /\ tx[r].step = "readReferral" /\ tx[r].referral = "KEEP"
      /\ \/ Opened(tx[r]) /\ tx[r].status \in {"STARTED", "SECURITY_AUTO"}
         \/ Untouched(tx[r]) /\ ~NothingInProgress(rows)
  BY <1>1 DEF ReadReferral, Prepared
<1>3. ~Unsettled(tx[r])
  BY <1>2 DEF Unsettled
<1>4. CASE Rollback(r)
  BY <1>3, <1>4, RollbackSerial
<1>5. CASE ~Rollback(r)
  <2>1. PICK step \in {"commit", "flag"} :
           /\ tx' = [tx EXCEPT ![r] = Goto(r, step)]
           /\ step = "flag" => referral = "NEW"
           /\ step = "commit" => \/ referral # "NEW"
                                 \/ Repeated(tx[r].status, "SECURITY_FLAGGED")
    BY <1>5 DEF ReadReferral
  <2>. DEFINE t == Goto(r, step)
  <2>2. /\ t.op = tx[r].op /\ t.step = step /\ t.target = Unaimed
        /\ t.held = tx[r].held /\ t.work = tx[r].work /\ t.referral = "KEEP"
    BY <1>1, <1>2, GotoFields DEF Steps, SameEffects
  <2>3. tx' = [tx EXCEPT ![r] = t]
    BY <2>1
  <2>. HIDE DEF t
  <2>4. /\ Opened(t) <=> Opened(tx[r])
        /\ Untouched(t) <=> Untouched(tx[r])
    BY <2>2 DEF Opened, Untouched, Changed, TableOf
  <2>5. referral = "NEW" => Opened(tx[r])
    BY <1>1, <1>2 DEF ReferralSound
  <2>6. step = "commit" => referral # "NEW"
    BY <1>1, <1>2, <2>1
       DEF Repeated, Allowed, Previous, ReferralSound
  <2>7. step = "commit" => Ready(t)
    <3>. SUFFICES ASSUME step = "commit" PROVE Ready(t)
      OBVIOUS
    <3>1. CASE Untouched(tx[r])
      BY <1>3, <2>2, <2>4, <3>1, ReadyUntouched
    <3>2. CASE Opened(tx[r])
      <4>1. PICK n \in Seqs, status \in {"STARTED", "SECURITY_AUTO"},
                 catType \in {"INITIAL", "RECAT"} :
               /\ IsNext(rows, n) /\ NothingInProgress(rows)
               /\ Changed(t, n, [NoRow EXCEPT !.status = status,
                                              !.catType = catType])
        BY <2>4, <3>2 DEF Opened
      <4>. DEFINE row == [NoRow EXCEPT !.status = status, !.catType = catType]
      <4>2. /\ row \in Row /\ RowShaped(row) /\ row.nomisSeq = 0
            /\ ~row.approved /\ row.status = status
        BY OpenedRow
      <4>3. Changed(t, n, row)
        BY <4>1
      <4>. HIDE DEF row
      <4>. QED
        BY <2>2, <2>6, <4>1, <4>2, <4>3, ReadyOpened
    <3>. QED
      BY <1>2, <3>1, <3>2
  <2>8. Prepared(t)
    BY <2>1, <2>2, <2>4, <2>5, <2>7 DEF Prepared, Reading
  <2>. QED
    BY <1>3, <2>3, <2>8, OwnStepSerial
<1>. QED
  BY <1>4, <1>5

\* The new referral is taken up by the row just opened.
LEMMA ReferralTaken ==
    ASSUME IInv, SerialInv, NEW r \in Requests, Flag(r)
    PROVE  \E t \in Transaction, n \in Seqs, catType \in {"INITIAL", "RECAT"}, row \in Row :
         /\ tx' = [tx EXCEPT ![r] = t]
         /\ IsNext(rows, n) /\ NothingInProgress(rows)
         /\ Changed(t, n, row)
         /\ row = [NoRow EXCEPT !.status = "SECURITY_FLAGGED", !.catType = catType]
         /\ t.op = tx[r].op /\ t.step = "commit"
         /\ t.target = Unaimed /\ t.referral = "REFERRED"
<1>1. /\ tx[r] \in Transaction /\ Prepared(tx[r]) /\ tx[r].target = Unaimed
      /\ rows \in [Seqs -> Row] /\ TypeOK /\ View(r) = TableOf(tx[r])
  BY TheRequest
<1>2. tx[r].step = "flag" /\ Opened(tx[r])
  BY <1>1 DEF Flag, Prepared
<1>3. PICK n \in Seqs, status \in {"STARTED", "SECURITY_AUTO"},
           catType \in {"INITIAL", "RECAT"} :
         /\ IsNext(rows, n) /\ NothingInProgress(rows)
         /\ Changed(tx[r], n, [NoRow EXCEPT !.status = status,
                                            !.catType = catType])
  BY <1>2 DEF Opened
<1>. DEFINE opened == [NoRow EXCEPT !.status = status, !.catType = catType]
            row == [NoRow EXCEPT !.status = "SECURITY_FLAGGED",
                                 !.catType = catType]
            after == [Goto(r, "commit") EXCEPT !.referral = "REFERRED"]
<1>4. /\ opened # NoRow /\ opened.status = status
      /\ [opened EXCEPT !.status = "SECURITY_FLAGGED"] = row
  BY OpenedRow DEF NoRow
<1>5. /\ row \in Row /\ RowShaped(row) /\ row.nomisSeq = 0
      /\ ~row.approved /\ row.status = "SECURITY_FLAGGED"
  BY OpenedRow
<1>6. View(r) = [rows EXCEPT ![n] = opened]
  BY <1>1, <1>3 DEF Changed
<1>. HIDE DEF opened, row
<1>7. View(r)[n] = opened /\ \A u \in Seqs : u # n => View(r)[u] = rows[u]
  BY <1>1, <1>6
<1>8. IsCurrent(View(r), n)
  <2>1. ~Hidden(View(r), n)
    BY <1>4, <1>7 DEF Hidden, Undefined
  <2>2. \A u \in Seqs : u > n => Hidden(View(r), u)
    BY <1>3, <1>7 DEF IsNext, Hidden, NoRow, Seqs
  <2>. QED
    BY <2>1, <2>2 DEF IsCurrent
<1>9. /\ after \in Transaction /\ after.op = tx[r].op
      /\ after.step = "commit" /\ after.target = Unaimed
      /\ after.held = tx[r].held /\ after.work = tx[r].work
      /\ after.referral = "REFERRED"
  <2>1. /\ Goto(r, "commit") \in Transaction
        /\ SameEffects(Goto(r, "commit"), tx[r])
        /\ Goto(r, "commit").held = tx[r].held
        /\ Goto(r, "commit").work = tx[r].work
        /\ Goto(r, "commit").step = "commit"
    BY <1>1, GotoFields DEF Steps
  <2>. QED
    BY <2>1 DEF SameEffects, Transaction, ReferralEffects
<1>10. Write(r, n, row, after)
  <2>1. PICK u \in 0..MaxSeq :
           /\ IsCurrent(View(r), u)
           /\ Write(r, u, [RowAt(View(r), u) EXCEPT
                              !.status = "SECURITY_FLAGGED"], after)
    BY <1>1 DEF Flag, SetStatus, Target
  <2>2. u = n
    BY <1>8, <2>1, CurrentUnique DEF Seqs
  <2>. QED
    BY <1>4, <1>7, <2>1, <2>2 DEF RowAt
<1>. HIDE DEF after
<1>11. PICK t \in Transaction :
         /\ tx' = [tx EXCEPT ![r] = t]
         /\ TableOf(t) = [TableOf(tx[r]) EXCEPT ![n] = row]
         /\ t.op = after.op /\ t.step = after.step
         /\ t.target = after.target /\ t.referral = after.referral
  <2>1. TypeOK /\ View(r)[n] # NoRow
    BY <1>1, <1>4, <1>7
  <2>2. after \in Transaction /\ after.held = tx[r].held /\ after.work = tx[r].work
    BY <1>9
  <2>. QED
    BY <1>5, <1>10, <2>1, <2>2, RowWritten
<1>12. Changed(t, n, row)
  BY <1>1, <1>6, <1>11 DEF Changed
<1>. QED
  BY <1>3, <1>5, <1>9, <1>11, <1>12 DEF row

LEMMA FlagSerial ==
    ASSUME OneAtATime, IInv, SerialInv, NEW r \in Requests, Flag(r),
           UNCHANGED <<rows, referral, riskChange, nomis, approvedFor>>,
           UNCHANGED <<atWork, faulty>>
    PROVE  SerialInv'
<1>1. PICK t \in Transaction, n \in Seqs, catType \in {"INITIAL", "RECAT"}, row \in Row :
         /\ tx' = [tx EXCEPT ![r] = t]
         /\ IsNext(rows, n) /\ NothingInProgress(rows)
         /\ Changed(t, n, row)
         /\ row = [NoRow EXCEPT !.status = "SECURITY_FLAGGED", !.catType = catType]
         /\ t.op = tx[r].op /\ t.step = "commit"
         /\ t.target = Unaimed /\ t.referral = "REFERRED"
  BY ReferralTaken
<1>2. /\ RowShaped(row) /\ row.nomisSeq = 0
      /\ ~row.approved /\ row.status = "SECURITY_FLAGGED"
  BY <1>1, OpenedRow
<1>3. Ready(t)
  BY <1>1, <1>2, ReadyOpened
<1>4. Prepared(t)
  BY <1>1, <1>3 DEF Prepared, Reading
<1>5. ~Unsettled(tx[r])
  BY DEF Flag, Unsettled
<1>. QED
  BY <1>1, <1>4, <1>5, OwnStepSerial

\* A release deletes what it has listed, row by row.
LEMMA DeleteSerial ==
    ASSUME OneAtATime, IInv, SerialInv, NEW r \in Requests, Delete(r),
           UNCHANGED <<rows, referral, riskChange, nomis, approvedFor>>,
           UNCHANGED <<atWork, faulty>>
    PROVE  SerialInv'
<1>1. /\ tx[r] \in Transaction /\ Prepared(tx[r]) /\ tx[r].target = Unaimed
      /\ rows \in [Seqs -> Row] /\ TypeOK
  BY TheRequest
<1>2. /\ tx[r].step = "delete" /\ tx[r].op = "release" /\ Deleting(tx[r])
      /\ tx[r].referral = "KEEP"
  BY <1>1 DEF Delete, Prepared
<1>3. ~Unsettled(tx[r])
  BY <1>2 DEF Unsettled
<1>4. /\ tx[r].work \in [Seqs -> Row] /\ tx[r].held \subseteq Seqs
      /\ tx[r].doomed \subseteq Seqs /\ "release" \in atWork
  BY <1>1, <1>2 DEF Transaction
<1>5. CASE \E s \in tx[r].doomed :
               tx' = [tx EXCEPT ![r].held = @ \cup {s}, ![r].work[s] = NoRow,
                                ![r].doomed = @ \ {s}]
  <2>1. PICK s \in tx[r].doomed :
               tx' = [tx EXCEPT ![r].held = @ \cup {s}, ![r].work[s] = NoRow,
                                ![r].doomed = @ \ {s}]
    BY <1>5
  <2>. DEFINE t == [tx[r] EXCEPT !.held = @ \cup {s}, !.work[s] = NoRow,
                                 !.doomed = @ \ {s}]
  <2>2. /\ t.held = tx[r].held \cup {s}
        /\ t.work = [tx[r].work EXCEPT ![s] = NoRow]
        /\ t.doomed = tx[r].doomed \ {s}
        /\ t.op = "release" /\ t.step = "delete" /\ t.target = Unaimed
        /\ t.referral = "KEEP"
    BY <1>1, <1>2 DEF Transaction
  <2>3. tx' = [tx EXCEPT ![r] = t]
    BY <1>1, <2>1 DEF TypeOK
  <2>. HIDE DEF t
  <2>4. TableOf(t) = [TableOf(tx[r]) EXCEPT ![s] = NoRow]
    BY <1>1, <1>4, <2>2 DEF TableOf
  <2>5. Deleting(t)
    BY <1>2, <1>4, <2>2, <2>4 DEF Deleting
  <2>6. Prepared(t)
    BY <2>2, <2>5 DEF Prepared, Reading
  <2>. QED
    BY <1>3, <2>3, <2>6, OwnStepSerial
<1>6. CASE tx[r].doomed = {} /\ tx' = [tx EXCEPT ![r].step = "commit"]
  <2>. DEFINE t == [tx[r] EXCEPT !.step = "commit"]
  <2>1. /\ t.held = tx[r].held /\ t.work = tx[r].work
        /\ t.doomed = tx[r].doomed /\ t.op = "release" /\ t.step = "commit"
        /\ t.target = Unaimed /\ t.referral = "KEEP"
    BY <1>1, <1>2 DEF Transaction
  <2>2. tx' = [tx EXCEPT ![r] = t]
    BY <1>1, <1>6 DEF TypeOK
  <2>. HIDE DEF t
  <2>3. Deleting(t)
    BY <1>2, <2>1 DEF Deleting, TableOf
  <2>4. Ready(t)
    BY <1>4, <1>6, <2>1, <2>3, ReadyDeleted
  <2>5. Prepared(t)
    BY <2>1, <2>4 DEF Prepared, Reading
  <2>. QED
    BY <1>3, <2>2, <2>5, OwnStepSerial
<1>. QED
  BY <1>5, <1>6 DEF Delete

LEMMA DatabaseSerial ==
    ASSUME OneAtATime, IInv, SerialInv, NEW r \in Requests, DatabaseStep(r),
           UNCHANGED <<atWork, faulty>>
    PROVE  SerialInv'
<1>1. UNCHANGED <<rows, referral, riskChange, nomis, approvedFor>>
  BY DEF DatabaseStep
<1>2. CASE OpenFails(r) \/ LiteInProgress(r)
  <2>1. Rollback(r) /\ ~Unsettled(tx[r])
    BY <1>2 DEF OpenFails, LiteInProgress, Unsettled
  <2>. QED
    BY <1>1, <2>1, RollbackSerial
<1>. QED
  BY <1>1, <1>2, UpdateFormSerial, MoveSerial, RereadSerial, StampSerial,
     RecordSerial, OpenSerial, ReadReferralSerial, FlagSerial, DeleteSerial
     DEF DatabaseStep
-----------------------------------------------------------------------------
(* The calls to NOMIS *)

\* A call keeps SerialInv if NOMIS still backs the committed rows afterwards
\* and the request is prepared.
LEMMA CallSerial ==
    ASSUME OneAtATime, IInv, SerialInv, NEW r \in Requests, NEW t,
           tx' = [tx EXCEPT ![r] = t],
           UNCHANGED <<rows, referral>>,
           Dense', TableBacked(rows)', Prepared(t)',
           ~faulty => Unsettled(t) \/ NothingInProgress(rows)
                      \/ \A s \in Seqs : rows[s].status \in InProgress
                                            => rows[s].nomisSeq = 0,
           UNCHANGED <<atWork, faulty>>
    PROVE  SerialInv'
<1>1. \A q \in Requests : q = r /\ tx'[q] = t
  BY DEF OneAtATime, IInv, TypeOK
<1>2. TableSound(rows)'
  BY DEF SerialInv, TableSound, TableShaped, IsCurrent, Hidden
<1>3. ReferralSound(rows, referral)'
  BY DEF SerialInv, ReferralSound, NothingInProgress
<1>4. (~faulty /\ (\A q \in Requests : ~Unsettled(tx[q])) => Settled(rows))'
  <2>1. (\A q \in Requests : ~Unsettled(tx[q]))' => ~Unsettled(t)
    BY <1>1 DEF Unsettled
  <2>. QED
    BY <2>1 DEF Settled, NothingInProgress
<1>5. (\A q \in Requests : Prepared(tx[q]))'
  BY <1>1
<1>. QED
  BY <1>2, <1>3, <1>4, <1>5 DEF SerialInv

\* The request goes on, with what it has written.
SameWork(t, u) == /\ t.op = u.op /\ t.status = u.status /\ t.seq = u.seq
                  /\ t.target = u.target /\ t.held = u.held /\ t.work = u.work
                  /\ t.referral = u.referral

LEMMA SameWorkFacts ==
    ASSUME NEW t, NEW u, SameWork(t, u)
    PROVE  /\ TableOf(t) = TableOf(u)
           /\ Submitted(t) <=> Submitted(u)
           /\ Stamped(t) <=> Stamped(u)
<1>1. TableOf(t) = TableOf(u)
  BY DEF SameWork, TableOf
<1>. QED
  BY <1>1 DEF SameWork, Submitted, Stamped, Untouched, Changed

LEMMA StepTaken ==
    ASSUME IInv, NEW r \in Requests, NEW step,
           tx' = [tx EXCEPT ![r].step = step]
    PROVE  \E t : /\ tx' = [tx EXCEPT ![r] = t]
                  /\ t.step = step /\ SameWork(t, tx[r])
<1>. DEFINE t == tx'[r]
<1>1. tx[r] \in Transaction /\ tx \in [Requests -> Transaction]
  BY DEF IInv, TypeOK
<1>2. tx' = [tx EXCEPT ![r] = t]
  BY <1>1
<1>3. t.step = step /\ SameWork(t, tx[r])
  BY <1>1 DEF Transaction, SameWork
<1>. QED
  BY <1>2, <1>3

\* A categorisation that is submitted again keeps its assessment.
LEMMA ResubmitSerial ==
    ASSUME OneAtATime, IInv, SerialInv, NEW r \in Requests,
           tx[r].step = "submit", tx[r].seq # 0,
           tx' = [tx EXCEPT ![r].step = "commit"],
           UNCHANGED <<rows, referral, riskChange, nomis, approvedFor>>,
           UNCHANGED <<atWork, faulty>>
    PROVE  SerialInv'
<1>1. /\ tx[r] \in Transaction /\ Prepared(tx[r]) /\ TypeOK
      /\ rows \in [Seqs -> Row] /\ TableShaped(rows) /\ TableBacked(rows)
  BY TheRequest
<1>2. /\ tx[r].op = "submit" /\ Submitted(tx[r]) /\ SeqHolds(tx[r])
      /\ tx[r].referral = "KEEP" /\ tx[r].target = Unaimed
  BY <1>1 DEF Prepared
<1>3. ~Unsettled(tx[r])
  BY DEF Unsettled
<1>4. PICK t : /\ tx' = [tx EXCEPT ![r] = t]
              /\ t.step = "commit" /\ SameWork(t, tx[r])
  BY StepTaken
<1>5. /\ t.step = "commit" /\ t.op = "submit" /\ t.target = Unaimed
      /\ t.referral = "KEEP" /\ Submitted(t)
  BY <1>2, <1>4, SameWorkFacts DEF SameWork
<1>6. PICK s \in Seqs :
         /\ IsCurrent(rows, s)
         /\ \/ rows[s].status = "AWAITING_APPROVAL" /\ Untouched(t)
            \/ /\ Allowed(rows[s].status, "AWAITING_APPROVAL")
               /\ Changed(t, s, [rows[s] EXCEPT !.status = "AWAITING_APPROVAL"])
  BY <1>5 DEF Submitted
<1>7. Ready(t)
  <2>1. CASE Untouched(t)
    BY <1>3, <1>5, <2>1, ReadyUntouched
  <2>2. CASE /\ Allowed(rows[s].status, "AWAITING_APPROVAL")
             /\ Changed(t, s, [rows[s] EXCEPT !.status = "AWAITING_APPROVAL"])
    <3>. DEFINE row == [rows[s] EXCEPT !.status = "AWAITING_APPROVAL"]
    <3>1. rows[s].status \in InProgress
      BY <2>2, AllowedFrom DEF Statuses, InProgress
    <3>2. rows[s].nomisSeq # 0
      BY <1>2, <1>6 DEF SeqHolds, RowAt, Seqs
    <3>3. /\ rows[s] \in Row /\ RowShaped(rows[s]) /\ RowBacked(rows[s], s)
      BY <1>1 DEF TableShaped, TableBacked
    <3>4. /\ row \in Row /\ row.status = "AWAITING_APPROVAL"
          /\ row.nomisSeq = rows[s].nomisSeq
          /\ row.approved = rows[s].approved
      BY <3>3 DEF Row, Statuses, InProgress
    <3>5. Changed(t, s, row)
      BY <2>2
    <3>. HIDE DEF row
    <3>6. RowShaped(row) /\ RowBacked(row, s)
      BY <3>1, <3>2, <3>3, <3>4, InProgressFacts
         DEF RowShaped, RowBacked, Undefined
    <3>7. ~faulty => LatestPending(row.nomisSeq)
      BY <1>3, <3>1, <3>2, <3>4, SettledNow DEF Settled
    <3>. QED
      BY <1>5, <2>2, <3>1, <3>4, <3>5, <3>6, <3>7, ReadyUpdate
         DEF Statuses, InProgress
  <2>. QED
    BY <1>6, <2>1, <2>2
<1>8. Prepared(t)
  BY <1>5, <1>7 DEF Prepared, Reading
<1>. QED
  BY <1>3, <1>4, <1>8, OwnStepSerial

\* A new assessment is the latest that is pending.
LEMMA CreateSerial ==
    ASSUME OneAtATime, IInv, SerialInv, NEW r \in Requests,
           tx[r].step = "submit", tx[r].seq = 0, NEW k \in Assessments,
           nomis[k] = "NONE",
           \A j \in Assessments : j < k => nomis[j] # "NONE",
           nomis' = [nomis EXCEPT ![k] = "PENDING"],
           tx' = [tx EXCEPT ![r].step = "record", ![r].made = k],
           UNCHANGED <<rows, referral, riskChange, approvedFor>>,
           UNCHANGED <<atWork, faulty>>
    PROVE  SerialInv'
<1>1. /\ tx[r] \in Transaction /\ Prepared(tx[r]) /\ TypeOK
      /\ rows \in [Seqs -> Row] /\ TableShaped(rows) /\ TableBacked(rows)
      /\ Dense
  BY TheRequest DEF SerialInv
<1>2. /\ tx[r].op = "submit" /\ Submitted(tx[r]) /\ SeqHolds(tx[r])
      /\ tx[r].referral = "KEEP" /\ tx[r].target = Unaimed
  BY <1>1 DEF Prepared
<1>3. PICK t : /\ tx' = [tx EXCEPT ![r] = t]
              /\ t.step = "record" /\ t.made = k /\ SameWork(t, tx[r])
  <2>. DEFINE t == tx'[r]
  <2>1. tx' = [tx EXCEPT ![r] = t]
    BY <1>1 DEF TypeOK
  <2>2. t.step = "record" /\ t.made = k /\ SameWork(t, tx[r])
    BY <1>1 DEF TypeOK, Transaction, SameWork
  <2>. QED
    BY <2>1, <2>2
<1>4. /\ t.step = "record" /\ t.op = "submit" /\ t.target = Unaimed
      /\ t.referral = "KEEP" /\ Submitted(t) /\ t.made = k
  BY <1>2, <1>3, SameWorkFacts DEF SameWork
<1>5. /\ nomis'[k] = "PENDING" /\ \A j \in Assessments : j # k => nomis'[j] = nomis[j]
  BY <1>1 DEF TypeOK
<1>6. \A j \in Assessments : j > k => nomis'[j] = "NONE"
  BY <1>1, <1>5 DEF Dense, Assessments
<1>7. Dense'
  BY <1>1, <1>5 DEF Dense, Assessments
<1>8. LatestPending(k)'
  BY <1>5, <1>6 DEF LatestPending
<1>9. \A s \in Seqs : rows[s].status \in InProgress => rows[s].nomisSeq = 0
  BY <1>1, <1>2 DEF TableShaped, SeqHolds, RowAt, Seqs
<1>10. TableBacked(rows)'
  BY <1>1, <1>9 DEF TableBacked, RowBacked
<1>11. Submitted(t)'
  BY <1>4 DEF Submitted, Untouched, Changed, TableOf, IsCurrent, Hidden
<1>12. Prepared(t)'
  BY <1>4, <1>8, <1>9, <1>11 DEF Prepared, Reading
<1>. QED
  BY <1>3, <1>7, <1>9, <1>10, <1>12, CallSerial

LEMMA SubmitSerial ==
    ASSUME OneAtATime, IInv, SerialInv, NEW r \in Requests, NomisSubmit(r),
           UNCHANGED <<atWork, faulty>>
    PROVE  SerialInv'
<1>1. CASE Rollback(r) /\ UNCHANGED nomis
  <2>1. ~Unsettled(tx[r])
    BY DEF NomisSubmit, Unsettled
  <2>. QED
    BY <1>1, <2>1, RollbackSerial DEF NomisSubmit
<1>2. CASE ~(Rollback(r) /\ UNCHANGED nomis) /\ tx[r].seq # 0
  BY <1>2, ResubmitSerial DEF NomisSubmit
<1>3. CASE ~(Rollback(r) /\ UNCHANGED nomis) /\ tx[r].seq = 0
  BY <1>3, CreateSerial DEF NomisSubmit
<1>. QED
  BY <1>1, <1>2, <1>3

\* NOMIS approves the assessment that the stamped row names.
LEMMA ApproveSerial ==
    ASSUME OneAtATime, IInv, SerialInv, NEW r \in Requests, NomisApprove(r),
           UNCHANGED <<atWork, faulty>>
    PROVE  SerialInv'
<1>1. /\ tx[r] \in Transaction /\ Prepared(tx[r]) /\ TypeOK
      /\ rows \in [Seqs -> Row] /\ TableShaped(rows) /\ TableBacked(rows)
      /\ Dense /\ ReferralSound(rows, referral) /\ CreditIsApproved
  BY TheRequest DEF SerialInv, IInv
<1>2. /\ tx[r].step = "approve" /\ tx[r].op = "approve"
      /\ tx[r].target = Unaimed
      /\ \/ Stamped(tx[r]) /\ tx[r].referral = "COMPLETED"
         \/ /\ Untouched(tx[r]) /\ NothingInProgress(rows)
            /\ tx[r].referral = "KEEP"
  BY <1>1 DEF NomisApprove, Prepared
<1>3. CASE ApprovalRefused(r) /\ UNCHANGED <<nomis, approvedFor>>
  <2>1. ~Unsettled(tx[r])
    BY <1>2 DEF Unsettled
  <2>. QED
    BY <1>3, <2>1, RollbackSerial DEF NomisApprove, ApprovalRefused
<1>4. CASE ~(ApprovalRefused(r) /\ UNCHANGED <<nomis, approvedFor>>)
  <2>1. PICK k \in Assessments, s \in 0..MaxSeq :
           /\ LatestPending(k)
           /\ tx[r].held = {s} \ {0}
           /\ nomis' = [nomis EXCEPT ![k] = "APPROVED"]
           /\ approvedFor' = [approvedFor EXCEPT ![k] = s]
           /\ tx' = [tx EXCEPT ![r].step = "commit"]
    BY <1>4 DEF NomisApprove
  <2>2. UNCHANGED <<rows, referral>>
    BY DEF NomisApprove
  <2>3. PICK t : /\ tx' = [tx EXCEPT ![r] = t]
                /\ t.step = "commit" /\ SameWork(t, tx[r])
    BY <2>1, StepTaken
  <2>4. /\ t.step = "commit" /\ t.op = "approve" /\ t.target = Unaimed
        /\ t.referral = tx[r].referral /\ TableOf(t) = TableOf(tx[r])
        /\ t.held = tx[r].held /\ t.work = tx[r].work
    BY <1>2, <2>3, SameWorkFacts DEF SameWork
  <2>5. /\ nomis'[k] = "APPROVED" /\ approvedFor'[k] = s
        /\ \A j \in Assessments : j # k => /\ nomis'[j] = nomis[j]
                                           /\ approvedFor'[j] = approvedFor[j]
        /\ nomis[k] = "PENDING" /\ approvedFor[k] = 0
    BY <1>1, <2>1 DEF TypeOK, LatestPending, CreditIsApproved
  <2>6. Dense'
    BY <1>1, <2>5 DEF Dense
  <2>7. \A j \in Assessments, u \in Seqs :
           approvedFor[j] = u => approvedFor'[j] = u
    BY <2>5 DEF Seqs
  <2>8. \A u \in Seqs : rows[u].nomisSeq \in Assessments \cup {0}
    BY <1>1 DEF Row, Assessments
  <2>9. CASE Untouched(tx[r]) /\ NothingInProgress(rows) /\ tx[r].referral = "KEEP"
    <3>1. \A u \in Seqs : RowBacked(rows[u], u)'
      BY <1>1, <2>2, <2>7, <2>8, <2>9
         DEF RowBacked, NothingInProgress, TableBacked, TableShaped, RowShaped
    <3>2. TableBacked(rows)'
      BY <2>2, <3>1 DEF TableBacked
    <3>3. TableOf(t)' = rows
      BY <2>2, <2>4, <2>9 DEF TableOf, Untouched
    <3>4. Ready(t)'
      <4>1. TableShaped(rows)'
        BY <1>1, <2>2 DEF TableShaped, IsCurrent, Hidden
      <4>2. ReferralAfter(t.referral)' = referral
        BY <2>2, <2>4, <2>9 DEF ReferralAfter
      <4>3. ReferralSound(rows, referral)' /\ Settled(rows)'
        BY <1>1, <2>2, <2>9 DEF ReferralSound, NothingInProgress, Settled
      <4>4. Follows(rows, rows)'
        BY DEF Follows
      <4>. QED
        BY <2>2, <3>2, <3>3, <4>1, <4>2, <4>3, <4>4 DEF Ready, TableSound
    <3>5. Prepared(t)'
      BY <2>4, <3>4 DEF Prepared, Reading
    <3>. QED
      BY <2>2, <2>3, <2>6, <2>9, <3>2, <3>5, CallSerial
  <2>10. CASE Stamped(tx[r])
    <3>1. PICK u \in Seqs :
             /\ IsCurrent(rows, u) /\ rows[u].status = "AWAITING_APPROVAL"
             /\ tx[r].held = {u}
             /\ tx[r].work[u] = [rows[u] EXCEPT !.status = "APPROVED",
                                                !.approved = TRUE]
      BY <2>10 DEF Stamped
    <3>2. u = s
      BY <2>1, <3>1
    <3>. DEFINE row == [rows[s] EXCEPT !.status = "APPROVED", !.approved = TRUE]
                m == rows[s].nomisSeq
    <3>3. s \in Seqs /\ rows[s].status = "AWAITING_APPROVAL"
          /\ tx[r].held = {s} /\ tx[r].work[s] = row
      BY <3>1, <3>2
    <3>4. rows[s].status \in InProgress
      BY <3>3 DEF InProgress
    <3>5. m # 0 /\ Backed(m, s) /\ m \in Assessments
      BY <1>1, <2>8, <3>3, <3>4
         DEF TableShaped, RowShaped, TableBacked, RowBacked
    <3>6. approvedFor'[m] = s
      <4>1. CASE LatestPending(m)
        <5>1. m = k
          BY <2>1, <3>5, <4>1 DEF LatestPending, Assessments
        <5>. QED
          BY <2>5, <5>1
      <4>2. CASE approvedFor[m] = s
        BY <2>7, <3>3, <3>5, <4>2
      <4>3. CASE \A j \in Assessments : nomis[j] # "PENDING"
        BY <2>5, <4>3
      <4>. QED
        BY <3>5, <4>1, <4>2, <4>3 DEF Backed
    <3>7. \A v \in Seqs : rows[v].status \in InProgress => v = s
      BY <1>1, <3>3, <3>4, OneUnderWay
    <3>8. \A v \in Seqs : RowBacked(rows[v], v)'
      <4>. SUFFICES ASSUME NEW v \in Seqs PROVE RowBacked(rows[v], v)'
        OBVIOUS
      <4>1. rows[v].approved => approvedFor'[rows[v].nomisSeq] = v
        BY <1>1, <2>7, <2>8 DEF TableBacked, RowBacked, TableShaped, RowShaped
      <4>2. rows[v].status \in InProgress => Backed(rows[v].nomisSeq, v)'
        BY <2>2, <3>6, <3>7 DEF Backed
      <4>. QED
        BY <2>2, <4>1, <4>2 DEF RowBacked
    <3>9. TableBacked(rows)'
      BY <2>2, <3>8 DEF TableBacked
    <3>10. /\ row \in Row /\ row.status = "APPROVED" /\ row.approved = TRUE
           /\ row.nomisSeq = m
      <4>1. rows[s] \in Row
        BY <1>1, <3>3
      <4>. QED
        BY <4>1 DEF Row, Statuses
    <3>. DEFINE new == [rows EXCEPT ![s] = row]
    <3>11. TableOf(t)' = new
      BY <1>1, <2>2, <2>4, <3>3 DEF TableOf
    <3>12. /\ new[s] = row /\ \A v \in Seqs : v # s => new[v] = rows[v]
      BY <1>1, <3>3
    <3>. HIDE DEF row, m
    <3>13. RowShaped(row)
      BY <3>5, <3>10 DEF RowShaped, Undefined, m
    <3>14. TableShaped(new)
      BY <1>1, <3>3, <3>4, <3>10, <3>13, UpdateShaped
    <3>15. Follows(rows, new)
      <4>1. StatusOf(new) = [StatusOf(rows) EXCEPT ![s] = "APPROVED"]
        BY <1>1, <3>3, <3>10 DEF StatusOf
      <4>2. Allowed(rows[s].status, "APPROVED") /\ "APPROVED" \in Statuses
        BY <3>3 DEF Allowed, Previous, Statuses
      <4>3. rows[s].status # Undefined
        BY <3>3 DEF Undefined
      <4>. QED
        BY <3>3, <4>1, <4>2, <4>3 DEF Follows
    <3>. HIDE DEF new
    <3>16. NothingInProgress(new)
      BY <3>7, <3>10, <3>12, InProgressFacts DEF NothingInProgress
    <3>17. \A v \in Seqs : RowBacked(new[v], v)'
      <4>. SUFFICES ASSUME NEW v \in Seqs PROVE RowBacked(new[v], v)'
        OBVIOUS
      <4>1. new' = new
        BY <2>2 DEF new, row
      <4>2. CASE v = s
        BY <3>6, <3>10, <3>12, <4>1, <4>2, InProgressFacts DEF RowBacked
      <4>3. CASE v # s
        <5>1. new[v] = rows[v] /\ rows[v]' = rows[v]
          BY <2>2, <3>12, <4>3
        <5>. QED
          BY <3>8, <4>1, <5>1 DEF RowBacked
      <4>. QED
        BY <4>2, <4>3
    <3>18. Ready(t)'
      <4>1. TableShaped(TableOf(t))'
        BY <3>11, <3>14 DEF TableShaped, IsCurrent, Hidden
      <4>2. TableBacked(TableOf(t))'
        <5>1. new' = new
          BY <2>2 DEF new, row
        <5>. QED
          BY <3>11, <3>17, <5>1 DEF TableBacked
      <4>3. Follows(rows, TableOf(t))'
        BY <2>2, <3>11, <3>15 DEF Follows, StatusOf, IsNext, NothingInProgress
      <4>4. Settled(TableOf(t))'
        BY <3>11, <3>16 DEF Settled, NothingInProgress
      <4>5. ReferralSound(TableOf(t), ReferralAfter(t.referral))'
        <5>1. referral # "NEW" /\ (referral = "REFERRED" => tx[r].referral = "COMPLETED")
          BY <1>1, <1>2, <3>3, <3>4 DEF ReferralSound, NothingInProgress
        <5>2. ReferralAfter(t.referral)' \notin {"NEW", "REFERRED"}
          BY <1>2, <2>2, <2>4, <5>1 DEF ReferralAfter
        <5>. QED
          BY <5>2 DEF ReferralSound
      <4>. QED
        BY <4>1, <4>2, <4>3, <4>4, <4>5 DEF Ready, TableSound
    <3>19. Prepared(t)'
      BY <2>4, <3>18 DEF Prepared, Reading
    <3>20. Unsettled(t)
      BY <2>4 DEF Unsettled
    <3>. QED
      BY <2>2, <2>3, <2>6, <3>9, <3>19, <3>20, CallSerial
  <2>. QED
    BY <1>2, <2>9, <2>10
<1>. QED
  BY <1>3, <1>4

\* NOMIS takes the categorisation back; the row is already written.
LEMMA RejectSerial ==
    ASSUME OneAtATime, IInv, SerialInv, NEW r \in Requests, NomisReject(r),
           UNCHANGED <<atWork, faulty>>
    PROVE  SerialInv'
<1>1. /\ Prepared(tx[r]) /\ tx[r].step = "reject" /\ ~Unsettled(tx[r])
      /\ UNCHANGED <<rows, referral, nomis, approvedFor>>
  BY TheRequest DEF NomisReject, Unsettled
<1>2. CASE Rollback(r)
  BY <1>1, <1>2, RollbackSerial
<1>3. CASE tx' = [tx EXCEPT ![r].step = "commit"]
  <2>1. PICK t : /\ tx' = [tx EXCEPT ![r] = t]
                /\ t.step = "commit" /\ SameWork(t, tx[r])
    BY <1>3, StepTaken
  <2>2. Ready(t)
    BY <1>1, <2>1, SameWorkFacts DEF SameWork, Prepared, Ready
  <2>3. Prepared(t)
    BY <1>1, <2>1, <2>2 DEF SameWork, Prepared, Reading
  <2>. QED
    BY <1>1, <2>1, <2>3, OwnStepSerial
<1>. QED
  BY <1>2, <1>3 DEF NomisReject

\* A cancellation leaves nothing pending in NOMIS.
LEMMA InactivateSerial ==
    ASSUME OneAtATime, IInv, SerialInv, NEW r \in Requests, NomisInactivate(r),
           UNCHANGED <<atWork, faulty>>
    PROVE  SerialInv'
<1>1. /\ Prepared(tx[r]) /\ TableShaped(rows) /\ TableBacked(rows)
      /\ Dense /\ nomis \in [Assessments -> {"NONE", "PENDING", "APPROVED", "INACTIVE"}]
  BY TheRequest DEF SerialInv, TypeOK
<1>2. /\ tx[r].step = "inactivate" /\ tx[r].op = "cancel" /\ Untouched(tx[r])
      /\ tx[r].target = Unaimed
      /\ UNCHANGED <<rows, referral, approvedFor>>
  BY <1>1 DEF NomisInactivate, Prepared, Reading
<1>3. PICK t : /\ tx' = [tx EXCEPT ![r] = t]
              /\ t.step = "reread" /\ SameWork(t, tx[r])
  BY ZenonT(30), StepTaken DEF NomisInactivate
<1>4. \A k \in Assessments :
          nomis'[k] = IF nomis[k] = "PENDING" THEN "INACTIVE" ELSE nomis[k]
  BY DEF NomisInactivate
<1>5. Dense'
  BY <1>1, <1>4 DEF Dense
<1>6. \A k \in Assessments : nomis'[k] # "PENDING"
  BY <1>4
<1>7. TableBacked(rows)'
  BY <1>1, <1>2, <1>6 DEF TableBacked, RowBacked, Backed
<1>8. Untouched(t)'
  BY <1>2, <1>3, SameWorkFacts DEF Untouched, TableOf
<1>9. NothingInProgress(rows)' \/ t.referral = "RESTORE"
  BY <1>1, <1>2, <1>3 DEF Prepared, SameWork, NothingInProgress
<1>10. Prepared(t)'
  BY <1>2, <1>3, <1>8, <1>9 DEF Prepared, SameWork
<1>11. Unsettled(t)
  BY <1>2, <1>3 DEF Unsettled, SameWork
<1>. QED
  BY <1>2, <1>3, <1>5, <1>7, <1>10, <1>11, CallSerial

LEMMA NomisSerial ==
    ASSUME OneAtATime, IInv, SerialInv, NEW r \in Requests, NomisStep(r),
           UNCHANGED <<atWork, faulty>>
    PROVE  SerialInv'
BY SubmitSerial, ApproveSerial, RejectSerial, InactivateSerial DEF NomisStep
-----------------------------------------------------------------------------
(* The end of a transaction, and steps outside one *)

\* Alone, a request waits for nobody.
LEMMA NobodyWaits ==
    ASSUME OneAtATime, NEW r \in Requests
    PROVE  ~Block(r) /\ ~BreakDeadlock(r)
<1>1. \A s : Free(r, s)
  BY DEF OneAtATime, Free
<1>2. \A q, p \in Requests : ~WaitsFor(q, p)
  BY DEF OneAtATime, WaitsFor
<1>. QED
  BY <1>1, <1>2 DEF Block, BreakDeadlock

\* What a request commits is sound, and follows what was there.
LEMMA CommitSerial ==
    ASSUME OneAtATime, IInv, SerialInv, NEW r \in Requests, Commit(r),
           UNCHANGED <<atWork, faulty>>
    PROVE  SerialInv' /\ Follows(rows, rows')
<1>1. /\ Ready(tx[r]) /\ rows' = TableOf(tx[r])
      /\ referral' = ReferralAfter(tx[r].referral)
      /\ UNCHANGED <<nomis, approvedFor>>
  BY TheRequest DEF Commit, Prepared
<1>2. \A q \in Requests : tx'[q] = Idle
  BY DEF Commit, OneAtATime
<1>3. \A row, s : RowBacked(row, s)' <=> RowBacked(row, s)
  BY <1>1 DEF RowBacked, Backed, LatestPending
<1>4. TableSound(rows)'
  BY <1>1, <1>3 DEF Ready, TableSound, TableBacked, TableShaped, IsCurrent, Hidden
<1>5. ReferralSound(rows, referral)'
  BY <1>1 DEF Ready, ReferralSound, NothingInProgress
<1>6. Dense'
  BY <1>1 DEF SerialInv, Dense
<1>7. ~faulty => Settled(rows)'
  BY <1>1 DEF Ready, Settled, LatestPending
<1>8. (\A q \in Requests : Prepared(tx[q]))'
  <2>1. Prepared(Idle)'
    BY DEF Prepared, Idle, Reading
  <2>. QED
    BY <1>2, <2>1
<1>9. Follows(rows, rows')
  BY <1>1 DEF Ready
<1>. QED
  BY <1>4, <1>5, <1>6, <1>7, <1>8, <1>9 DEF SerialInv

\* An idle request is prepared whatever the tables hold.
LEMMA IdlePrepared ==
    ASSUME OneAtATime, IInv, SerialInv, NEW r \in Requests,
           tx[r].step = "idle", UNCHANGED tx,
           UNCHANGED <<atWork, faulty>>
    PROVE  /\ (\A q \in Requests : Prepared(tx[q]))'
           /\ \A q \in Requests : ~Unsettled(tx[q])
<1>1. \A q \in Requests : q = r /\ tx'[q] = tx[r]
  BY DEF OneAtATime
<1>2. tx[r].target = Unaimed
  BY TheRequest
<1>3. Prepared(tx[r])'
  BY <1>1, <1>2 DEF Prepared, Reading
<1>4. ~Unsettled(tx[r])
  BY DEF Unsettled
<1>. QED
  BY <1>1, <1>3, <1>4

\* Security takes its referral back, reviews a row, or an alert is raised.
LEMMA OutsideSerial ==
    ASSUME OneAtATime, IInv, SerialInv,
           \/ \E r \in Requests : CancelReferral(r) \/ SecurityReviewed(r)
           \/ RiskChangeRaised,
           UNCHANGED <<atWork, faulty>>
    PROVE  SerialInv' /\ Follows(rows, rows')
<1>0. /\ rows \in [Seqs -> Row] /\ TableShaped(rows) /\ TableBacked(rows)
      /\ ReferralSound(rows, referral) /\ Dense
  BY DEF IInv, TypeOK, SerialInv, TableSound
<1>1. CASE RiskChangeRaised
  <2>1. UNCHANGED <<rows, referral, nomis, approvedFor, tx>>
    BY <1>1 DEF RiskChangeRaised
  <2>2. TableSound(rows)'
    BY <2>1 DEF SerialInv, TableSound, TableShaped, TableBacked, RowBacked,
                Backed, LatestPending, IsCurrent, Hidden
  <2>3. ReferralSound(rows, referral)' /\ Dense'
    BY <2>1 DEF SerialInv, ReferralSound, NothingInProgress, Dense
  <2>4. (~faulty /\ (\A q \in Requests : ~Unsettled(tx[q])) => Settled(rows))'
    BY <2>1 DEF SerialInv, Settled, LatestPending, Unsettled
  <2>5. ASSUME NEW q \in Requests PROVE Prepared(tx[q])'
    <3>1. Prepared(tx[q])
      BY DEF SerialInv
    <3>2. PICK t : t = tx[q]
      OBVIOUS
    <3>3. Prepared(t)'
      BY <2>1, <3>1, <3>2, SamePrepared
    <3>. QED
      BY <2>1, <3>2, <3>3
  <2>6. Follows(rows, rows')
    BY <2>1 DEF Follows
  <2>. QED
    BY <2>2, <2>3, <2>4, <2>5, <2>6 DEF SerialInv
<1>2. ASSUME NEW r \in Requests, CancelReferral(r)
      PROVE  SerialInv' /\ Follows(rows, rows')
  <2>1. /\ tx[r].step = "idle" /\ referral' = "CANCELLED"
        /\ UNCHANGED <<rows, nomis, approvedFor, tx>>
    BY <1>2 DEF CancelReferral
  <2>2. /\ (\A q \in Requests : Prepared(tx[q]))'
        /\ \A q \in Requests : ~Unsettled(tx[q])
    BY <2>1, IdlePrepared
  <2>3. TableSound(rows)'
    BY <2>1 DEF SerialInv, TableSound, TableShaped, TableBacked, RowBacked,
                Backed, LatestPending, IsCurrent, Hidden
  <2>4. ReferralSound(rows, referral)' /\ Dense'
    BY <2>1 DEF SerialInv, ReferralSound, NothingInProgress, Dense
  <2>5. ~faulty => Settled(rows)'
    BY <2>1, <2>2 DEF SerialInv, Settled, LatestPending
  <2>6. Follows(rows, rows')
    BY <2>1 DEF Follows
  <2>. QED
    BY <2>2, <2>3, <2>4, <2>5, <2>6 DEF SerialInv
<1>3. ASSUME NEW r \in Requests, SecurityReviewed(r)
      PROVE  SerialInv' /\ Follows(rows, rows')
  <2>1. PICK s \in Seqs :
           /\ IsCurrent(rows, s) /\ tx[r].step = "idle"
           /\ Allowed(rows[s].status, "SECURITY_BACK")
           /\ rows' = [rows EXCEPT ![s].status = "SECURITY_BACK"]
           /\ UNCHANGED <<referral, nomis, approvedFor, tx>>
    BY <1>3 DEF SecurityReviewed
  <2>. DEFINE row == [rows[s] EXCEPT !.status = "SECURITY_BACK"]
  <2>2. /\ (\A q \in Requests : Prepared(tx[q]))'
        /\ \A q \in Requests : ~Unsettled(tx[q])
    BY <2>1, IdlePrepared
  <2>3. rows[s].status \in InProgress
    BY <2>1, AllowedFrom DEF Statuses, InProgress
  <2>4. /\ RowShaped(row) /\ RowBacked(row, s) /\ row \in Row
        /\ row.status = "SECURITY_BACK" /\ row.nomisSeq = rows[s].nomisSeq
    <3>1. rows[s] \in Row /\ RowShaped(rows[s]) /\ RowBacked(rows[s], s)
      BY <1>0 DEF TableShaped, TableBacked
    <3>. QED
      BY <2>3, <3>1, StatusSound
  <2>5. rows' = [rows EXCEPT ![s] = row]
    BY <1>0, <2>1
  <2>. HIDE DEF row
  <2>6. rows'[s] = row /\ \A u \in Seqs : u # s => rows'[u] = rows[u]
    BY <1>0, <2>5
  <2>7. \A u \in Seqs : rows[u].status \in InProgress => u = s
    BY <1>0, <2>3, OneUnderWay
  <2>8. TableShaped(rows')
    BY <1>0, <2>3, <2>4, <2>5, UpdateShaped
  <2>9. \A v, u : RowBacked(v, u)' <=> RowBacked(v, u)
    BY <2>1 DEF RowBacked, Backed, LatestPending
  <2>10. TableBacked(rows')
    BY <1>0, <2>4, <2>6 DEF TableBacked
  <2>11. TableSound(rows)'
    BY <2>8, <2>9, <2>10 DEF TableSound, TableShaped, TableBacked, IsCurrent, Hidden
  <2>12. ReferralSound(rows, referral)'
    BY <1>0, <2>1, <2>3, <2>4, <2>6 DEF ReferralSound, NothingInProgress, InProgress
  <2>13. Dense'
    BY <1>0, <2>1 DEF Dense
  <2>14. ~faulty => Settled(rows)'
    BY <2>1, <2>2, <2>3, <2>4, <2>6, <2>7 DEF SerialInv, Settled, LatestPending
  <2>15. Follows(rows, rows')
    <3>1. StatusOf(rows') = [StatusOf(rows) EXCEPT ![s] = "SECURITY_BACK"]
      BY <1>0, <2>4, <2>5 DEF StatusOf
    <3>2. rows[s].status # Undefined /\ "SECURITY_BACK" \in Statuses
      BY <2>3, InProgressFacts DEF Statuses, InProgress
    <3>. QED
      BY <2>1, <3>1, <3>2 DEF Follows
  <2>. QED
    BY <2>2, <2>11, <2>12, <2>13, <2>14, <2>15 DEF SerialInv
<1>. QED
  BY <1>1, <1>2, <1>3
-----------------------------------------------------------------------------
(* The theorems *)

LEMMA InitSerial == Init => SerialInv
<1>. SUFFICES ASSUME Init PROVE SerialInv
  OBVIOUS
<1>1. \A s \in Seqs : rows[s] = NoRow
  BY DEF Init
<1>2. TableShaped(rows) /\ TableBacked(rows)
  BY <1>1, InProgressFacts
     DEF TableShaped, TableBacked, RowShaped, RowBacked, NoRow, Undefined
<1>3. NothingInProgress(rows)
  BY <1>1, InProgressFacts DEF NothingInProgress, NoRow
<1>4. Dense
  BY DEF Init, Dense
<1>5. \A r \in Requests : Prepared(tx[r])
  <2>1. Prepared(Idle)
    BY DEF Prepared, Idle, Reading
  <2>. QED
    BY <2>1 DEF Init
<1>. QED
  BY <1>2, <1>3, <1>4, <1>5
     DEF SerialInv, TableSound, ReferralSound, Settled, NothingInProgress, Init

LEMMA NextSerial ==
    ASSUME OneAtATime, IInv, SerialInv, [Next]_vars
    PROVE  SerialInv' /\ Follows(rows, rows')
<1>. UNCHANGED <<atWork, faulty>>
  BY DEF Next, vars, setting
<1>1. ASSUME NEW r \in Requests, Begin(r) \/ DatabaseStep(r) \/ NomisStep(r)
      PROVE  SerialInv' /\ Follows(rows, rows')
  <2>1. rows' = rows
    BY <1>1 DEF Begin, DatabaseStep, NomisStep, NomisSubmit, NomisApprove,
                NomisReject, NomisInactivate
  <2>. QED
    BY <1>1, <2>1, BeginSerial, DatabaseSerial, NomisSerial DEF Follows
<1>2. ASSUME NEW r \in Requests, Abort(r)
      PROVE  SerialInv' /\ Follows(rows, rows')
  BY <1>2, RollbackSerial DEF Abort, Follows
<1>3. CASE UNCHANGED vars
  <2>1. UNCHANGED <<rows, referral, nomis, approvedFor, tx>>
    BY <1>3 DEF vars
  <2>2. TableSound(rows)'
    BY <2>1 DEF SerialInv, TableSound, TableShaped, TableBacked, RowBacked,
                Backed, LatestPending, IsCurrent, Hidden
  <2>3. ReferralSound(rows, referral)' /\ Dense'
    BY <2>1 DEF SerialInv, ReferralSound, NothingInProgress, Dense
  <2>4. (~faulty /\ (\A q \in Requests : ~Unsettled(tx[q])) => Settled(rows))'
    BY <2>1 DEF SerialInv, Settled, LatestPending, Unsettled
  <2>5. ASSUME NEW q \in Requests PROVE Prepared(tx[q])'
    <3>1. PICK t : t = tx[q] /\ Prepared(t)
      BY DEF SerialInv
    <3>2. Prepared(t)'
      BY <2>1, <3>1, SamePrepared
    <3>. QED
      BY <2>1, <3>1, <3>2
  <2>6. Follows(rows, rows')
    BY <2>1 DEF Follows
  <2>. QED
    BY <2>2, <2>3, <2>4, <2>5, <2>6 DEF SerialInv
<1>. QED
  BY <1>1, <1>2, <1>3, NobodyWaits, CommitSerial, OutsideSerial DEF Next, Step

\* One request at a time, the invariant holds throughout.
LEMMA SerialInvariance ==
    ASSUME OneAtATime
    PROVE  Spec => [](IInv /\ SerialInv)
<1>1. Init => IInv /\ SerialInv
  BY InitIInv, InitSerial
<1>2. IInv /\ SerialInv /\ [Next]_vars => (IInv /\ SerialInv)'
  BY NextIInv, NextSerial
<1>. QED
  BY <1>1, <1>2, PTL DEF Spec

\* createOrRetrieveCategorisationRecord opens a row only when none is under
\* way: one request at a time, a booking never has two.
THEOREM OneUnderWayAlways ==
    ASSUME OneAtATime
    PROVE  Spec => []OneInProgress
<1>1. IInv /\ SerialInv => OneInProgress
  BY OneUnderWay DEF OneInProgress, SerialInv, TableSound
<1>. QED
  BY <1>1, SerialInvariance, PTL

\* supervisorApproval sends NOMIS no sequence number, and yet the assessment
\* that is approved is the one the stamped row names.
THEOREM ApprovalsInStep ==
    ASSUME OneAtATime
    PROVE  Spec => []ApprovalInStep
<1>1. IInv /\ SerialInv => ApprovalInStep
  BY DEF ApprovalInStep, StampMatchesStatus, StampedOwnAssessment, SerialInv,
         TableSound, TableShaped, TableBacked, RowShaped, RowBacked
<1>. QED
  BY <1>1, SerialInvariance, PTL

\* A security referral is new only while nothing is under way, and while it is
\* taken up something is (raiseReferral, referToSecurityIfFlagged, cancel).
THEOREM ReferralsInStep ==
    ASSUME OneAtATime
    PROVE  Spec => []ReferralInStep
<1>1. IInv /\ SerialInv => ReferralInStep
  BY DEF ReferralInStep, NewReferralNotHeld, ReferredIsHeld, SerialInv,
         ReferralSound, NothingInProgress
<1>. QED
  BY <1>1, SerialInvariance, PTL

\* When nothing fails, what awaits approval names the assessment that an
\* approval would be given to.
THEOREM AwaitingStaysPending ==
    ASSUME OneAtATime
    PROVE  Spec => []AwaitingIsPending
<1>1. IInv /\ SerialInv => AwaitingIsPending
  <2>. SUFFICES ASSUME IInv, SerialInv, NEW s \in Seqs, ~faulty,
                       rows[s].status = "AWAITING_APPROVAL",
                       \A r \in Requests : tx[r].step = "idle"
                PROVE  rows[s].nomisSeq # 0 /\ LatestPending(rows[s].nomisSeq)
    BY DEF AwaitingIsPending
  <2>1. Settled(rows)
    BY DEF SerialInv, Unsettled
  <2>2. rows[s].nomisSeq # 0
    BY DEF SerialInv, TableSound, TableShaped, RowShaped
  <2>. QED
    BY <2>1, <2>2 DEF Settled, InProgress
<1>. QED
  BY <1>1, SerialInvariance, PTL

\* A row that follows a sound table makes a step of the life cycle, or none.
LEMMA LifecycleStep ==
    ASSUME IInv, SerialInv, Follows(rows, rows')
    PROVE  [Lifecycle!Next]_(StatusOf(rows))
<1>. DEFINE status == StatusOf(rows)
<1>0. rows \in [Seqs -> Row] /\ TableShaped(rows)
  BY DEF IInv, TypeOK, SerialInv, TableSound
<1>1. status' = StatusOf(rows')
  BY DEF StatusOf
<1>2. \A s \in Seqs : status[s] = rows[s].status
  BY DEF StatusOf
<1>3. Lifecycle!Seqs = Seqs
  BY DEF Lifecycle!Seqs, Seqs
<1>4. /\ Lifecycle!Undefined = Undefined /\ Lifecycle!InProgress = InProgress
      /\ Lifecycle!Statuses = Statuses
      /\ \A x, y : Lifecycle!Allowed(x, y) <=> Allowed(x, y)
  BY DEF Lifecycle!Undefined, Lifecycle!InProgress, Lifecycle!Statuses,
         Lifecycle!Allowed, Lifecycle!Previous, Undefined, InProgress,
         Statuses, Allowed, Previous
<1>5. CASE StatusOf(rows') = status
  BY <1>1, <1>5
<1>6. ASSUME NEW s \in Seqs,
             NEW new \in {"STARTED", "SECURITY_AUTO", "SECURITY_FLAGGED"},
             IsNext(rows, s), NothingInProgress(rows),
             StatusOf(rows') = [status EXCEPT ![s] = new]
      PROVE  Lifecycle!Next
  <2>1. /\ status[s] = Undefined
        /\ \A t \in Seqs : t > s => status[t] = Undefined
    BY <1>2, <1>6 DEF IsNext, NoRow, Seqs
  <2>2. s = 1 \/ status[s - 1] # Undefined
    <3>1. CASE s > 1
      <4>1. s - 1 \in Seqs /\ s - 1 < s
        BY <1>6, <3>1, MaxSeqAssumption DEF Seqs
      <4>2. s - 1 \in Seqs /\ rows[s - 1] # NoRow
        BY <1>6, <3>1, <4>1 DEF IsNext
      <4>. QED
        BY <1>0, <1>2, <4>2 DEF TableShaped, RowShaped
    <3>. QED
      BY <3>1 DEF Seqs
  <2>3. Lifecycle!IsNext(s)
    BY <1>3, <1>4, <2>1, <2>2 DEF Lifecycle!IsNext, StatusOf
  <2>4. \A t \in Seqs : status[t] \notin InProgress
    BY <1>2, <1>6 DEF NothingInProgress
  <2>5. Lifecycle!Open(s)
    BY <1>1, <1>3, <1>4, <1>6, <2>3, <2>4 DEF Lifecycle!Open, StatusOf
  <2>. QED
    BY <1>3, <2>5 DEF Lifecycle!Next
<1>7. ASSUME NEW s \in Seqs, NEW new \in Statuses,
             rows[s].status # Undefined, Allowed(rows[s].status, new),
             StatusOf(rows') = [status EXCEPT ![s] = new]
      PROVE  Lifecycle!Next
  <2>1. Lifecycle!Move(s)
    BY <1>1, <1>2, <1>4, <1>7 DEF Lifecycle!Move, StatusOf
  <2>. QED
    BY <1>3, <2>1 DEF Lifecycle!Next
<1>8. CASE StatusOf(rows') = [s \in Seqs |-> IF rows[s].status \in InProgress
                                             THEN Undefined ELSE rows[s].status]
  <2>1. Lifecycle!Release
    BY <1>1, <1>2, <1>3, <1>4, <1>8 DEF Lifecycle!Release, StatusOf
  <2>. QED
    BY <2>1 DEF Lifecycle!Next
<1>. QED
  BY <1>5, <1>6, <1>7, <1>8, <1>1 DEF Follows

\* Whatever a request does, and whatever fails, the rows of the booking live
\* the life of statusEnum.js: opened one at a time, moved along the table of
\* transitions, deleted only while under way.
THEOREM ImplementsLifecycle ==
    ASSUME OneAtATime
    PROVE  Spec => LifecycleSpec
<1>1. Init => Lifecycle!Init
  BY DEF Init, Lifecycle!Init, Lifecycle!Seqs, Seqs, NoRow, Lifecycle!Undefined,
         Undefined
<1>2. IInv /\ SerialInv /\ [Next]_vars => [Lifecycle!Next]_(StatusOf(rows))
  BY NextSerial, LifecycleStep
<1>. QED
  BY <1>1, <1>2, SerialInvariance, PTL
     DEF Spec, LifecycleSpec, Lifecycle!Spec, StatusOf
-----------------------------------------------------------------------------
(***************************************************************************)
(* The to do lists (ToDoLists), when requests do not overlap, none fails   *)
(* and nobody is released.                                                 *)
(*                                                                         *)
(* ForeseenInv says that the table and NOMIS tell the same story (Holds,   *)
(* Credits), but for what the request in flight has told NOMIS and not yet *)
(* committed (Foreseen): that what it is about to commit restores it, and  *)
(* either opens a row while nothing is pending or moves the one under way  *)
(* (Leaves).  ListInv is of the committed table: what a row was opened     *)
(* from still holds while it is under way, and a referral that was taken   *)
(* up is with security or has been seen by it.                             *)
(***************************************************************************)

\* The statuses of a row whose assessment NOMIS has as pending.
AtNomis == {"AWAITING_APPROVAL", "SUPERVISOR_BACK", "SECURITY_BACK", "SECURITY_MANUAL"}

NothingPending == \A k \in Assessments : nomis[k] # "PENDING"

\* What is pending is that of the row under way; what is approved is that of
\* an approved row.
Holds(table) == \A k \in Assessments : nomis[k] = "PENDING" =>
    \E s \in Seqs : table[s].nomisSeq = k /\ table[s].status \in AtNomis
Credits(table) == \A k \in Assessments : nomis[k] = "APPROVED" =>
    \E s \in Seqs : table[s].nomisSeq = k /\ table[s].status = "APPROVED"

\* What is pending is younger than what is approved.
PendingLast == \A j, k \in Assessments :
    nomis[k] = "PENDING" /\ nomis[j] = "APPROVED" => j < k

\* `new' is the table with the row n opened, while nothing was under way.
OpensRow(new, n) ==
    /\ IsNext(rows, n) /\ NothingInProgress(rows)
    /\ NothingPending /\ Credits(rows)
    /\ \A s \in Seqs : s # n => new[s] = rows[s]
    /\ new[n].status \in {"STARTED", "SECURITY_AUTO", "SECURITY_FLAGGED"}
    /\ new[n].catType \in {"INITIAL", "RECAT"}

\* `new' is the table with the row s, which was under way, moved on; what
\* security has reviewed is its own doing (SecurityReviewed).
MovesRow(new, s) ==
    /\ rows[s].status \in InProgress
    /\ \A u \in Seqs : u # s => new[u] = rows[u]
    /\ new[s].catType = rows[s].catType
    /\ Allowed(rows[s].status, new[s].status)
    /\ new[s].status \in {"SECURITY_MANUAL", "SUPERVISOR_BACK",
                          "AWAITING_APPROVAL", "APPROVED", "CANCELLED"}

\* What a request leaves that is about to commit.
Leaves(t) ==
    /\ Holds(TableOf(t)) /\ Credits(TableOf(t))
    /\ \/ Untouched(t) /\ (t.referral # "REFERRED" \/ NothingInProgress(rows))
       \/ \E n \in Seqs :
             /\ OpensRow(TableOf(t), n)
             /\ t.referral = "REFERRED" => TableOf(t)[n].status = "SECURITY_FLAGGED"
       \/ t.referral # "REFERRED" /\ \E s \in Seqs : MovesRow(TableOf(t), s)

\* NOMIS is a call ahead of the committed table.
Submitting(t) == t.step = "record" \/ (t.op = "submit" /\ t.step = "commit")
Approving(t) == t.op = "approve" /\ t.step = "commit"

Foreseen(t) ==
    /\ t.step = "record" =>
          /\ t.op = "submit"
          /\ \A k \in Assessments : nomis[k] = "PENDING" => k = t.made
    /\ t.op = "cancel" /\ t.step # "inactivate" => NothingPending
    /\ t.step \in {"reject", "commit"} => Leaves(t)

ForeseenInv ==
    Undisturbed => /\ PendingLast
                   /\ (\A q \in Requests : ~Submitting(tx[q])) => Holds(rows)
                   /\ (\A q \in Requests : ~Approving(tx[q])) => Credits(rows)
                   /\ \A q \in Requests : Foreseen(tx[q])

NoneApproved == \A s \in Seqs : rows[s].status # "APPROVED"

\* The row was opened from a list, or early; the list still has the prisoner,
\* unless a stale page has taken the review date away.
FromItsList(s) ==
    /\ rows[s].catType \in {"INITIAL", "RECAT"}
    /\ rows[s].catType = "RECAT" => ~NoneApproved
    /\ \/ manual[s]
       \/ rows[s].catType = "INITIAL" /\ NoneApproved
             /\ prisoner.sentenced /\ ~prisoner.other
       \/ /\ rows[s].catType = "RECAT"
          /\ ~StalePages => prisoner.due \/ prisoner.under21

\* What is under way is the last row, and came from a list.
UnderWay(s) == rows[s].status \in InProgress =>
    /\ \A u \in Seqs : u > s => rows[u] = NoRow
    /\ FromItsList(s)
    /\ referral = "REFERRED" => rows[s].status \in Referred \/ reviewed[s]

ListInv ==
    /\ ListTypeOK
    /\ Crowded => prisoner.others
    /\ Undisturbed => \A s \in Seqs : UnderWay(s)
-----------------------------------------------------------------------------
(* The request in flight, and NOMIS *)

\* What the invariant says of the request in flight.
LEMMA ForeseenNow ==
    ASSUME OneAtATime, ForeseenInv, Undisturbed, NEW r \in Requests
    PROVE  /\ PendingLast /\ Foreseen(tx[r])
           /\ ~Submitting(tx[r]) => Holds(rows)
           /\ ~Approving(tx[r]) => Credits(rows)
<1>1. \A q \in Requests : q = r
  BY DEF OneAtATime
<1>2. /\ ~Submitting(tx[r]) => \A q \in Requests : ~Submitting(tx[q])
      /\ ~Approving(tx[r]) => \A q \in Requests : ~Approving(tx[q])
  BY <1>1
<1>. QED
  BY <1>2 DEF ForeseenInv

\* And what has to be shown of a step that it takes to state t.
LEMMA ForeseenNext ==
    ASSUME OneAtATime, IInv, NEW r \in Requests, NEW t,
           tx' = [tx EXCEPT ![r] = t],
           Undisturbed' => /\ PendingLast' /\ Foreseen(t)'
                           /\ ~Submitting(t) => Holds(rows)'
                           /\ ~Approving(t) => Credits(rows)'
    PROVE  ForeseenInv'
<1>1. \A q \in Requests : q = r /\ tx'[q] = t
  BY DEF OneAtATime, IInv, TypeOK
<1>. SUFFICES ASSUME Undisturbed'
              PROVE  /\ PendingLast'
                     /\ ((\A q \in Requests : ~Submitting(tx[q])) => Holds(rows))'
                     /\ ((\A q \in Requests : ~Approving(tx[q])) => Credits(rows))'
                     /\ (\A q \in Requests : Foreseen(tx[q]))'
  BY DEF ForeseenInv
<1>2. (\A q \in Requests : Foreseen(tx[q]))'
  BY <1>1
<1>3. (\A q \in Requests : ~Submitting(tx[q]))' => ~Submitting(t)
  BY <1>1 DEF Submitting
<1>4. (\A q \in Requests : ~Approving(tx[q]))' => ~Approving(t)
  BY <1>1 DEF Approving
<1>. QED
  BY <1>2, <1>3, <1>4

\* It depends on the rows and on NOMIS only.
LEMMA SameForeseen ==
    ASSUME UNCHANGED <<rows, nomis>>
    PROVE  /\ Holds(rows)' <=> Holds(rows)
           /\ Credits(rows)' <=> Credits(rows)
           /\ PendingLast' <=> PendingLast
           /\ \A t : Foreseen(t)' <=> Foreseen(t)
<1>1. \A t : TableOf(t)' = TableOf(t)
  BY DEF TableOf
<1>2. \A table : /\ Holds(table)' <=> Holds(table)
                 /\ Credits(table)' <=> Credits(table)
  BY DEF Holds, Credits
<1>3. /\ NothingPending' <=> NothingPending
      /\ NothingInProgress(rows)' <=> NothingInProgress(rows)
      /\ \A n : IsNext(rows, n)' <=> IsNext(rows, n)
      /\ Holds(rows)' <=> Holds(rows)
      /\ Credits(rows)' <=> Credits(rows)
      /\ PendingLast' <=> PendingLast
  BY DEF NothingPending, NothingInProgress, IsNext, Holds, Credits, PendingLast
<1>4. \A table, n : /\ OpensRow(table, n)' <=> OpensRow(table, n)
                    /\ MovesRow(table, n)' <=> MovesRow(table, n)
  BY <1>3 DEF OpensRow, MovesRow
<1>5. \A t : Leaves(t)' <=> Leaves(t)
  BY <1>1, <1>2, <1>3, <1>4 DEF Leaves, Untouched
<1>. QED
  BY <1>3, <1>5 DEF Foreseen

\* A step of the request that tells NOMIS nothing.
LEMMA OwnForeseen ==
    ASSUME OneAtATime, IInv, ForeseenInv, NEW r \in Requests, NEW t,
           tx' = [tx EXCEPT ![r] = t],
           UNCHANGED <<rows, nomis>>, UNCHANGED <<atWork, faulty>>,
           tx[r].step # "commit", tx[r].step = "record" => Submitting(t),
           Undisturbed => Foreseen(t)
    PROVE  ForeseenInv'
<1>. SUFFICES ASSUME Undisturbed
              PROVE  /\ PendingLast' /\ Foreseen(t)'
                     /\ ~Submitting(t) => Holds(rows)'
                     /\ ~Approving(t) => Credits(rows)'
  BY ForeseenNext DEF Undisturbed
<1>1. /\ PendingLast /\ Foreseen(tx[r])
      /\ ~Submitting(tx[r]) => Holds(rows)
      /\ ~Approving(tx[r]) => Credits(rows)
  BY ForeseenNow
<1>. QED
  BY <1>1, SameForeseen DEF Submitting, Approving

\* Nothing under way, nothing pending.
LEMMA NothingIsPending ==
    ASSUME NEW table, Holds(table), NothingInProgress(table)
    PROVE  NothingPending
BY DEF Holds, NothingInProgress, NothingPending, AtNomis, InProgress

-----------------------------------------------------------------------------
(* What a request leaves that is about to commit *)

\* Nothing that differs.
LEMMA LeavesUntouched ==
    ASSUME NEW t, Untouched(t), Holds(rows), Credits(rows),
           t.referral # "REFERRED" \/ NothingInProgress(rows)
    PROVE  Leaves(t)
BY DEF Leaves, Untouched

\* A row that it has opened.
LEMMA LeavesOpened ==
    ASSUME IInv, Holds(rows), Credits(rows), NEW t, NEW n \in Seqs,
           IsNext(rows, n), NothingInProgress(rows),
           NEW row \in Row, Changed(t, n, row),
           row.status \in {"STARTED", "SECURITY_AUTO", "SECURITY_FLAGGED"},
           row.catType \in {"INITIAL", "RECAT"},
           t.referral = "REFERRED" => row.status = "SECURITY_FLAGGED"
    PROVE  Leaves(t)
<1>. DEFINE T == TableOf(t)
<1>1. T[n] = row /\ \A u \in Seqs : u # n => T[u] = rows[u]
  BY DEF Changed, IInv, TypeOK
<1>. HIDE DEF T
<1>2. NothingPending
  BY NothingIsPending
<1>3. rows[n].status # "APPROVED"
  BY DEF IsNext, NoRow, Undefined, Seqs
<1>4. Holds(T) /\ Credits(T)
  BY <1>1, <1>2, <1>3 DEF Holds, NothingPending, Credits
<1>5. OpensRow(T, n)
  BY <1>1, <1>2 DEF OpensRow
<1>. QED
  BY <1>1, <1>4, <1>5 DEF Leaves, T

\* The row under way, moved on but not approved.
LEMMA LeavesMoved ==
    ASSUME IInv, Credits(rows), NEW t, NEW s \in Seqs, NEW row,
           rows[s].status \in InProgress, Changed(t, s, row),
           row.catType = rows[s].catType, Allowed(rows[s].status, row.status),
           row.status \in {"SECURITY_MANUAL", "SUPERVISOR_BACK",
                           "AWAITING_APPROVAL", "CANCELLED"},
           t.referral # "REFERRED",
           \/ NothingPending
           \/ Holds(rows) /\ row.nomisSeq = rows[s].nomisSeq
                 /\ row.status # "CANCELLED"
           \/ row.status # "CANCELLED"
                 /\ \A k \in Assessments : nomis[k] = "PENDING" => row.nomisSeq = k
    PROVE  Leaves(t)
<1>. DEFINE T == TableOf(t)
<1>1. T[s] = row /\ \A u \in Seqs : u # s => T[u] = rows[u]
  BY DEF Changed, IInv, TypeOK
<1>. HIDE DEF T
<1>2. rows[s].status # "APPROVED"
  BY InProgressFacts
<1>3. Credits(T)
  BY <1>1, <1>2 DEF Credits
<1>4. Holds(T)
  <2>1. row.status # "CANCELLED" => row.status \in AtNomis
    BY DEF AtNomis
  <2>. QED
    BY <1>1, <2>1 DEF Holds, NothingPending
<1>5. MovesRow(T, s)
  BY <1>1 DEF MovesRow
<1>. QED
  BY <1>3, <1>4, <1>5 DEF Leaves, T
-----------------------------------------------------------------------------
(* The steps of the request *)

\* A request begins; a referral that is raised is all that it leaves.
LEMMA BeginForeseen ==
    ASSUME OneAtATime, IInv, SerialInv, ForeseenInv, NEW r \in Requests,
           Begin(r), UNCHANGED <<atWork, faulty>>
    PROVE  ForeseenInv'
<1>0. /\ tx[r].step = "idle" /\ UNCHANGED <<rows, nomis>>
  BY DEF Begin, SaveForm, SecurityInput, SendBack, Submit, Approve, Cancel,
         Tasklist, TasklistRecat, TasklistFor, RaiseReferral, Release, Calls
<1>1. CASE RaiseReferral(r)
  <2>1. PICK t : /\ tx' = [tx EXCEPT ![r] = t]
                 /\ t = [Idle EXCEPT !.op = "raiseReferral", !.step = "commit",
                                     !.referral = "NEW"]
    BY <1>1 DEF RaiseReferral
  <2>2. t.op = "raiseReferral" /\ t.step = "commit" /\ t.referral = "NEW" /\ t.held = {}
    BY <2>1 DEF Idle
  <2>3. Untouched(t)
    BY <2>2 DEF Untouched, TableOf, IInv, TypeOK
  <2>4. Undisturbed => Foreseen(t)
    BY <1>0, <2>2, <2>3, ForeseenNow, LeavesUntouched
       DEF Foreseen, Submitting, Approving
  <2>. QED
    BY <1>0, <2>1, <2>4, OwnForeseen
<1>2. CASE Release(r)
  <2>1. ~Undisturbed'
    BY <1>2 DEF Release, Undisturbed
  <2>. QED
    BY <2>1 DEF ForeseenInv
<1>3. CASE ~RaiseReferral(r) /\ ~Release(r)
  <2>1. PICK t : /\ tx' = [tx EXCEPT ![r] = t]
                 /\ t.step \in {"update", "stamp", "approve", "inactivate",
                                "open", "readReferral", "reread"}
                 /\ t.op = "cancel" => t.step = "inactivate"
    <3>1. CASE Submit(r)
      <4>1. PICK seq : tx' = [tx EXCEPT ![r] = [Idle EXCEPT
                                 !.op = "submit", !.step = "reread", !.seq = seq]]
        BY <3>1 DEF Submit
      <4>. DEFINE t == [Idle EXCEPT !.op = "submit", !.step = "reread", !.seq = seq]
      <4>2. t.op = "submit" /\ t.step = "reread"
        BY DEF Idle
      <4>. QED
        BY <4>1, <4>2
    <3>2. CASE Cancel(r)
      <4>1. PICK effect : tx' = [tx EXCEPT ![r] = [Idle EXCEPT
                     !.op = "cancel", !.step = "inactivate", !.referral = effect]]
        BY <3>2 DEF Cancel
      <4>. DEFINE t == [Idle EXCEPT !.op = "cancel", !.step = "inactivate",
                                    !.referral = effect]
      <4>2. t.step = "inactivate"
        BY DEF Idle
      <4>. QED
        BY <4>1, <4>2
    <3>3. CASE ~Submit(r) /\ ~Cancel(r)
      <4>1. PICK op, step, status :
               /\ Start(r, op, step, status) /\ op # "cancel"
               /\ step \in {"update", "stamp", "approve", "open", "readReferral"}
        BY <1>3, <3>3 DEF Begin, SaveForm, SecurityInput, SendBack, Approve,
                          Tasklist, TasklistRecat, TasklistFor
      <4>. DEFINE t == [Idle EXCEPT !.op = op, !.step = step, !.status = status]
      <4>2. t.step = step /\ t.op = op
        BY DEF Idle
      <4>. QED
        BY <4>1, <4>2 DEF Start
    <3>. QED
      BY <3>1, <3>2, <3>3
  <2>2. Foreseen(t)
    BY <2>1 DEF Foreseen
  <2>. QED
    BY <1>0, <2>1, <2>2, OwnForeseen
<1>. QED
  BY <1>1, <1>2, <1>3

\* What it has done so far is taken back.
LEMMA RollbackForeseen ==
    ASSUME OneAtATime, IInv, ForeseenInv, NEW r \in Requests, Rollback(r),
           UNCHANGED <<rows, nomis>>, UNCHANGED <<atWork, faulty>>,
           tx[r].step \notin {"record", "commit"}
    PROVE  ForeseenInv'
<1>1. tx' = [tx EXCEPT ![r] = Idle]
  BY DEF Rollback
<1>2. Foreseen(Idle)
  BY DEF Foreseen, Idle
<1>. QED
  BY <1>1, <1>2, OwnForeseen

\* A page is saved.
LEMMA UpdateForeseen ==
    ASSUME OneAtATime, IInv, SerialInv, ForeseenInv, NEW r \in Requests,
           UpdateForm(r), UNCHANGED <<rows, nomis>>, UNCHANGED <<atWork, faulty>>
    PROVE  ForeseenInv'
<1>1. PICK t \in Transaction :
         /\ tx' = [tx EXCEPT ![r] = t] /\ Untouched(t)
         /\ t.op = tx[r].op
         /\ t.step = IF tx[r].op = "save" THEN "commit" ELSE "reread"
         /\ t.target = Unaimed /\ t.referral = "KEEP"
  BY FormSaved
<1>2. tx[r].step = "update" /\ tx[r].op \in {"save", "securityInput", "sendBack"}
  BY TheRequest DEF UpdateForm, Prepared
<1>3. Undisturbed => Foreseen(t)
  BY <1>1, <1>2, ForeseenNow, LeavesUntouched DEF Foreseen, Submitting, Approving
<1>. QED
  BY <1>1, <1>2, <1>3, OwnForeseen

\* The row is read again: what was there is what is left when the transition
\* had been made.
LEMMA RereadForeseen ==
    ASSUME OneAtATime, IInv, SerialInv, ForeseenInv, NEW r \in Requests,
           Reread(r), UNCHANGED <<rows, nomis>>, UNCHANGED <<atWork, faulty>>
    PROVE  ForeseenInv'
<1>1. /\ tx[r] \in Transaction /\ tx[r].step = "reread" /\ Untouched(tx[r])
      /\ tx[r].op \in {"securityInput", "sendBack", "submit", "cancel"}
      /\ tx \in [Requests -> Transaction]
      /\ tx[r].referral = "KEEP" \/ NothingInProgress(rows)
            \/ tx[r].referral = "RESTORE"
  BY TheRequest DEF Reread, Prepared, Reading, TypeOK
<1>2. CASE Rollback(r)
  BY <1>1, <1>2, RollbackForeseen
<1>3. CASE ~Rollback(r)
  <2>1. PICK t : /\ tx' = [tx EXCEPT ![r] = t]
                 /\ t.step \in {"refer", "back", "decide", "cancel",
                                "reject", "submit", "commit"}
                 /\ t.step = "cancel" => tx[r].op = "cancel"
                 /\ t.op = tx[r].op /\ t.held = tx[r].held
                 /\ t.work = tx[r].work /\ t.referral = tx[r].referral
    <3>. DEFINE write == CASE tx[r].op = "securityInput" -> "refer"
                           [] tx[r].op = "sendBack" -> "back"
                           [] tx[r].op = "submit"   -> "decide"
                           [] OTHER                 -> "cancel"
                skip  == CASE tx[r].op = "sendBack" -> "reject"
                           [] tx[r].op = "submit"   -> "submit"
                           [] OTHER                 -> "commit"
    <3>1. PICK s \in 0..MaxSeq, step \in {write, skip} :
             tx' = [tx EXCEPT ![r].step = step,
                              ![r].seq = IF tx[r].op = "sendBack"
                                         THEN RowAt(View(r), s).nomisSeq ELSE @]
      BY ZenonT(30), <1>3 DEF Reread
    <3>. DEFINE seq == IF tx[r].op = "sendBack" THEN RowAt(View(r), s).nomisSeq
                       ELSE tx[r].seq
                t == [tx[r] EXCEPT !.step = step, !.seq = seq]
    <3>2. tx' = [tx EXCEPT ![r] = t]
      BY <1>1, <3>1
    <3>3. /\ t.step = step /\ t.op = tx[r].op /\ t.held = tx[r].held
          /\ t.work = tx[r].work /\ t.referral = tx[r].referral
      BY <1>1 DEF Transaction
    <3>4. /\ step \in {"refer", "back", "decide", "cancel", "reject", "submit",
                       "commit"}
          /\ step = "cancel" => tx[r].op = "cancel"
      BY <1>1
    <3>. QED
      BY <3>2, <3>3, <3>4
  <2>2. Untouched(t)
    BY <1>1, <2>1 DEF Untouched, TableOf
  <2>3. Undisturbed => Foreseen(t)
    BY <1>1, <2>1, <2>2, ForeseenNow, LeavesUntouched
       DEF Foreseen, Submitting, Approving
  <2>. QED
    BY <1>1, <2>1, <2>3, OwnForeseen
<1>. QED
  BY <1>2, <1>3

\* The row is moved along the transition table.
LEMMA MoveForeseen ==
    ASSUME OneAtATime, IInv, SerialInv, ForeseenInv, NEW r \in Requests,
           Refer(r) \/ Back(r) \/ Decide(r) \/ CancelRow(r),
           UNCHANGED <<rows, nomis>>, UNCHANGED <<atWork, faulty>>
    PROVE  ForeseenInv'
<1>1. PICK status \in {"SECURITY_MANUAL", "SUPERVISOR_BACK",
                       "AWAITING_APPROVAL", "CANCELLED"},
           step \in {"commit", "reject", "submit"}, t \in Transaction, s \in Seqs :
         /\ \/ /\ tx[r].step = "refer" /\ status = "SECURITY_MANUAL"
               /\ step = "commit"
            \/ /\ tx[r].step = "back" /\ status = "SUPERVISOR_BACK"
               /\ step = "reject"
            \/ /\ tx[r].step = "decide" /\ status = "AWAITING_APPROVAL"
               /\ step = "submit"
            \/ /\ tx[r].step = "cancel" /\ status = "CANCELLED"
               /\ step = "commit"
         /\ tx' = [tx EXCEPT ![r] = t]
         /\ IsCurrent(rows, s) /\ rows[s].status \in InProgress
         /\ Allowed(rows[s].status, status)
         /\ Changed(t, s, [rows[s] EXCEPT !.status = status])
         /\ t.op = tx[r].op /\ t.step = step
         /\ t.seq = tx[r].seq /\ t.target = Unaimed
         /\ t.referral = tx[r].referral
  BY RowMoved
<1>. DEFINE row == [rows[s] EXCEPT !.status = status]
<1>2. /\ row.status = status /\ row.catType = rows[s].catType
      /\ row.nomisSeq = rows[s].nomisSeq
  <2>1. rows[s] \in Row
    BY TheRequest
  <2>. QED
    BY <2>1 DEF Row
<1>3. Changed(t, s, row)
  BY <1>1
<1>. HIDE DEF row
<1>4. /\ t.referral # "REFERRED"
      /\ status = "CANCELLED" => tx[r].step = "cancel" /\ tx[r].op = "cancel"
  BY <1>1, TheRequest DEF Prepared, NothingInProgress
<1>5. Undisturbed => Foreseen(t)
  <2>. SUFFICES ASSUME Undisturbed PROVE Foreseen(t)
    OBVIOUS
  <2>1. Holds(rows) /\ Credits(rows) /\ Foreseen(tx[r])
    BY <1>1, ForeseenNow DEF Submitting, Approving
  <2>2. /\ t.op = "cancel" => NothingPending
        /\ status = "CANCELLED" => NothingPending
    BY <1>1, <1>4, <2>1 DEF Foreseen
  <2>3. Leaves(t)
    BY <1>1, <1>2, <1>3, <1>4, <2>1, <2>2, LeavesMoved
  <2>. QED
    BY <1>1, <2>2, <2>3 DEF Foreseen
<1>. QED
  BY <1>1, <1>5, OwnForeseen

\* The approval is written on the row.
LEMMA StampForeseen ==
    ASSUME OneAtATime, IInv, SerialInv, ForeseenInv, NEW r \in Requests,
           Stamp(r), UNCHANGED <<rows, nomis>>, UNCHANGED <<atWork, faulty>>
    PROVE  ForeseenInv'
<1>1. tx[r].step = "stamp" /\ tx[r].op = "approve" /\ tx[r] \in Transaction
  BY TheRequest DEF Stamp, Prepared
<1>. DEFINE after == [Goto(r, "approve") EXCEPT !.referral = "COMPLETED"]
<1>2. after.step = "approve" /\ after.op = "approve"
  BY <1>1 DEF Goto, Transaction
<1>3. PICK s, row : Write(r, s, row, after)
  BY DEF Stamp
<1>. HIDE DEF after
<1>. DEFINE t == IF RowAt(View(r), s) = NoRow THEN after
                 ELSE [after EXCEPT !.held = @ \cup {s}, !.work[s] = row]
<1>4. tx' = [tx EXCEPT ![r] = t]
  BY <1>3 DEF Write
<1>5. t.step = "approve" /\ t.op = "approve"
  BY <1>2
<1>6. Foreseen(t)
  BY <1>5 DEF Foreseen
<1>. QED
  BY <1>1, <1>4, <1>6, OwnForeseen

\* The number of the new assessment is recorded.
LEMMA RecordForeseen ==
    ASSUME OneAtATime, IInv, SerialInv, ForeseenInv, NEW r \in Requests,
           RecordNomisSeq(r), UNCHANGED <<rows, nomis>>,
           UNCHANGED <<atWork, faulty>>
    PROVE  ForeseenInv'
<1>1. PICK t \in Transaction, s \in Seqs, row \in Row :
         /\ tx' = [tx EXCEPT ![r] = t]
         /\ IsCurrent(rows, s) /\ rows[s].status \in InProgress
         /\ Allowed(rows[s].status, "AWAITING_APPROVAL")
         /\ Changed(t, s, row)
         /\ row.status = "AWAITING_APPROVAL" /\ row.nomisSeq = tx[r].made
         /\ row.approved = rows[s].approved /\ row.catType = rows[s].catType
         /\ t.op = tx[r].op /\ t.step = "commit"
         /\ t.target = Unaimed /\ t.referral = "KEEP"
  BY NumberRecorded
<1>2. tx[r].step = "record"
  BY DEF RecordNomisSeq
<1>. SUFFICES ASSUME Undisturbed PROVE ForeseenInv'
  BY DEF ForeseenInv, Undisturbed
<1>3. /\ Credits(rows) /\ tx[r].op = "submit"
      /\ \A k \in Assessments : nomis[k] = "PENDING" => k = tx[r].made
  BY <1>2, ForeseenNow DEF Approving, Foreseen
<1>4. Leaves(t)
  BY <1>1, <1>3, LeavesMoved
<1>5. Foreseen(t) /\ Submitting(t)
  BY <1>1, <1>3, <1>4 DEF Foreseen, Submitting
<1>. QED
  BY <1>1, <1>2, <1>5, OwnForeseen

\* A row is opened.
LEMMA OpenForeseen ==
    ASSUME OneAtATime, IInv, SerialInv, ForeseenInv, NEW r \in Requests,
           Open(r), UNCHANGED <<rows, nomis>>, UNCHANGED <<atWork, faulty>>
    PROVE  ForeseenInv'
<1>1. tx[r].step = "open" /\ tx[r] \in Transaction
  BY TheRequest DEF Open
<1>. DEFINE row(status) ==
               [NoRow EXCEPT !.status = status,
                             !.catType = IF tx[r].op = "tasklist"
                                         THEN "INITIAL" ELSE "RECAT"]
<1>2. PICK n \in Seqs, status \in {"STARTED", "SECURITY_AUTO"} :
         tx' = [tx EXCEPT ![r] = [Goto(r, "readReferral") EXCEPT
                   !.status = status, !.held = @ \cup {n},
                   !.work[n] = row(status)]]
  BY DEF Open
<1>. HIDE DEF row
<1>. DEFINE t == [Goto(r, "readReferral") EXCEPT
                   !.status = status, !.held = @ \cup {n},
                   !.work[n] = row(status)]
<1>3. t.step = "readReferral" /\ t.op = tx[r].op
  BY <1>1 DEF Goto, Transaction
<1>4. tx' = [tx EXCEPT ![r] = t]
  BY <1>2
<1>. HIDE DEF t
<1>5. Undisturbed => Foreseen(t)
  BY <1>1, <1>3, ForeseenNow DEF Foreseen
<1>. QED
  BY <1>1, <1>4, <1>5, OwnForeseen

\* The referral is looked for.
LEMMA ReadReferralForeseen ==
    ASSUME OneAtATime, IInv, SerialInv, ForeseenInv, NEW r \in Requests,
           ReadReferral(r), UNCHANGED <<rows, nomis>>, UNCHANGED <<atWork, faulty>>
    PROVE  ForeseenInv'
<1>1. /\ tx[r] \in Transaction /\ tx[r].step = "readReferral"
      /\ tx[r].referral = "KEEP"
      /\ Opened(tx[r]) \/ Untouched(tx[r])
  BY TheRequest DEF ReadReferral, Prepared
<1>2. CASE Rollback(r)
  BY <1>1, <1>2, RollbackForeseen
<1>3. CASE ~Rollback(r)
  <2>1. PICK step \in {"commit", "flag"} : tx' = [tx EXCEPT ![r] = Goto(r, step)]
    BY <1>3 DEF ReadReferral
  <2>. DEFINE t == Goto(r, step)
  <2>2. /\ t.op = tx[r].op /\ t.step = step
        /\ t.held = tx[r].held /\ t.work = tx[r].work /\ t.referral = "KEEP"
    BY <1>1, GotoFields DEF Steps, SameEffects
  <2>3. tx' = [tx EXCEPT ![r] = t]
    BY <2>1
  <2>. HIDE DEF t
  <2>4. /\ Opened(t) <=> Opened(tx[r])
        /\ Untouched(t) <=> Untouched(tx[r])
    BY <2>2 DEF Opened, Untouched, Changed, TableOf
  <2>5. Undisturbed => Foreseen(t)
    <3>. SUFFICES ASSUME Undisturbed PROVE Foreseen(t)
      OBVIOUS
    <3>1. Holds(rows) /\ Credits(rows) /\ Foreseen(tx[r])
      BY <1>1, ForeseenNow DEF Submitting, Approving
    <3>2. CASE Untouched(t)
      BY <1>1, <2>1, <2>2, <3>1, <3>2, LeavesUntouched DEF Foreseen
    <3>3. CASE Opened(t)
      <4>1. PICK n \in Seqs, status \in {"STARTED", "SECURITY_AUTO"},
                 catType \in {"INITIAL", "RECAT"} :
               /\ IsNext(rows, n) /\ NothingInProgress(rows)
               /\ Changed(t, n, [NoRow EXCEPT !.status = status,
                                              !.catType = catType])
        BY <3>3 DEF Opened
      <4>. DEFINE row == [NoRow EXCEPT !.status = status, !.catType = catType]
      <4>2. row \in Row /\ row.status = status
        BY OpenedRow
      <4>3. row.catType = catType
        BY DEF NoRow
      <4>4. Changed(t, n, row)
        BY <4>1
      <4>. HIDE DEF row
      <4>5. Leaves(t)
        BY <2>2, <3>1, <4>1, <4>2, <4>3, <4>4, LeavesOpened
      <4>. QED
        BY <1>1, <2>1, <2>2, <3>1, <4>5 DEF Foreseen
    <3>. QED
      BY <1>1, <2>4, <3>2, <3>3
  <2>. QED
    BY <1>1, <2>3, <2>5, OwnForeseen
<1>. QED
  BY <1>2, <1>3

\* The referral is taken up.
LEMMA FlagForeseen ==
    ASSUME OneAtATime, IInv, SerialInv, ForeseenInv, NEW r \in Requests,
           Flag(r), UNCHANGED <<rows, nomis>>, UNCHANGED <<atWork, faulty>>
    PROVE  ForeseenInv'
<1>1. PICK t \in Transaction, n \in Seqs, catType \in {"INITIAL", "RECAT"},
           row \in Row :
         /\ tx' = [tx EXCEPT ![r] = t]
         /\ IsNext(rows, n) /\ NothingInProgress(rows)
         /\ Changed(t, n, row)
         /\ row = [NoRow EXCEPT !.status = "SECURITY_FLAGGED", !.catType = catType]
         /\ t.op = tx[r].op /\ t.step = "commit"
         /\ t.target = Unaimed /\ t.referral = "REFERRED"
  BY ReferralTaken
<1>2. row.status = "SECURITY_FLAGGED" /\ row.catType = catType
  BY <1>1 DEF NoRow
<1>3. tx[r].step = "flag"
  BY DEF Flag
<1>4. Undisturbed => Foreseen(t)
  <2>. SUFFICES ASSUME Undisturbed PROVE Foreseen(t)
    OBVIOUS
  <2>1. Holds(rows) /\ Credits(rows) /\ Foreseen(tx[r])
    BY <1>3, ForeseenNow DEF Submitting, Approving
  <2>2. Leaves(t)
    BY <1>1, <1>2, <2>1, LeavesOpened
  <2>. QED
    BY <1>1, <1>3, <2>1, <2>2 DEF Foreseen
<1>. QED
  BY <1>1, <1>3, <1>4, OwnForeseen

\* A release is not what happens here.
LEMMA DeleteForeseen ==
    ASSUME SerialInv, IInv, ForeseenInv, NEW r \in Requests, Delete(r),
           UNCHANGED <<atWork, faulty>>
    PROVE  ForeseenInv'
<1>1. tx[r].op = "release" /\ tx[r] \in Transaction
  BY TheRequest DEF Delete, Prepared
<1>2. ~Undisturbed
  BY <1>1 DEF Transaction, Undisturbed
<1>. QED
  BY <1>2 DEF ForeseenInv, Undisturbed

LEMMA DatabaseForeseen ==
    ASSUME OneAtATime, IInv, SerialInv, ForeseenInv, NEW r \in Requests,
           DatabaseStep(r), UNCHANGED <<atWork, faulty>>
    PROVE  ForeseenInv'
<1>1. UNCHANGED <<rows, nomis>>
  BY DEF DatabaseStep
<1>2. CASE OpenFails(r) \/ LiteInProgress(r)
  BY <1>1, <1>2, RollbackForeseen DEF OpenFails, LiteInProgress
<1>. QED
  BY <1>1, <1>2, UpdateForeseen, RereadForeseen, MoveForeseen, StampForeseen,
     RecordForeseen, OpenForeseen, ReadReferralForeseen, FlagForeseen,
     DeleteForeseen DEF DatabaseStep

-----------------------------------------------------------------------------
(* What it tells NOMIS *)

\* The current row, when it has been submitted, and what it leaves.
LEMMA SubmittedRow ==
    ASSUME IInv, SerialInv, NEW t \in Transaction, Submitted(t),
           Holds(rows), Credits(rows), t.referral = "KEEP"
    PROVE  Leaves(t)
<1>1. /\ rows \in [Seqs -> Row]
  BY DEF IInv, TypeOK
<1>2. CASE Untouched(t)
  BY <1>2, LeavesUntouched
<1>3. CASE ~Untouched(t)
  <2>1. PICK s \in Seqs :
           /\ Allowed(rows[s].status, "AWAITING_APPROVAL")
           /\ Changed(t, s, [rows[s] EXCEPT !.status = "AWAITING_APPROVAL"])
    BY <1>3 DEF Submitted
  <2>. DEFINE row == [rows[s] EXCEPT !.status = "AWAITING_APPROVAL"]
  <2>2. rows[s] \in Row /\ rows[s].status \in InProgress
    BY <1>1, <2>1, AllowedFrom DEF Statuses, InProgress
  <2>3. /\ row.status = "AWAITING_APPROVAL" /\ row.catType = rows[s].catType
        /\ row.nomisSeq = rows[s].nomisSeq
    BY <2>2 DEF Row
  <2>4. Changed(t, s, row)
    BY <2>1
  <2>. HIDE DEF row
  <2>. QED
    BY <2>1, <2>2, <2>3, <2>4, LeavesMoved
<1>. QED
  BY <1>2, <1>3

\* A submission creates an assessment only when none is pending.
LEMMA SubmitForeseen ==
    ASSUME OneAtATime, IInv, SerialInv, SerialInv', ForeseenInv,
           NEW r \in Requests, NomisSubmit(r), UNCHANGED <<atWork, faulty>>
    PROVE  ForeseenInv'
<1>1. /\ tx[r] \in Transaction /\ tx[r].step = "submit" /\ tx[r].op = "submit"
      /\ Submitted(tx[r]) /\ tx[r].referral = "KEEP" /\ Dense
      /\ tx \in [Requests -> Transaction] /\ UNCHANGED rows
      /\ nomis \in [Assessments -> {"NONE", "PENDING", "APPROVED", "INACTIVE"}]
  BY TheRequest DEF NomisSubmit, Prepared, SerialInv, TypeOK
<1>. SUFFICES ASSUME Undisturbed PROVE ForeseenInv'
  BY DEF ForeseenInv, Undisturbed
<1>2. PendingLast /\ Holds(rows) /\ Credits(rows)
  BY <1>1, ForeseenNow DEF Submitting, Approving
<1>3. CASE Rollback(r) /\ UNCHANGED nomis
  BY <1>1, <1>3, RollbackForeseen
<1>4. CASE tx' = [tx EXCEPT ![r].step = "commit"] /\ UNCHANGED nomis
  <2>1. PICK t : /\ tx' = [tx EXCEPT ![r] = t]
                 /\ t.step = "commit" /\ SameWork(t, tx[r])
    BY <1>4, StepTaken
  <2>2. Leaves(tx[r])
    BY <1>1, <1>2, SubmittedRow
  <2>3. Leaves(t)
    BY <2>1, <2>2, SameWorkFacts DEF Leaves, SameWork, Untouched
  <2>4. Foreseen(t)
    BY <1>1, <2>1, <2>3 DEF Foreseen, SameWork
  <2>. QED
    BY <1>1, <1>4, <2>1, <2>4, OwnForeseen
<1>5. ASSUME NEW k \in Assessments,
             /\ nomis[k] = "NONE"
             /\ \A j \in Assessments : j < k => nomis[j] # "NONE"
             /\ nomis' = [nomis EXCEPT ![k] = "PENDING"]
             /\ tx' = [tx EXCEPT ![r].step = "record", ![r].made = k]
      PROVE  ForeseenInv'
  <2>1. /\ nomis[k] = "NONE"
        /\ \A j \in Assessments : j < k => nomis[j] # "NONE"
        /\ nomis' = [nomis EXCEPT ![k] = "PENDING"]
        /\ tx' = [tx EXCEPT ![r].step = "record", ![r].made = k]
    BY <1>5
  <2>2. PICK t : t = [tx[r] EXCEPT !.step = "record", !.made = k]
    OBVIOUS
  <2>3. t.step = "record" /\ t.op = "submit" /\ t.made = k
    BY <1>1, <2>2 DEF Transaction
  <2>11. tx' = [tx EXCEPT ![r] = t]
    BY <1>1, <2>1, <2>2
  <2>4. /\ nomis'[k] = "PENDING"
        /\ \A j \in Assessments : j # k => nomis'[j] = nomis[j]
    BY <1>1, <2>1
  <2>5. \A j \in Assessments : nomis[j] = "PENDING" => FALSE
    <3>. SUFFICES ASSUME NEW j \in Assessments, nomis[j] = "PENDING" PROVE FALSE
      OBVIOUS
    <3>1. PICK s \in Seqs : rows[s].nomisSeq = j /\ rows[s].status \in InProgress
      BY <1>2 DEF Holds, AtNomis, InProgress
    <3>2. tx'[r] = t /\ Prepared(tx[r])'
      BY <1>1, <2>11 DEF SerialInv
    <3>3. (\A u \in Seqs : rows[u].status \in InProgress => rows[u].nomisSeq = 0)'
      BY <2>3, <3>2 DEF Prepared
    <3>. QED
      BY <1>1, <3>1, <3>3 DEF Assessments
  <2>6. PendingLast'
    <3>. SUFFICES ASSUME NEW i \in Assessments, NEW j \in Assessments,
                         nomis'[j] = "PENDING", nomis'[i] = "APPROVED"
                  PROVE  i < j
      BY DEF PendingLast
    <3>1. j = k /\ nomis[i] = "APPROVED" /\ i # k
      BY <2>4, <2>5
    <3>2. ~(k < i)
      BY <1>1, <2>1, <3>1 DEF Dense
    <3>. QED
      BY <3>1, <3>2 DEF Assessments
  <2>7. Credits(rows)'
    BY <1>1, <1>2, <2>4 DEF Credits
  <2>8. \A j \in Assessments : nomis'[j] = "PENDING" => j = k
    BY <2>4, <2>5
  <2>9. Foreseen(t)'
    BY <2>3, <2>8 DEF Foreseen
  <2>10. Submitting(t)
    BY <2>3 DEF Submitting
  <2>. QED
    BY <2>6, <2>7, <2>9, <2>10, <2>11, ForeseenNext
<1>6. \/ Rollback(r) /\ UNCHANGED nomis
      \/ tx' = [tx EXCEPT ![r].step = "commit"] /\ UNCHANGED nomis
      \/ \E k \in Assessments :
            /\ nomis[k] = "NONE"
            /\ \A j \in Assessments : j < k => nomis[j] # "NONE"
            /\ nomis' = [nomis EXCEPT ![k] = "PENDING"]
            /\ tx' = [tx EXCEPT ![r].step = "record", ![r].made = k]
  BY DEF NomisSubmit
<1>. QED
  BY <1>3, <1>4, <1>5, <1>6

\* What NOMIS approves is that of the stamped row, and nothing is pending then.
LEMMA ApproveForeseen ==
    ASSUME OneAtATime, IInv, SerialInv, ForeseenInv,
           NEW r \in Requests, NomisApprove(r), UNCHANGED <<atWork, faulty>>
    PROVE  ForeseenInv'
<1>1. /\ tx[r] \in Transaction /\ tx[r].step = "approve" /\ tx[r].op = "approve"
      /\ \/ Stamped(tx[r]) /\ tx[r].referral = "COMPLETED"
         \/ Untouched(tx[r]) /\ NothingInProgress(rows)
      /\ tx \in [Requests -> Transaction] /\ UNCHANGED rows
      /\ rows \in [Seqs -> Row] /\ TableShaped(rows)
      /\ nomis \in [Assessments -> {"NONE", "PENDING", "APPROVED", "INACTIVE"}]
  BY TheRequest DEF NomisApprove, Prepared, TypeOK
<1>. SUFFICES ASSUME Undisturbed PROVE ForeseenInv'
  BY DEF ForeseenInv, Undisturbed
<1>2. PendingLast /\ Holds(rows) /\ Credits(rows)
  BY <1>1, ForeseenNow DEF Submitting, Approving
<1>3. CASE ApprovalRefused(r) /\ UNCHANGED nomis
  BY <1>1, <1>3, RollbackForeseen DEF ApprovalRefused
<1>4. CASE ~(ApprovalRefused(r) /\ UNCHANGED nomis)
  <2>1. PICK k \in Assessments :
           /\ LatestPending(k)
           /\ nomis' = [nomis EXCEPT ![k] = "APPROVED"]
           /\ tx' = [tx EXCEPT ![r].step = "commit"]
    BY <1>4 DEF NomisApprove
  <2>2. PICK t : /\ tx' = [tx EXCEPT ![r] = t]
                 /\ t.step = "commit" /\ SameWork(t, tx[r])
    BY <2>1, StepTaken
  <2>3. Stamped(tx[r]) /\ tx[r].referral = "COMPLETED"
    <3>1. NothingInProgress(rows) => NothingPending
      BY <1>2, NothingIsPending
    <3>. QED
      BY <1>1, <2>1, <3>1 DEF NothingPending, LatestPending
  <2>4. PICK s \in Seqs :
           /\ rows[s].status = "AWAITING_APPROVAL"
           /\ tx[r].held = {s}
           /\ tx[r].work[s] = [rows[s] EXCEPT !.status = "APPROVED",
                                              !.approved = TRUE]
    BY <2>3 DEF Stamped
  <2>a. PICK T : T = TableOf(t)
    OBVIOUS
  <2>5. /\ T[s].status = "APPROVED" /\ T[s].nomisSeq = rows[s].nomisSeq
        /\ T[s].catType = rows[s].catType
        /\ \A u \in Seqs : u # s => T[u] = rows[u]
    <3>1. rows[s] \in Row /\ t.held = {s} /\ t.work = tx[r].work
      BY <1>1, <2>2, <2>4 DEF SameWork
    <3>2. T[s] = tx[r].work[s] /\ \A u \in Seqs : u # s => T[u] = rows[u]
      BY <2>a, <3>1 DEF TableOf
    <3>. QED
      BY <2>4, <3>1, <3>2 DEF Row
  <2>6. rows[s].nomisSeq = k
    <3>1. rows[s].nomisSeq # 0 /\ rows[s].status \in InProgress
      BY <1>1, <2>4 DEF TableShaped, RowShaped, InProgress
    <3>2. LatestPending(rows[s].nomisSeq)
      BY <1>1, <3>1, SettledNow DEF Settled, Unsettled, Undisturbed
    <3>3. rows[s].nomisSeq \in Assessments
      BY <1>1, <3>1 DEF Row, Assessments
    <3>. QED
      BY <2>1, <3>2, <3>3 DEF LatestPending, Assessments
  <2>7. \A j \in Assessments : nomis[j] = "PENDING" => j = k
    <3>. SUFFICES ASSUME NEW j \in Assessments, nomis[j] = "PENDING" PROVE j = k
      OBVIOUS
    <3>1. PICK u \in Seqs : rows[u].nomisSeq = j /\ rows[u].status \in InProgress
      BY <1>2 DEF Holds, AtNomis, InProgress
    <3>2. u = s
      BY <1>1, <2>4, <3>1, OneUnderWay DEF InProgress
    <3>. QED
      BY <2>6, <3>1, <3>2
  <2>8. /\ nomis'[k] = "APPROVED"
        /\ \A j \in Assessments : j # k => nomis'[j] = nomis[j]
        /\ \A j \in Assessments : nomis'[j] # "PENDING"
    BY <1>1, <2>1, <2>7
  <2>9. PendingLast' /\ Holds(rows)'
    BY <2>8 DEF PendingLast, Holds
  <2>10. Leaves(t)'
    <3>1. TableOf(t)' = T
      BY <1>1, <2>a DEF TableOf
    <3>2. Holds(T)'
      BY <2>8 DEF Holds
    <3>3. Credits(T)'
      <4>. SUFFICES ASSUME NEW j \in Assessments, nomis'[j] = "APPROVED"
                    PROVE  \E u \in Seqs : T[u].nomisSeq = j
                                           /\ T[u].status = "APPROVED"
        BY DEF Credits
      <4>1. CASE j = k
        BY <2>5, <2>6, <4>1
      <4>2. CASE j # k
        <5>1. PICK u \in Seqs : rows[u].nomisSeq = j /\ rows[u].status = "APPROVED"
          BY <1>2, <2>8, <4>2 DEF Credits
        <5>2. u # s
          BY <2>4, <5>1
        <5>. QED
          BY <2>5, <5>1, <5>2
      <4>. QED
        BY <4>1, <4>2
    <3>4. MovesRow(T, s)
      <4>1. rows[s].status \in InProgress /\ Allowed(rows[s].status, "APPROVED")
        BY <2>4 DEF InProgress, Allowed, Previous
      <4>. QED
        BY <2>5, <4>1 DEF MovesRow
    <3>6. MovesRow(T, s)'
      BY <1>1, <3>4 DEF MovesRow
    <3>5. t.referral # "REFERRED"
      BY <2>2, <2>3 DEF SameWork
    <3>. QED
      BY <3>1, <3>2, <3>3, <3>5, <3>6 DEF Leaves
  <2>11. Foreseen(t)' /\ Approving(t)
    BY <1>1, <2>2, <2>10 DEF Foreseen, Approving, SameWork
  <2>. QED
    BY <2>2, <2>9, <2>11, ForeseenNext
<1>. QED
  BY <1>3, <1>4

\* The categorisation is sent back; its assessment stays pending.
LEMMA RejectForeseen ==
    ASSUME OneAtATime, IInv, SerialInv, ForeseenInv,
           NEW r \in Requests, NomisReject(r), UNCHANGED <<atWork, faulty>>
    PROVE  ForeseenInv'
<1>1. tx[r].step = "reject" /\ UNCHANGED <<rows, nomis>>
  BY DEF NomisReject
<1>2. CASE Rollback(r)
  BY <1>1, <1>2, RollbackForeseen
<1>3. CASE tx' = [tx EXCEPT ![r].step = "commit"]
  <2>1. PICK t : /\ tx' = [tx EXCEPT ![r] = t]
                 /\ t.step = "commit" /\ SameWork(t, tx[r])
    BY <1>3, StepTaken
  <2>2. Leaves(tx[r]) => Leaves(t)
    BY <2>1, SameWorkFacts DEF Leaves, SameWork, Untouched
  <2>3. Undisturbed => Foreseen(t)
    BY <1>1, <2>1, <2>2, ForeseenNow DEF Foreseen, SameWork
  <2>. QED
    BY <1>1, <2>1, <2>3, OwnForeseen
<1>. QED
  BY <1>2, <1>3 DEF NomisReject

\* A cancellation leaves nothing pending.
LEMMA InactivateForeseen ==
    ASSUME OneAtATime, IInv, SerialInv, ForeseenInv,
           NEW r \in Requests, NomisInactivate(r), UNCHANGED <<atWork, faulty>>
    PROVE  ForeseenInv'
<1>1. /\ tx[r].step = "inactivate" /\ UNCHANGED rows
      /\ \A k \in Assessments :
            nomis'[k] = IF nomis[k] = "PENDING" THEN "INACTIVE" ELSE nomis[k]
  BY DEF NomisInactivate
<1>2. PICK t : /\ tx' = [tx EXCEPT ![r] = t]
               /\ t.step = "reread" /\ SameWork(t, tx[r])
  BY ZenonT(30), StepTaken DEF NomisInactivate
<1>. SUFFICES ASSUME Undisturbed PROVE ForeseenInv'
  BY DEF ForeseenInv, Undisturbed
<1>3. Credits(rows)
  BY <1>1, ForeseenNow DEF Approving
<1>4. NothingPending' /\ PendingLast' /\ Holds(rows)'
  BY <1>1 DEF NothingPending, PendingLast, Holds
<1>5. Credits(rows)'
  BY <1>1, <1>3 DEF Credits
<1>6. Foreseen(t)'
  BY <1>2, <1>4 DEF Foreseen
<1>. QED
  BY <1>2, <1>4, <1>5, <1>6, ForeseenNext


LEMMA NomisForeseen ==
    ASSUME OneAtATime, IInv, SerialInv, SerialInv', ForeseenInv,
           NEW r \in Requests, NomisStep(r), UNCHANGED <<atWork, faulty>>
    PROVE  ForeseenInv'
BY SubmitForeseen, ApproveForeseen, RejectForeseen, InactivateForeseen DEF NomisStep
-----------------------------------------------------------------------------
(* The rest of the steps *)

\* What is committed is what was foreseen.
LEMMA CommitForeseen ==
    ASSUME OneAtATime, IInv, SerialInv, ForeseenInv, NEW r \in Requests,
           Commit(r), UNCHANGED <<atWork, faulty>>
    PROVE  ForeseenInv'
<1>. SUFFICES ASSUME Undisturbed PROVE ForeseenInv'
  BY DEF ForeseenInv, Undisturbed
<1>1. tx[r].step = "commit" /\ rows' = TableOf(tx[r]) /\ UNCHANGED nomis
  BY TheRequest DEF Commit, Prepared
<1>2. PendingLast /\ Leaves(tx[r])
  BY <1>1, ForeseenNow DEF Foreseen
<1>3. PendingLast' /\ Holds(rows)' /\ Credits(rows)'
  BY <1>1, <1>2 DEF Leaves, PendingLast, Holds, Credits
<1>4. \A q \in Requests : tx'[q] = Idle
  BY DEF Commit, OneAtATime
<1>5. Foreseen(Idle)'
  BY DEF Foreseen, Idle
<1>. QED
  BY <1>3, <1>4, <1>5 DEF ForeseenInv

\* Outside the requests, only a security review writes a row.
LEMMA OutsideForeseen ==
    ASSUME OneAtATime, IInv, SerialInv, ForeseenInv,
           \/ \E r \in Requests : CancelReferral(r) \/ SecurityReviewed(r)
           \/ RiskChangeRaised
           \/ UNCHANGED vars,
           UNCHANGED <<atWork, faulty>>
    PROVE  ForeseenInv'
<1>. SUFFICES ASSUME Undisturbed PROVE ForeseenInv'
  BY DEF ForeseenInv, Undisturbed
<1>1. CASE UNCHANGED <<rows, nomis, tx>>
  <2>1. /\ \A q \in Requests : tx'[q] = tx[q] /\ Foreseen(tx[q])
        /\ \A t : Foreseen(t)' <=> Foreseen(t)
    BY <1>1, SameForeseen DEF ForeseenInv
  <2>2. ASSUME NEW q \in Requests PROVE Foreseen(tx[q])'
    <3>1. PICK t : t = tx[q] /\ Foreseen(t)
      BY <2>1
    <3>2. Foreseen(t)'
      BY <2>1, <3>1
    <3>. QED
      BY <2>1, <3>1, <3>2
  <2>3. PendingLast'
    BY <1>1, SameForeseen DEF ForeseenInv
  <2>4. ((\A q \in Requests : ~Submitting(tx[q])) => Holds(rows))'
    BY <1>1, SameForeseen DEF ForeseenInv, Submitting
  <2>5. ((\A q \in Requests : ~Approving(tx[q])) => Credits(rows))'
    BY <1>1, SameForeseen DEF ForeseenInv, Approving
  <2>. QED
    BY <2>2, <2>3, <2>4, <2>5 DEF ForeseenInv
<1>2. ASSUME NEW r \in Requests, SecurityReviewed(r) PROVE ForeseenInv'
  <2>1. PICK s \in Seqs :
           /\ tx[r].step = "idle" /\ Allowed(rows[s].status, "SECURITY_BACK")
           /\ rows' = [rows EXCEPT ![s].status = "SECURITY_BACK"]
           /\ UNCHANGED <<nomis, tx>>
    BY <1>2 DEF SecurityReviewed
  <2>2. /\ PendingLast /\ Holds(rows) /\ Credits(rows) /\ Foreseen(tx[r])
    BY <2>1, ForeseenNow DEF Submitting, Approving
  <2>3. rows[s] \in Row /\ rows[s].status \in InProgress
    BY <2>1, AllowedFrom DEF IInv, TypeOK, Statuses, InProgress
  <2>4. /\ rows'[s].nomisSeq = rows[s].nomisSeq
        /\ rows'[s].status = "SECURITY_BACK"
        /\ \A u \in Seqs : u # s => rows'[u] = rows[u]
    BY <2>1, <2>3 DEF IInv, TypeOK, Row
  <2>5. rows[s].status # "APPROVED"
    BY <2>3, InProgressFacts
  <2>6. PendingLast'
    BY <2>1, <2>2 DEF PendingLast
  <2>7. Holds(rows)'
    BY <2>1, <2>2, <2>4 DEF Holds, AtNomis
  <2>8. Credits(rows)'
    BY <2>1, <2>2, <2>4, <2>5 DEF Credits
  <2>9. (\A q \in Requests : Foreseen(tx[q]))'
    <3>1. \A q \in Requests : q = r /\ tx'[q] = tx[r]
      BY <2>1 DEF OneAtATime
    <3>2. PICK t : t = tx[r] /\ t.step = "idle" /\ Foreseen(t)
      BY <2>1, <2>2
    <3>3. Foreseen(t)'
      BY <2>1, <3>2 DEF Foreseen, NothingPending
    <3>. QED
      BY <3>1, <3>2, <3>3
  <2>. QED
    BY <2>6, <2>7, <2>8, <2>9 DEF ForeseenInv
<1>. QED
  BY <1>1, <1>2 DEF CancelReferral, RiskChangeRaised, vars

LEMMA InitForeseen == Init => ForeseenInv
<1>. SUFFICES ASSUME Init PROVE ForeseenInv
  OBVIOUS
<1>1. \A k \in Assessments : nomis[k] = "NONE"
  BY DEF Init
<1>2. PendingLast /\ Holds(rows) /\ Credits(rows)
  BY <1>1 DEF PendingLast, Holds, Credits
<1>3. Foreseen(Idle)
  BY DEF Foreseen, Idle
<1>4. \A q \in Requests : Foreseen(tx[q])
  BY <1>3 DEF Init
<1>. QED
  BY <1>2, <1>4 DEF ForeseenInv

LEMMA NextForeseen ==
    ASSUME OneAtATime, IInv, SerialInv, ForeseenInv, [Next]_vars
    PROVE  ForeseenInv'
<1>1. UNCHANGED <<atWork, faulty>>
  BY DEF Next, vars, setting
<1>2. SerialInv'
  BY NextSerial
<1>3. ASSUME NEW r \in Requests, Abort(r) PROVE ForeseenInv'
  BY <1>1, <1>3 DEF Abort, ForeseenInv, Undisturbed
<1>. QED
  BY <1>1, <1>2, <1>3, NobodyWaits, BeginForeseen, DatabaseForeseen,
     NomisForeseen, CommitForeseen, OutsideForeseen DEF Next, Step
-----------------------------------------------------------------------------
(* What the lists look up *)

\* Some assessment is the latest of those that are.
LEMMA LatestExists ==
    ASSUME NEW S \in SUBSET Assessments, S # {}
    PROVE  \E m \in S : \A x \in S : x <= m
<1>. DEFINE Above(x) == {y \in S : y > x}
            T == {Above(x) : x \in S}
<1>0. \A x \in S : x \in Int
  BY DEF Assessments
<1>1. IsWellFoundedOn(StrictSubsetOrdering(S), SUBSET S)
  <2>1. IsFiniteSet(Assessments)
    BY MaxNomisAssumption, FS_Interval DEF Assessments
  <2>. QED
    BY <2>1, FS_Subset, FS_StrictSubsetOrderingWellFounded, FS_FiniteSubsetsOfFinite
<1>2. T \subseteq SUBSET S /\ T # {}
  OBVIOUS
<1>. HIDE DEF T
<1>3. PICK t \in T : \A u \in T : ~(<<u, t>> \in StrictSubsetOrdering(S))
  BY <1>1, <1>2, WFMin
<1>4. PICK m \in S : t = Above(m)
  BY DEF T
<1>5. ASSUME NEW y \in S, y > m PROVE FALSE
  <2>1. Above(y) \subseteq Above(m)
    BY <1>0, <1>5
  <2>2. y \in Above(m) /\ y \notin Above(y)
    BY <1>0, <1>5
  <2>3. Above(y) \in T
    BY DEF T
  <2>4. Above(y) \in SUBSET S /\ Above(m) \in SUBSET S
    OBVIOUS
  <2>. HIDE DEF Above
  <2>5. <<Above(y), Above(m)>> \in StrictSubsetOrdering(S)
    BY <2>1, <2>2, <2>4 DEF StrictSubsetOrdering
  <2>. QED
    BY <1>3, <1>4, <2>3, <2>5
<1>6. \A y \in S : y <= m
  BY <1>0, <1>5
<1>. QED
  BY <1>6

\* The latest assessment of the answer is what its definition says.
LEMMA LatestIs ==
    /\ Latest \in 0..MaxNomis
    /\ Latest # 0 => answer[Latest] \in {"PENDING", "APPROVED"}
    /\ \A j \in Assessments : j > Latest => answer[j] \notin {"PENDING", "APPROVED"}
<1>. DEFINE S == {k \in Assessments : answer[k] \in {"PENDING", "APPROVED"}}
<1>1. \E k \in 0..MaxNomis :
         /\ k # 0 => answer[k] \in {"PENDING", "APPROVED"}
         /\ \A j \in Assessments : j > k => answer[j] \notin {"PENDING", "APPROVED"}
  <2>1. CASE S = {}
    BY <2>1, MaxNomisAssumption
  <2>2. CASE S # {}
    <3>1. PICK m \in S : \A x \in S : x <= m
      BY <2>2, LatestExists
    <3>2. /\ m \in 0..MaxNomis /\ answer[m] \in {"PENDING", "APPROVED"}
          /\ \A j \in Assessments : j > m => j \notin S
      BY <3>1 DEF Assessments
    <3>. QED
      BY <3>2
  <2>. QED
    BY <2>1, <2>2
<1>. QED
  BY <1>1 DEF Latest

\* Its status, as the lists read it.
LEMMA AssessStatusIs ==
    ASSUME PendingLast, answer = nomis
    PROVE  /\ AssessStatus \in {"P", "A", "NONE"}
           /\ AssessStatus = "P" <=> ~NothingPending
           /\ AssessStatus = "P" => LatestPending(Latest) /\ Latest \in Assessments
           /\ Categorised => AssessStatus \in {"A", "P"}
           /\ AssessStatus = "A" => Categorised \/ prisoner.other
<1>1. /\ Latest \in 0..MaxNomis
      /\ Latest # 0 => nomis[Latest] \in {"PENDING", "APPROVED"}
      /\ \A j \in Assessments : j > Latest => nomis[j] \notin {"PENDING", "APPROVED"}
  BY LatestIs
<1>2. Latest # 0 => Latest \in Assessments
  BY <1>1 DEF Assessments
<1>3. \A j \in Assessments : nomis[j] \in {"PENDING", "APPROVED"} =>
                                Latest # 0 /\ j <= Latest
  BY <1>1, MaxNomisAssumption DEF Assessments
<1>4. ~NothingPending => Latest # 0 /\ nomis[Latest] = "PENDING"
  <2>. SUFFICES ASSUME NEW k \in Assessments, nomis[k] = "PENDING"
                PROVE  Latest # 0 /\ nomis[Latest] = "PENDING"
    BY DEF NothingPending
  <2>1. Latest \in Assessments /\ Latest # 0 /\ k <= Latest
    BY <1>2, <1>3
  <2>2. nomis[Latest] = "APPROVED" => Latest < k
    BY <2>1 DEF PendingLast
  <2>. QED
    BY <1>1, <2>1, <2>2 DEF Assessments
<1>5. Latest # 0 /\ nomis[Latest] = "PENDING" => LatestPending(Latest)
  BY <1>1 DEF LatestPending
<1>6. Categorised => Latest # 0
  BY <1>3 DEF Categorised
<1>7. Latest # 0 /\ nomis[Latest] = "APPROVED" => Categorised
  BY <1>2 DEF Categorised
<1>. QED
  BY <1>1, <1>2, <1>4, <1>5, <1>6, <1>7 DEF AssessStatus, NothingPending

\* A row under way is the one that is looked up.
LEMMA CurrentUnderWay ==
    ASSUME TableShaped(rows), NEW s \in Seqs, rows[s].status \in InProgress
    PROVE  CurrentSeq = s /\ Current = rows[s]
<1>1. IsCurrent(rows, s) /\ s \in 0..MaxSeq
  BY DEF TableShaped, Seqs
<1>2. \A u \in 0..MaxSeq : IsCurrent(rows, u) => u = s
  BY <1>1, CurrentUnique
<1>3. CurrentSeq = s
  BY <1>1, <1>2 DEF CurrentSeq
<1>. QED
  BY <1>3 DEF Current, RowAt

LEMMA LastUnderWay ==
    ASSUME NEW s \in Seqs, rows[s].status \in InProgress,
           \A u \in Seqs : u > s => rows[u] = NoRow
    PROVE  LastSeq = s /\ Last = rows[s]
<1>1. rows[s] # NoRow
  BY InProgressFacts DEF NoRow
<1>2. \A u \in 0..MaxSeq :
         /\ u # 0 => rows[u] # NoRow
         /\ \A q \in Seqs : q > u => rows[q] = NoRow
         => u = s
  BY <1>1, MaxSeqAssumption DEF Seqs
<1>3. s \in 0..MaxSeq
  BY DEF Seqs
<1>4. LastSeq = s
  BY <1>1, <1>2, <1>3 DEF LastSeq
<1>. QED
  BY <1>4 DEF Last, RowAt

\* When nothing is, nothing that is looked up is under way.
LEMMA NothingLookedUp ==
    ASSUME NothingInProgress(rows)
    PROVE  /\ Current.status \notin InProgress /\ Last.status \notin InProgress
           /\ ~ManualInProgress("INITIAL") /\ ~ManualInProgress("RECAT")
<1>1. \A u : RowAt(rows, u).status \notin InProgress
  BY InProgressFacts DEF NothingInProgress, RowAt, NoRow
<1>2. Current.status \notin InProgress /\ Last.status \notin InProgress
  BY <1>1 DEF Current, Last
<1>. QED
  BY <1>2 DEF ManualInProgress

\* An approved row has its approved assessment.
LEMMA ApprovedInNomis ==
    ASSUME IInv, SerialInv, NEW s \in Seqs, rows[s].status = "APPROVED"
    PROVE  /\ rows[s].nomisSeq \in Assessments
           /\ nomis[rows[s].nomisSeq] = "APPROVED"
<1>1. rows[s] \in Row
  BY DEF IInv, TypeOK
<1>2. rows[s].nomisSeq # 0 /\ approvedFor[rows[s].nomisSeq] = s
  BY DEF SerialInv, TableSound, TableShaped, TableBacked, RowShaped, RowBacked
<1>3. rows[s].nomisSeq \in Assessments
  BY <1>1, <1>2 DEF Row, Assessments
<1>. QED
  BY <1>2, <1>3 DEF IInv, CreditIsApproved, Seqs

\* Where every approval is of a row, the prisoner is categorised exactly
\* when a row is approved.
LEMMA CategorisedHere ==
    ASSUME IInv, SerialInv, Credits(rows), answer = nomis
    PROVE  Categorised <=> ~NoneApproved
BY ApprovedInNomis DEF Categorised, NoneApproved, Credits
-----------------------------------------------------------------------------
(* What is under way came from a list *)

\* The list, or the landing page, that a review is opened from.
LEMMA OpenedFromList ==
    ASSUME IInv, SerialInv, PendingLast, NothingPending, Credits(rows),
           NothingInProgress(rows), NEW catType \in {"INITIAL", "RECAT"},
           NEW early \in BOOLEAN, OpenedFrom(catType, early)
    PROVE  /\ catType = "RECAT" => ~NoneApproved
           /\ \/ early
              \/ catType = "INITIAL" /\ NoneApproved
                    /\ prisoner.sentenced /\ ~prisoner.other
              \/ catType = "RECAT" /\ (prisoner.due \/ prisoner.under21)
<1>1. answer = nomis
  BY DEF OpenedFrom
<1>2. Categorised <=> ~NoneApproved
  BY <1>1, CategorisedHere
<1>3. /\ AssessStatus \in {"A", "NONE"}
      /\ Categorised => AssessStatus = "A"
      /\ AssessStatus = "A" => Categorised \/ prisoner.other
  BY <1>1, AssessStatusIs
<1>4. ~ManualInProgress("INITIAL") /\ ~ManualInProgress("RECAT")
  BY NothingLookedUp
<1>5. CASE catType = "RECAT"
  <2>1. CASE early
    <3>1. RequiredCatType = "RECAT"
      BY <1>5, <2>1 DEF OpenedFrom, StartedEarly, RecategoriserOffered
    <3>. QED
      BY <1>2, <1>5, <2>1, <3>1 DEF RequiredCatType
  <2>2. CASE ~early
    <3>1. OnRecategorise
      BY <1>5, <2>2 DEF OpenedFrom
    <3>2. Categorised /\ (prisoner.due \/ prisoner.under21)
      BY <1>3, <1>4, <3>1 DEF OnRecategorise, DueRecat, DueInNomis, Under21Recat
    <3>. QED
      BY <1>2, <1>5, <3>2
  <2>. QED
    BY <2>1, <2>2
<1>6. CASE catType = "INITIAL" /\ ~early
  <2>1. OnUncategorised
    BY <1>6 DEF OpenedFrom
  <2>2. AssessStatus # "A" /\ prisoner.sentenced
    BY <1>4, <2>1 DEF OnUncategorised, Listed, NomisUncategorised
  <2>3. ~prisoner.other
    <3>1. AssessStatus = "NONE" /\ answer = nomis
      BY <1>1, <1>3, <2>2
    <3>. QED
      BY <3>1 DEF AssessStatus
  <2>. QED
    BY <1>2, <1>3, <1>6, <2>2, <2>3
<1>. QED
  BY <1>5, <1>6

\* What a step of the flow marks on the rows.
LEMMA FlowMarks ==
    ASSUME FlowStep, NEW s \in Seqs
    PROVE  /\ rows[s] = NoRow /\ rows'[s] # NoRow =>
                 manual'[s] \in BOOLEAN /\ OpenedFrom(rows'[s].catType, manual'[s])
           /\ ~(rows[s] = NoRow /\ rows'[s] # NoRow) =>
                 /\ manual'[s] = manual[s]
                 /\ reviewed[s] => reviewed'[s]
                 /\ tx' = tx /\ rows'[s] # rows[s]
                       /\ rows'[s].status = "SECURITY_BACK" => reviewed'[s]
<1>. DEFINE opened == {u \in Seqs : rows[u] = NoRow /\ rows'[u] # NoRow}
<1>1. PICK early \in BOOLEAN :
         /\ \A u \in opened : OpenedFrom(rows'[u].catType, early)
         /\ manual' = [u \in Seqs |-> IF u \in opened THEN early ELSE manual[u]]
         /\ reviewed' = [u \in Seqs |-> u \notin opened /\
               \/ reviewed[u]
               \/ tx' = tx /\ rows'[u] # rows[u] /\ rows'[u].status = "SECURITY_BACK"]
  BY DEF FlowStep
<1>. QED
  BY <1>1

\* Where the row stays as it is.
LEMMA StaysUnderWay ==
    ASSUME NEW s \in Seqs, UnderWay(s), UNCHANGED <<rows, manual>>,
           reviewed[s] => reviewed'[s],
           /\ prisoner'.sentenced = prisoner.sentenced
           /\ prisoner'.other = prisoner.other
           /\ prisoner'.under21 = prisoner.under21,
           rows[s].status \in InProgress =>
               StalePages \/ ~prisoner.due \/ prisoner'.due,
           rows[s].status \in InProgress /\ referral' = "REFERRED"
               => referral = "REFERRED"
    PROVE  UnderWay(s)'
<1>1. NoneApproved' <=> NoneApproved
  BY DEF NoneApproved
<1>2. rows[s].status \in InProgress /\ FromItsList(s) => FromItsList(s)'
  BY <1>1 DEF FromItsList
<1>. QED
  BY <1>2 DEF UnderWay

\* What a commit leaves.
LEMMA CommitUnderWay ==
    ASSUME OneAtATime, IInv, SerialInv, SerialInv', ForeseenInv, Undisturbed,
           \A s \in Seqs : UnderWay(s),
           NEW r \in Requests, Commit(r), FlowStep
    PROVE  \A s \in Seqs : UnderWay(s)'
<1>1. /\ tx[r].step = "commit" /\ rows' = TableOf(tx[r]) /\ UNCHANGED nomis
      /\ referral' = ReferralAfter(tx[r].referral)
  BY TheRequest DEF Commit, Prepared
<1>2. PendingLast /\ Leaves(tx[r])
  BY <1>1, ForeseenNow DEF Foreseen
<1>3. referral' = "REFERRED" => tx[r].referral = "REFERRED" \/ referral = "REFERRED"
  BY <1>1 DEF ReferralAfter
<1>4. NothingInProgress(rows) => referral # "REFERRED"
  BY DEF SerialInv, ReferralSound, Undisturbed
<1>5. UNCHANGED prisoner
  BY DEF FlowStep
<1>6. CASE Untouched(tx[r]) /\ (tx[r].referral # "REFERRED" \/ NothingInProgress(rows))
  <2>1. rows' = rows
    BY <1>1, <1>6 DEF Untouched
  <2>2. ASSUME NEW s \in Seqs PROVE UnderWay(s)'
    <3>1. rows[s].status \notin InProgress => UnderWay(s)'
      BY <2>1 DEF UnderWay
    <3>2. manual'[s] = manual[s] /\ (reviewed[s] => reviewed'[s])
      BY <2>1, FlowMarks
    <3>3. rows[s].status \in InProgress /\ referral' = "REFERRED" => referral = "REFERRED"
      BY <1>3, <1>6 DEF NothingInProgress
    <3>4. NoneApproved' <=> NoneApproved
      BY <2>1 DEF NoneApproved
    <3>5. FromItsList(s) => FromItsList(s)'
      BY <1>5, <2>1, <3>2, <3>4 DEF FromItsList
    <3>. QED
      BY <2>1, <3>1, <3>2, <3>3, <3>5 DEF UnderWay
  <2>. QED
    BY <2>2
<1>7. ASSUME NEW n \in Seqs, OpensRow(rows', n),
             tx[r].referral = "REFERRED" => rows'[n].status = "SECURITY_FLAGGED"
      PROVE  \A s \in Seqs : UnderWay(s)'
  <2>1. /\ IsNext(rows, n) /\ NothingInProgress(rows)
        /\ NothingPending /\ Credits(rows)
        /\ \A s \in Seqs : s # n => rows'[s] = rows[s]
        /\ rows'[n].status \in {"STARTED", "SECURITY_AUTO", "SECURITY_FLAGGED"}
        /\ rows'[n].catType \in {"INITIAL", "RECAT"}
    BY <1>7 DEF OpensRow
  <2>2. /\ rows[n] = NoRow /\ rows'[n] # NoRow
        /\ \A u \in Seqs : u > n => rows'[u] = NoRow
    <3>1. \A u \in Seqs : u >= n => rows[u] = NoRow
      BY <2>1 DEF IsNext
    <3>2. rows'[n] # NoRow
      BY <2>1 DEF NoRow, Undefined
    <3>. QED
      BY <2>1, <3>1, <3>2 DEF Seqs
  <2>3. manual'[n] \in BOOLEAN /\ OpenedFrom(rows'[n].catType, manual'[n])
    BY <2>2, FlowMarks
  <2>4. /\ rows'[n].catType = "RECAT" => ~NoneApproved
        /\ \/ manual'[n]
           \/ rows'[n].catType = "INITIAL" /\ NoneApproved
                 /\ prisoner.sentenced /\ ~prisoner.other
           \/ rows'[n].catType = "RECAT" /\ (prisoner.due \/ prisoner.under21)
    BY <1>2, <2>1, <2>3, OpenedFromList
  <2>5. NoneApproved' <=> NoneApproved
    <3>1. rows'[n].status # "APPROVED" /\ rows[n].status # "APPROVED"
      BY <2>1, <2>2 DEF NoRow, Undefined
    <3>. QED
      BY <2>1, <3>1 DEF NoneApproved
  <2>6. FromItsList(n)'
    BY <1>5, <2>1, <2>4, <2>5 DEF FromItsList
  <2>7. referral' = "REFERRED" => rows'[n].status \in Referred
    BY <1>3, <1>4, <1>7, <2>1 DEF Referred
  <2>8. UnderWay(n)'
    BY <2>2, <2>6, <2>7 DEF UnderWay, Referred
  <2>9. ASSUME NEW s \in Seqs, s # n PROVE UnderWay(s)'
    BY <2>1, <2>9 DEF NothingInProgress, UnderWay
  <2>. QED
    BY <2>8, <2>9
<1>8. ASSUME NEW s \in Seqs, MovesRow(rows', s), tx[r].referral # "REFERRED"
      PROVE  \A u \in Seqs : UnderWay(u)'
  <2>1. /\ rows[s].status \in InProgress
        /\ \A u \in Seqs : u # s => rows'[u] = rows[u]
        /\ rows'[s].catType = rows[s].catType
        /\ Allowed(rows[s].status, rows'[s].status)
        /\ rows'[s].status \in {"SECURITY_MANUAL", "SUPERVISOR_BACK",
                                "AWAITING_APPROVAL", "APPROVED", "CANCELLED"}
    BY <1>8 DEF MovesRow
  <2>2. rows[s] # NoRow /\ UnderWay(s)
    BY <2>1, InProgressFacts DEF NoRow
  <2>3. manual'[s] = manual[s] /\ (reviewed[s] => reviewed'[s])
    BY <2>2, FlowMarks
  <2>4. ASSUME NEW u \in Seqs, u # s PROVE UnderWay(u)'
    <3>1. rows'[u].status \notin InProgress
      <4>1. rows[u].status \in InProgress => u = s
        BY <2>1, OneUnderWay DEF SerialInv, TableSound
      <4>. QED
        BY <2>1, <2>4, <4>1
    <3>. QED
      BY <3>1 DEF UnderWay
  <2>5. ASSUME rows'[s].status \in InProgress PROVE UnderWay(s)'
    <3>1. NoneApproved' <=> NoneApproved
      <4>1. rows'[s].status # "APPROVED" /\ rows[s].status # "APPROVED"
        BY <2>1, <2>5, InProgressFacts
      <4>. QED
        BY <2>1, <4>1 DEF NoneApproved
    <3>2. FromItsList(s)'
      BY <1>5, <2>1, <2>2, <2>3, <3>1 DEF UnderWay, FromItsList
    <3>3. \A u \in Seqs : u > s => rows'[u] = NoRow
      BY <2>1, <2>2 DEF UnderWay, Seqs
    <3>4. referral' = "REFERRED" => rows'[s].status = "SECURITY_MANUAL" \/ reviewed'[s]
      <4>1. referral' = "REFERRED" => rows[s].status \in Referred \/ reviewed[s]
        BY <1>3, <1>8, <2>1, <2>2 DEF UnderWay
      <4>2. rows[s].status \in Referred => rows'[s].status = "SECURITY_MANUAL"
        BY <2>1, <2>5, InProgressFacts DEF Referred, Allowed, Previous
      <4>. QED
        BY <2>3, <4>1, <4>2
    <3>. QED
      BY <3>2, <3>3, <3>4 DEF UnderWay, Referred
  <2>6. rows'[s].status \notin InProgress => UnderWay(s)'
    BY DEF UnderWay
  <2>. QED
    BY <2>4, <2>5, <2>6
<1>. QED
  BY <1>1, <1>2, <1>6, <1>7, <1>8 DEF Leaves

\* What any other step of the flow leaves.
LEMMA RestUnderWay ==
    ASSUME OneAtATime, IInv, SerialInv, \A s \in Seqs : UnderWay(s), FlowStep,
           \A r \in Requests : ~Commit(r)
    PROVE  \A s \in Seqs : UnderWay(s)'
<1>1. UNCHANGED prisoner /\ rows \in [Seqs -> Row]
  BY DEF FlowStep, IInv, TypeOK
<1>2. CASE rows' = rows /\ (referral' = referral \/ referral' = "CANCELLED")
  <2>1. ASSUME NEW s \in Seqs PROVE UnderWay(s)'
    <3>1. manual'[s] = manual[s] /\ (reviewed[s] => reviewed'[s]) /\ UnderWay(s)
      BY <1>2, FlowMarks
    <3>2. NoneApproved' <=> NoneApproved
      BY <1>2 DEF NoneApproved
    <3>3. FromItsList(s) => FromItsList(s)'
      BY <1>1, <1>2, <3>1, <3>2 DEF FromItsList
    <3>. QED
      BY <1>2, <3>1, <3>3 DEF UnderWay
  <2>. QED
    BY <2>1
<1>3. ASSUME NEW r \in Requests, SecurityReviewed(r)
      PROVE  \A s \in Seqs : UnderWay(s)'
  <2>1. PICK s \in Seqs :
           /\ Allowed(rows[s].status, "SECURITY_BACK")
           /\ rows' = [rows EXCEPT ![s].status = "SECURITY_BACK"]
           /\ tx' = tx /\ referral' = referral
    BY <1>3 DEF SecurityReviewed
  <2>2. rows[s] \in Row /\ rows[s].status \in InProgress /\ rows[s].status # "SECURITY_BACK"
    BY <1>1, <2>1 DEF Allowed, Previous, InProgress
  <2>3. /\ rows'[s].catType = rows[s].catType
        /\ rows'[s].status = "SECURITY_BACK"
        /\ \A u \in Seqs : u # s => rows'[u] = rows[u]
    BY <1>1, <2>1, <2>2 DEF Row
  <2>4. rows[s] # NoRow /\ UnderWay(s) /\ rows'[s] # rows[s]
    BY <2>2, <2>3, InProgressFacts DEF NoRow
  <2>5. manual'[s] = manual[s] /\ reviewed'[s]
    BY <2>1, <2>3, <2>4, FlowMarks
  <2>6. NoneApproved' <=> NoneApproved
    <3>1. rows'[s].status # "APPROVED" /\ rows[s].status # "APPROVED"
      BY <2>2, <2>3, InProgressFacts
    <3>. QED
      BY <2>3, <3>1 DEF NoneApproved
  <2>7. FromItsList(s)'
    BY <1>1, <2>2, <2>3, <2>4, <2>5, <2>6 DEF UnderWay, FromItsList
  <2>8. \A u \in Seqs : u > s => rows'[u] = NoRow
    BY <2>2, <2>3, <2>4 DEF UnderWay, Seqs
  <2>9. UnderWay(s)'
    BY <2>5, <2>7, <2>8 DEF UnderWay
  <2>10. ASSUME NEW u \in Seqs, u # s PROVE UnderWay(u)'
    <3>1. rows[u].status \in InProgress => u = s
      BY <2>2, OneUnderWay DEF SerialInv, TableSound
    <3>. QED
      BY <2>3, <2>10, <3>1 DEF UnderWay
  <2>. QED
    BY <2>9, <2>10
<1>4. Next
  BY DEF FlowStep
<1>5. ASSUME NEW r \in Requests,
             Begin(r) \/ DatabaseStep(r) \/ NomisStep(r) \/ Abort(r)
      PROVE  rows' = rows /\ referral' = referral
  BY <1>5 DEF Begin, SaveForm, SecurityInput, SendBack, Submit, Approve, Cancel,
              Tasklist, TasklistRecat, TasklistFor, RaiseReferral, Release,
              DatabaseStep, NomisStep, NomisSubmit, NomisApprove, NomisReject,
              NomisInactivate, Abort
<1>6. ASSUME NEW r \in Requests, CancelReferral(r)
      PROVE  rows' = rows /\ referral' = "CANCELLED"
  BY <1>6 DEF CancelReferral
<1>7. RiskChangeRaised => rows' = rows /\ referral' = referral
  BY DEF RiskChangeRaised
<1>. QED
  BY <1>2, <1>3, <1>4, <1>5, <1>6, <1>7, NobodyWaits DEF Next, Step

\* Everything the lists are made of.
LEMMA NextListInv ==
    ASSUME OneAtATime, IInv, SerialInv, ForeseenInv, ListInv,
           [ListNext]_listVars
    PROVE  ListInv'
<1>1. CASE FlowStep
  <2>1. Next /\ UNCHANGED <<prisoner, answer>> /\ UNCHANGED <<atWork, faulty>>
    BY <1>1 DEF FlowStep, Next, setting
  <2>2. SerialInv'
    BY <2>1, NextSerial
  <2>3. Undisturbed => \A s \in Seqs : UnderWay(s)'
    BY <1>1, <2>2, CommitUnderWay, RestUnderWay DEF ListInv
  <2>4. ListTypeOK'
    <3>1. PICK early \in BOOLEAN, opened \in SUBSET Seqs :
             /\ manual' = [s \in Seqs |-> IF s \in opened THEN early ELSE manual[s]]
             /\ reviewed' = [s \in Seqs |-> s \notin opened /\
                   \/ reviewed[s]
                   \/ tx' = tx /\ rows'[s] # rows[s] /\ rows'[s].status = "SECURITY_BACK"]
      BY <1>1 DEF FlowStep
    <3>2. manual' \in [Seqs -> BOOLEAN]
      BY <3>1 DEF ListInv, ListTypeOK
    <3>3. reviewed' \in [Seqs -> BOOLEAN]
      BY <3>1
    <3>. QED
      BY <2>1, <3>2, <3>3 DEF ListInv, ListTypeOK, Prisoner
  <2>. QED
    BY <2>1, <2>3, <2>4 DEF ListInv, Undisturbed
<1>2. CASE AskNomis \/ UNCHANGED listVars
  <2>1. UNCHANGED <<vars, manual, reviewed, prisoner>> /\ answer' \in {nomis, answer}
    BY <1>2 DEF AskNomis, listVars
  <2>2. UNCHANGED <<rows, referral, atWork, faulty>>
    BY <2>1 DEF vars, setting
  <2>3. ListTypeOK'
    BY <2>1 DEF ListInv, ListTypeOK, IInv, TypeOK, Prisoner
  <2>4. \A s \in Seqs : UnderWay(s) => UnderWay(s)'
    BY <2>1, <2>2, StaysUnderWay
  <2>. QED
    BY <2>1, <2>2, <2>3, <2>4 DEF ListInv, Undisturbed
<1>3. CASE NextReviewDate
  <2>1. /\ UNCHANGED <<vars, manual, reviewed, answer>>
        /\ Current.status \in InProgress => StalePages
    BY <1>3 DEF NextReviewDate
  <2>2. PICK due \in BOOLEAN, leaving \in Leaving :
           prisoner' = [prisoner EXCEPT !.due = due, !.leaving = leaving]
    BY <1>3 DEF NextReviewDate
  <2>3. UNCHANGED <<rows, referral, atWork, faulty>>
    BY <2>1 DEF vars, setting
  <2>4. /\ prisoner' \in Prisoner /\ prisoner'.others = prisoner.others
        /\ prisoner'.sentenced = prisoner.sentenced
        /\ prisoner'.other = prisoner.other
        /\ prisoner'.under21 = prisoner.under21
    BY <2>2 DEF ListInv, ListTypeOK, Prisoner
  <2>5. ListTypeOK'
    BY <2>1, <2>4 DEF ListInv, ListTypeOK, Prisoner
  <2>6. ASSUME NEW s \in Seqs, UnderWay(s) PROVE UnderWay(s)'
    <3>1. rows[s].status \in InProgress => StalePages
      BY <2>1, CurrentUnderWay DEF SerialInv, TableSound
    <3>. QED
      BY <2>1, <2>3, <2>4, <2>6, <3>1, StaysUnderWay
  <2>. QED
    BY <2>3, <2>4, <2>5, <2>6 DEF ListInv, Undisturbed
<1>4. CASE BecomesDue
  <2>1. /\ UNCHANGED <<vars, manual, reviewed, answer>>
        /\ prisoner' = [prisoner EXCEPT !.due = TRUE]
    BY <1>4 DEF BecomesDue
  <2>2. UNCHANGED <<rows, referral, atWork, faulty>>
    BY <2>1 DEF vars, setting
  <2>3. /\ prisoner' \in Prisoner /\ prisoner'.others = prisoner.others
        /\ prisoner'.sentenced = prisoner.sentenced
        /\ prisoner'.other = prisoner.other /\ prisoner'.due
        /\ prisoner'.under21 = prisoner.under21
    BY <2>1 DEF ListInv, ListTypeOK, Prisoner
  <2>4. ListTypeOK'
    BY <2>1, <2>3 DEF ListInv, ListTypeOK, Prisoner
  <2>5. \A s \in Seqs : UnderWay(s) => UnderWay(s)'
    BY <2>1, <2>2, <2>3, StaysUnderWay
  <2>. QED
    BY <2>2, <2>3, <2>4, <2>5 DEF ListInv, Undisturbed
<1>5. CASE StandingChanges
  <2>1. UNCHANGED <<vars, manual, reviewed, answer>>
    BY <1>5 DEF StandingChanges
  <2>2. PICK remand \in BOOLEAN, leaving \in Leaving :
           prisoner' = [prisoner EXCEPT !.remand = remand, !.leaving = leaving]
    BY <1>5 DEF StandingChanges
  <2>3. UNCHANGED <<rows, referral, atWork, faulty>>
    BY <2>1 DEF vars, setting
  <2>4. /\ prisoner' \in Prisoner /\ prisoner'.others = prisoner.others
        /\ prisoner'.sentenced = prisoner.sentenced
        /\ prisoner'.other = prisoner.other /\ prisoner'.due = prisoner.due
        /\ prisoner'.under21 = prisoner.under21
    BY <2>2 DEF ListInv, ListTypeOK, Prisoner
  <2>5. ListTypeOK'
    BY <2>1, <2>4 DEF ListInv, ListTypeOK, Prisoner
  <2>6. \A s \in Seqs : UnderWay(s) => UnderWay(s)'
    BY <2>1, <2>3, <2>4, StaysUnderWay
  <2>. QED
    BY <2>3, <2>4, <2>5, <2>6 DEF ListInv, Undisturbed
<1>. QED
  BY <1>1, <1>2, <1>3, <1>4, <1>5 DEF ListNext

LEMMA InitListInv == ListInit => ListInv
<1>. SUFFICES ASSUME ListInit PROVE ListInv
  OBVIOUS
<1>1. \A s \in Seqs : rows[s] = NoRow
  BY DEF ListInit, Init
<1>2. \A s \in Seqs : UnderWay(s)
  BY <1>1, InProgressFacts DEF UnderWay, NoRow
<1>3. ListTypeOK
  BY DEF ListInit, Init, ListTypeOK
<1>. QED
  BY <1>2, <1>3 DEF ListInit, ListInv
-----------------------------------------------------------------------------
(* What the lists make of it *)

\* Between requests, the table and NOMIS tell the same story.
LEMMA BetweenRequests ==
    ASSUME SerialInv, ForeseenInv, Undisturbed, AtOnce
    PROVE  /\ answer = nomis
           /\ PendingLast /\ Holds(rows) /\ Credits(rows) /\ Settled(rows)
<1>1. \A r \in Requests : ~Unsettled(tx[r]) /\ ~Submitting(tx[r]) /\ ~Approving(tx[r])
  BY DEF AtOnce, Unsettled, Submitting, Approving
<1>. QED
  BY <1>1 DEF AtOnce, SerialInv, ForeseenInv, Undisturbed

\* NOMIS has the row under way as pending when it is with the supervisor, and
\* only once it has been.
LEMMA PendingRow ==
    ASSUME IInv, SerialInv, PendingLast, Holds(rows), Settled(rows), answer = nomis,
           NEW s \in Seqs, rows[s].status \in InProgress
    PROVE  /\ rows[s].status = "AWAITING_APPROVAL" => AssessStatus = "P"
           /\ AssessStatus = "P" => /\ rows[s].status \in AtNomis
                                    /\ rows[s].nomisSeq = Latest
<1>1. AssessStatus = "P" <=> ~NothingPending
  BY AssessStatusIs
<1>2. rows[s].status = "AWAITING_APPROVAL" => ~NothingPending
  <2>. SUFFICES ASSUME rows[s].status = "AWAITING_APPROVAL" PROVE ~NothingPending
    OBVIOUS
  <2>1. rows[s] \in Row /\ rows[s].nomisSeq # 0
    BY DEF IInv, TypeOK, SerialInv, TableSound, TableShaped, RowShaped
  <2>2. rows[s].nomisSeq \in Assessments
    BY <2>1 DEF Row, Assessments
  <2>3. nomis[rows[s].nomisSeq] = "PENDING"
    BY <2>1 DEF Settled, LatestPending
  <2>. QED
    BY <2>2, <2>3 DEF NothingPending
<1>3. ASSUME AssessStatus = "P"
      PROVE  rows[s].status \in AtNomis /\ rows[s].nomisSeq = Latest
  <2>1. Latest \in Assessments /\ nomis[Latest] = "PENDING"
    BY <1>3, AssessStatusIs DEF LatestPending
  <2>2. PICK u \in Seqs : rows[u].nomisSeq = Latest /\ rows[u].status \in AtNomis
    BY <2>1 DEF Holds
  <2>3. u = s
    BY <2>2, OneUnderWay DEF SerialInv, TableSound, AtNomis, InProgress
  <2>. QED
    BY <2>2, <2>3
<1>. QED
  BY <1>1, <1>2, <1>3

\* The done lists and the history.
LEMMA HistoryFollows ==
    ASSUME IInv, SerialInv, ForeseenInv, Undisturbed
    PROVE  HistoryMatches
<1>. SUFFICES ASSUME AtOnce
              PROVE  /\ \A s \in Seqs : OnCategorised(s, {"INITIAL", "RECAT"}) =>
                                           \E k \in Assessments : Matched(s, k)
                     /\ \A k \in Assessments : answer[k] = "APPROVED" =>
                                           Cardinality(HistoryRows(k)) = 1
  BY DEF HistoryMatches
<1>1. answer = nomis /\ Credits(rows)
  BY BetweenRequests
<1>2. ASSUME NEW s \in Seqs, OnCategorised(s, {"INITIAL", "RECAT"})
      PROVE  \E k \in Assessments : Matched(s, k)
  BY <1>1, <1>2, ApprovedInNomis DEF OnCategorised, Approved, Matched
<1>3. ASSUME NEW k \in Assessments, answer[k] = "APPROVED"
      PROVE  Cardinality(HistoryRows(k)) = 1
  <2>1. PICK s \in Seqs : rows[s].nomisSeq = k /\ rows[s].status = "APPROVED"
    BY <1>1, <1>3 DEF Credits
  <2>2. ASSUME NEW u \in HistoryRows(k) PROVE u = s
    <3>1. u \in Seqs /\ rows[u].nomisSeq = k /\ k # 0
      BY DEF HistoryRows, Assessments
    <3>. QED
      BY <2>1, <3>1 DEF IInv, SequencesDiffer
  <2>3. HistoryRows(k) = {s}
    BY <2>1, <2>2 DEF HistoryRows, Approved
  <2>. QED
    BY <2>3, FS_Singleton
<1>. QED
  BY <1>2, <1>3

\* The lists but that, while nothing is under way.
LEMMA QuietLists ==
    ASSUME IInv, SerialInv, ForeseenInv, Undisturbed, AtOnce,
           NothingInProgress(rows)
    PROVE  /\ ~(OnUncategorised /\ OnRecategorise)
           /\ ~MarkedPnomis
           /\ OnRecategorise => ButtonStatus = "Start" /\ RecategoriserOffered = "Start"
           /\ ~OnReferred /\ Current.status \notin InProgress
<1>1. /\ answer = nomis
      /\ PendingLast /\ Holds(rows) /\ Credits(rows)
  BY BetweenRequests
<1>2. /\ AssessStatus \in {"A", "NONE"}
      /\ Categorised => AssessStatus = "A"
  BY <1>1, AssessStatusIs, NothingIsPending
<1>3. /\ Current.status \notin InProgress /\ Last.status \notin InProgress
      /\ ~ManualInProgress("INITIAL") /\ ~ManualInProgress("RECAT")
  BY NothingLookedUp
<1>4. Current.status \notin {"AWAITING_APPROVAL", "STARTED", "SECURITY_BACK",
                             "SUPERVISOR_BACK", "SECURITY_MANUAL"}
  BY <1>3 DEF InProgress
<1>5. OnRecategorise => Categorised
  BY <1>2, <1>3 DEF OnRecategorise, Under21Recat, DueRecat, DueInNomis
<1>6. OnUncategorised => AssessStatus # "A"
  BY <1>3 DEF OnUncategorised, Listed, NomisUncategorised
<1>7. Current.status = "APPROVED" => AssessStatus = "A"
  <2>. SUFFICES ASSUME Current.status = "APPROVED" PROVE AssessStatus = "A"
    OBVIOUS
  <2>1. CurrentSeq \in Seqs /\ rows[CurrentSeq].status = "APPROVED"
    BY DEF Current, RowAt, NoRow, Undefined
  <2>2. Categorised
    BY <1>1, <2>1, ApprovedInNomis DEF Categorised
  <2>. QED
    BY <1>2, <2>2
<1>8. ~MarkedPnomis
  BY <1>2, <1>4, <1>7
     DEF MarkedPnomis, UncategorisedPnomis, RecatPnomis, ListedStatus, OnUnapproved
<1>9. ButtonStatus = "Start"
  BY <1>3, <1>4 DEF ButtonStatus
<1>10. OnRecategorise => RecategoriserOffered = "Start"
  <2>1. OfferedFor("RECAT") = "Start"
    BY <1>3, <1>4 DEF OfferedFor
  <2>. QED
    BY <1>5, <2>1 DEF RecategoriserOffered, RequiredCatType
<1>11. ~OnReferred
  BY <1>3 DEF OnReferred, Referred, InProgress
<1>. QED
  BY <1>2, <1>3, <1>5, <1>6, <1>8, <1>9, <1>10, <1>11

\* And while the row s is.
LEMMA BusyLists ==
    ASSUME IInv, SerialInv, ForeseenInv, ListInv, Undisturbed, AtOnce,
           NEW s \in Seqs, rows[s].status \in InProgress
    PROVE  /\ Current = rows[s]
           /\ ~(OnUncategorised /\ OnRecategorise)
           /\ Crowded /\ ~StalePages /\ ~Lost =>
                 OnUncategorised \/ OnRecategorise \/ OnUnapproved \/ OnReferred
           /\ ~MarkedPnomis
           /\ OnRecategorise =>
                 /\ ButtonStatus = IF ShownAsNew THEN "Start"
                                   ELSE IF rows[s].status = "AWAITING_APPROVAL"
                                   THEN "View" ELSE "Edit"
                 /\ RecategoriserOffered = IF rows[s].status = "AWAITING_APPROVAL"
                                           THEN "View" ELSE "Continue"
           /\ SecurityOffered = "nothing"
           /\ referral = "REFERRED" => OnReferred \/ OnSecurityDone
<1>1. /\ answer = nomis
      /\ PendingLast /\ Holds(rows) /\ Credits(rows) /\ Settled(rows)
  BY BetweenRequests
<1>2. UnderWay(s) /\ (Crowded => prisoner.others)
  BY DEF ListInv
<1>3. /\ CurrentSeq = s /\ Current = rows[s]
      /\ LastSeq = s /\ Last = rows[s]
  BY <1>2, CurrentUnderWay, LastUnderWay DEF UnderWay, SerialInv, TableSound
<1>4. FromItsList(s) /\ rows[s] # NoRow
  BY <1>2, InProgressFacts DEF UnderWay, NoRow
<1>5. /\ AssessStatus \in {"P", "A", "NONE"}
      /\ Categorised => AssessStatus \in {"A", "P"}
      /\ AssessStatus = "A" => Categorised \/ prisoner.other
      /\ Categorised <=> ~NoneApproved
  BY <1>1, AssessStatusIs, CategorisedHere
<1>6. /\ rows[s].status = "AWAITING_APPROVAL" => AssessStatus = "P"
      /\ AssessStatus = "P" => rows[s].status \in AtNomis /\ rows[s].nomisSeq = Latest
  BY <1>1, PendingRow
<1>7. /\ rows[s].catType \in {"INITIAL", "RECAT"}
      /\ rows[s].catType = "RECAT" => Categorised
      /\ OnUncategorised => rows[s].catType # "RECAT"
      /\ OnRecategorise => rows[s].catType # "INITIAL"
  BY <1>3, <1>4, <1>5
     DEF FromItsList, OnUncategorised, Listed, OnRecategorise, Under21Recat,
         DueRecat, Recategorisable, InitialInProgress
<1>8. ASSUME Crowded, ~StalePages, ~Lost
      PROVE  OnUncategorised \/ OnRecategorise \/ OnUnapproved \/ OnReferred
  <2>1. CASE rows[s].status = "AWAITING_APPROVAL"
    BY <1>3, <1>6, <2>1 DEF OnUnapproved
  <2>5. CASE rows[s].status \in Referred
    BY <1>3, <2>5 DEF OnReferred
  <2>6. ASSUME rows[s].catType = "RECAT", rows[s].status # "AWAITING_APPROVAL",
               rows[s].status \notin Referred, ~prisoner.under21
        PROVE  ~prisoner.remand /\ (prisoner.leaving # "no" => KeptThoughLeaving)
    <3>1. rows[s].status \in {"STARTED", "SECURITY_BACK", "SUPERVISOR_BACK"}
      BY <2>6 DEF InProgress, Referred
    <3>. QED
      BY <1>3, <1>8, <2>6, <3>1 DEF Lost, KeptThoughLeaving
  <2>7. prisoner.under21 /\ rows[s].catType = "RECAT" => OnRecategorise
    BY <1>3, <1>7 DEF OnRecategorise, Under21Recat, Recategorisable, InitialInProgress
  <2>2. CASE /\ rows[s].status # "AWAITING_APPROVAL" /\ rows[s].status \notin Referred
             /\ manual[s]
    <3>1. ManualInProgress(rows[s].catType)
      BY <1>3, <2>2 DEF ManualInProgress
    <3>2. CASE rows[s].catType = "INITIAL"
      BY <1>2, <1>3, <1>8, <3>1, <3>2 DEF OnUncategorised, Listed
    <3>3. CASE rows[s].catType = "RECAT"
      BY <1>3, <2>2, <2>6, <2>7, <3>1, <3>3
         DEF OnRecategorise, DueRecat, Recategorisable, InitialInProgress
    <3>. QED
      BY <1>7, <3>2, <3>3
  <2>3. CASE ~manual[s] /\ rows[s].catType = "INITIAL"
    <3>1. NoneApproved /\ prisoner.sentenced /\ ~prisoner.other
      BY <1>4, <2>3 DEF FromItsList
    <3>2. AssessStatus # "A"
      BY <1>5, <3>1
    <3>. QED
      BY <1>3, <2>3, <3>1, <3>2 DEF OnUncategorised, Listed, NomisUncategorised
  <2>4. CASE /\ rows[s].status # "AWAITING_APPROVAL" /\ rows[s].status \notin Referred
             /\ ~manual[s] /\ rows[s].catType = "RECAT"
    <3>1. Categorised /\ (prisoner.due \/ prisoner.under21)
      BY <1>4, <1>7, <1>8, <2>4 DEF FromItsList
    <3>. QED
      BY <1>3, <2>4, <2>6, <2>7, <3>1
         DEF OnRecategorise, DueRecat, DueInNomis, Recategorisable, InitialInProgress
  <2>. QED
    BY <1>7, <2>1, <2>2, <2>3, <2>4, <2>5
<1>9. ~MarkedPnomis
  <2>1. ~UncategorisedPnomis
    <3>1. rows[s].status # "APPROVED"
      BY InProgressFacts
    <3>. QED
      BY <1>3, <1>4, <1>6, <3>1 DEF UncategorisedPnomis, LocalStatusInconsistent, AtNomis
  <2>2. ~RecatPnomis
    <3>1. rows[s].status = "AWAITING_APPROVAL" => ListedStatus = "P"
      BY <1>6 DEF ListedStatus, DueInNomis
    <3>2. ListedStatus = "P" => AssessStatus = "P"
      BY DEF ListedStatus
    <3>. QED
      BY <1>3, <1>4, <1>6, <3>1, <3>2 DEF RecatPnomis, LocalStatusInconsistent, AtNomis
  <2>3. OnUnapproved => ~UnapprovedPnomis
    BY <1>3, <1>6 DEF OnUnapproved, UnapprovedPnomis, AtNomis
  <2>. QED
    BY <2>1, <2>2, <2>3 DEF MarkedPnomis
<1>10. ASSUME OnRecategorise
       PROVE  /\ ButtonStatus = IF ShownAsNew THEN "Start"
                                ELSE IF rows[s].status = "AWAITING_APPROVAL"
                                THEN "View" ELSE "Edit"
              /\ RecategoriserOffered = IF rows[s].status = "AWAITING_APPROVAL"
                                        THEN "View" ELSE "Continue"
  <2>1. rows[s].catType = "RECAT" /\ Categorised
    BY <1>7, <1>10
  <2>2. AssessStatus \in {"A", "P"}
    BY <1>5, <2>1
  <2>3. ButtonStatus = IF ShownAsNew THEN "Start"
                       ELSE IF rows[s].status = "AWAITING_APPROVAL"
                       THEN "View" ELSE "Edit"
    <3>0. /\ ListedStatus \in {AssessStatus, "NONE"}
          /\ AssessStatus = "P" => ListedStatus = "P"
      BY DEF ListedStatus, DueInNomis
    <3>1. CASE rows[s].status = "AWAITING_APPROVAL"
      BY <1>3, <1>6, <3>0, <3>1 DEF ButtonStatus, ShownAsNew
    <3>2. CASE rows[s].status \in {"STARTED", "SECURITY_BACK", "SUPERVISOR_BACK",
                                   "SECURITY_MANUAL"}
      BY <1>3, <3>2 DEF ButtonStatus, ShownAsNew
    <3>3. CASE rows[s].status \in {"SECURITY_AUTO", "SECURITY_FLAGGED"}
      <4>1. AssessStatus = "A"
        BY <1>6, <2>2, <3>3 DEF AtNomis
      <4>. QED
        BY <1>3, <3>0, <3>3, <4>1 DEF ButtonStatus, ShownAsNew, InProgress
    <3>. QED
      BY <3>1, <3>2, <3>3 DEF InProgress
  <2>4. RecategoriserOffered = IF rows[s].status = "AWAITING_APPROVAL"
                               THEN "View" ELSE "Continue"
    BY <1>3, <2>1 DEF RecategoriserOffered, RequiredCatType, OfferedFor
  <2>. QED
    BY <2>3, <2>4
<1>11. SecurityOffered = "nothing"
  <2>1. referral # "NEW"
    BY DEF SerialInv, ReferralSound, NothingInProgress
  <2>. QED
    BY <1>3, <2>1 DEF SecurityOffered, OnUpcoming
<1>12. referral = "REFERRED" => OnReferred \/ OnSecurityDone
  BY <1>2, <1>3 DEF UnderWay, OnReferred, OnSecurityDone, Seqs
<1>. QED
  BY <1>3, <1>7, <1>8, <1>9, <1>10, <1>11, <1>12

\* What the lists agree on whatever page is answered, and whoever else there is.
ListsConsistent ==
    Undisturbed => /\ OneList /\ NothingPnomis /\ ButtonMatches
                   /\ HistoryMatches /\ LandingMatches /\ ReferralFollowed

\* Together.
LEMMA ListsFollow ==
    ASSUME IInv, SerialInv, ForeseenInv, ListInv
    PROVE  /\ ListsConsistent
           /\ Crowded /\ ~StalePages => ListsInStep
<1>. DEFINE Consistent == /\ OneList /\ NothingPnomis /\ ButtonMatches
                          /\ HistoryMatches /\ LandingMatches /\ ReferralFollowed
<1>. SUFFICES ASSUME Undisturbed
              PROVE  Consistent /\ (Crowded /\ ~StalePages => InProgressListed)
  BY DEF ListsConsistent, ListsInStep
<1>1. HistoryMatches
  BY HistoryFollows
<1>2. CASE ~AtOnce
  BY <1>1, <1>2 DEF OneList, InProgressListed, NothingPnomis, ButtonMatches,
                    LandingMatches, ReferralFollowed
<1>3. CASE AtOnce /\ NothingInProgress(rows)
  <2>1. /\ ~(OnUncategorised /\ OnRecategorise)
        /\ ~MarkedPnomis
        /\ OnRecategorise => ButtonStatus = "Start" /\ RecategoriserOffered = "Start"
        /\ ~OnReferred /\ Current.status \notin InProgress
    BY <1>3, QuietLists
  <2>2. OneList /\ InProgressListed /\ NothingPnomis
    BY <2>1 DEF OneList, InProgressListed, NothingPnomis
  <2>3. ButtonMatches
    BY <2>1 DEF ButtonMatches
  <2>4. LandingMatches
    BY <2>1 DEF LandingMatches, OnTab
  <2>5. ReferralFollowed
    BY <2>1 DEF ReferralFollowed, OnTab
  <2>. QED
    BY <1>1, <2>2, <2>3, <2>4, <2>5
<1>4. ASSUME AtOnce, NEW s \in Seqs, rows[s].status \in InProgress
      PROVE  Consistent /\ (Crowded /\ ~StalePages => InProgressListed)
  <2>1. /\ Current = rows[s]
        /\ ~(OnUncategorised /\ OnRecategorise)
        /\ Crowded /\ ~StalePages /\ ~Lost =>
              OnUncategorised \/ OnRecategorise \/ OnUnapproved \/ OnReferred
        /\ ~MarkedPnomis
        /\ OnRecategorise =>
              /\ ButtonStatus = IF ShownAsNew THEN "Start"
                                ELSE IF rows[s].status = "AWAITING_APPROVAL"
                                THEN "View" ELSE "Edit"
              /\ RecategoriserOffered = IF rows[s].status = "AWAITING_APPROVAL"
                                        THEN "View" ELSE "Continue"
        /\ SecurityOffered = "nothing"
        /\ referral = "REFERRED" => OnReferred \/ OnSecurityDone
    BY <1>4, BusyLists
  <2>2. OneList /\ NothingPnomis
    BY <2>1 DEF OneList, NothingPnomis
  <2>3. Crowded /\ ~StalePages => InProgressListed
    <3>1. /\ OnTab("categoriserHome") <=> OnUncategorised
          /\ OnTab("recategoriserHome") <=> OnRecategorise
          /\ OnTab("supervisorHome") <=> OnUnapproved
          /\ OnTab("securityHome") <=> OnReferred
      BY DEF OnTab
    <3>2. OnUncategorised \/ OnRecategorise \/ OnUnapproved \/ OnReferred =>
             \E tab \in {"categoriserHome", "recategoriserHome", "supervisorHome",
                        "securityHome"} : OnTab(tab)
      BY <3>1
    <3>3. Current.catType = rows[s].catType
      BY <2>1
    <3>. QED
      BY <2>1, <3>2, <3>3 DEF InProgressListed
  <2>4. ButtonMatches
    BY <1>4, <2>1 DEF ButtonMatches
  <2>5. LandingMatches
    BY <2>1 DEF LandingMatches, OnTab
  <2>6. ReferralFollowed
    BY <2>1 DEF ReferralFollowed, OnTab
  <2>. QED
    BY <1>1, <2>2, <2>3, <2>4, <2>5, <2>6
<1>. QED
  BY <1>2, <1>3, <1>4 DEF NothingInProgress

\* One request at a time, the four invariants hold throughout.
LEMMA ListInvariance ==
    ASSUME OneAtATime
    PROVE  ListSpec => [](IInv /\ SerialInv /\ ForeseenInv /\ ListInv)
<1>1. ListInit => IInv /\ SerialInv /\ ForeseenInv /\ ListInv
  BY InitIInv, InitSerial, InitForeseen, InitListInv DEF ListInit
<1>2. [ListNext]_listVars => [Next]_vars
  BY DEF ListNext, listVars, FlowStep, AskNomis, NextReviewDate, BecomesDue,
         StandingChanges
<1>3. IInv /\ SerialInv /\ ForeseenInv /\ ListInv /\ [ListNext]_listVars
        => IInv' /\ SerialInv' /\ ForeseenInv' /\ ListInv'
  BY <1>2, NextIInv, NextSerial, NextForeseen, NextListInv
<1>. QED
  BY <1>1, <1>3, PTL DEF ListSpec

\* Where requests of a booking do not overlap, none fails and nobody is
\* released, the lists agree with the rows and with each other, whatever stale
\* page is answered and whoever else there is: nobody is on two to do lists,
\* nothing is marked as made in P-Nomis, the button matches the row, the done
\* lists tell what the history tells, the landing page offers what the list
\* does, and security sees what was referred (offendersService.js).  A manual
\* review with security that NOMIS does not list is shown as one to start.
THEOREM ListsAgree ==
    ASSUME OneAtATime
    PROVE  ListSpec => []ListsConsistent
<1>1. IInv /\ SerialInv /\ ForeseenInv /\ ListInv => ListsConsistent
  BY ListsFollow
<1>. QED
  BY <1>1, ListInvariance, PTL

\* And all work begun here is on somebody's list, but for a recategorisation that
\* is with the categoriser, of a prisoner on remand or about to leave (Lost): where
\* the prison has others uncategorised, as an empty answer of NOMIS ends the list
\* early, and no page is answered that would now be refused, as one that takes the
\* review date away takes the prisoner off the list.
THEOREM WorkIsListed ==
    ASSUME OneAtATime, Crowded, ~StalePages
    PROVE  ListSpec => []ListsInStep
<1>1. IInv /\ SerialInv /\ ForeseenInv /\ ListInv => ListsInStep
  BY ListsFollow
<1>. QED
  BY <1>1, ListInvariance, PTL
=============================================================================
