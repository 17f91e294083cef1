------------------------------ MODULE LiteCategory ------------------------------
(***************************************************************************)
(* Categories given outside the assessment process (liteCategories.js):    *)
(* one user proposes a category, another approves it.  Each proposal is an *)
(* assessment in NOMIS and a row of lite_category with its number.  The    *)
(* pages check what is in progress when they are fetched; the POST behind  *)
(* them does not.                                                          *)
(*                                                                         *)
(* The categorisation of the same prisoner is here as far as it meets the  *)
(* proposals: its tasklist looks for one, and NOMIS has a single pool of   *)
(* pending assessments.                                                    *)
(***************************************************************************)
EXTENDS Integers, Sequences, FiniteSets, FiniteSetsExt

CONSTANTS
    Users,
    Chosen,       \* bound: the categories anybody chooses
    Women,        \* whether the prison is in the women's estate
    MaxSeq        \* bound: assessments in NOMIS

ASSUME LiteAssumption == MaxSeq \in Nat /\ "nobody" \notin Users

VARIABLES
    lite,    \* table lite_category: by sequence
    assessments, \* in NOMIS, by sequence
    form,    \* the categorisation: its status and its assessment
    pages,   \* pages that users have in front of them
    told,    \* history: proposals said to be approved manually on P-Nomis
    fresh    \* whether a page is posted only while what it checked still holds,
             \* and no answer of NOMIS is lost

liteVars == <<lite, assessments, form, pages, told, fresh>>

Seqs == 1..MaxSeq
Nobody == "nobody"
NoRow == [category |-> "", assessedBy |-> Nobody, approvedBy |-> Nobody, approvedAs |-> ""]
Row == [ category : Chosen, assessedBy : Users,
         approvedBy : Users \cup {Nobody}, approvedAs : Chosen \cup {""} ]

Assessment == [ status : {"PENDING", "ACTIVE", "INACTIVE"}, category : Chosen,
                approvedIn : {"", "service", "P-Nomis"} ]

Form == [ status : {"NONE", "STARTED", "AWAITING_APPROVAL", "APPROVED"}, seq : 0..MaxSeq ]

LitePage == [ page : {"new", "approve"}, user : Users,
          existing : Chosen \cup {""}, offers : SUBSET Chosen ]

LiteTypeOK ==
    /\ lite \in [Seqs -> Row \cup {NoRow}]
    /\ Len(assessments) <= MaxSeq
    /\ \A s \in DOMAIN assessments : assessments[s] \in Assessment
    /\ form \in Form
    /\ pages \subseteq LitePage
    /\ told \subseteq Seqs
    /\ fresh \in BOOLEAN

LiteInit ==
    /\ lite = [s \in Seqs |-> NoRow]
    /\ assessments = <<>>
    /\ form = [status |-> "NONE", seq |-> 0]
    /\ pages = {}
    /\ told = {}
    /\ fresh \in BOOLEAN
-----------------------------------------------------------------------------
(* NOMIS. *)

Create(category) == Append(assessments,
    [status |-> "PENDING", category |-> category, approvedIn |-> ""])

PendingSeqs == {s \in DOMAIN assessments : assessments[s].status = "PENDING"}

\* The assessment an approval is for: the latest pending one when no number is given.
ApprovalOf(seq) == IF seq # 0 THEN {seq} \cap PendingSeqs
                   ELSE IF PendingSeqs = {} THEN {} ELSE {Max(PendingSeqs)}

Approved(seq, category, where) ==
    [s \in DOMAIN assessments |->
        IF s = seq THEN [status |-> "ACTIVE", category |-> category, approvedIn |-> where]
        ELSE IF assessments[s].status = "ACTIVE" THEN [assessments[s] EXCEPT !.status = "INACTIVE"]
        ELSE assessments[s]]

\* The category the prisoner has.
Existing == LET active == {s \in DOMAIN assessments : assessments[s].status = "ACTIVE"}
            IN  IF active = {} THEN "" ELSE assessments[Max(active)].category

\* Somebody approves an assessment with P-Nomis.
ApproveManually == \E s \in PendingSeqs, c \in Chosen :
    /\ assessments' = Approved(s, c, "P-Nomis")
    /\ UNCHANGED <<lite, form, pages, told>>
-----------------------------------------------------------------------------
(* The table. *)

\* getLiteCategorisation: the latest row of the booking.
LatestSeq == LET present == {s \in Seqs : lite[s] # NoRow}
             IN  IF present = {} THEN 0 ELSE Max(present)

LiteInProgress == LatestSeq # 0 /\ lite[LatestSeq].approvedBy = Nobody

FormInProgress == form.status \in {"STARTED", "AWAITING_APPROVAL"}

\* getUnapprovedLite: what supervisors are asked to approve.
ToApprove == {s \in Seqs : lite[s] # NoRow /\ lite[s].approvedBy = Nobody}
-----------------------------------------------------------------------------
(* The pages. *)

\* getCatList.
CatList(existing) ==
    {"U", "V"}
    \cup (IF existing = "V" THEN {"I"} ELSE {})
    \cup (IF Women THEN {"Q"} \cup (IF existing = "Q" THEN {"R"} ELSE {})
                   ELSE {"Z", "A", "E", "H", "P", "B", "D"})

Show(page, user) == pages' = pages \cup
    {[page |-> page, user |-> user, existing |-> Existing,
      offers |-> CatList(Existing) \cap Chosen]}

\* A slip: the categorisation is forgotten.
MutantMayPropose == ~LiteInProgress

MayPropose == ~LiteInProgress /\ ~FormInProgress

\* A slip: the user is compared with the approver.
MutantSameUser(user) == lite[LatestSeq].approvedBy = user

SameUser(user) == lite[LatestSeq].assessedBy = user

MayApprove(user) == LiteInProgress /\ ~SameUser(user)

GetNew == \E u \in Users :
    /\ MayPropose
    /\ Show("new", u)
    /\ UNCHANGED <<lite, assessments, form, told>>

GetApprove == \E u \in Users :
    /\ MayApprove(u)
    /\ Show("approve", u)
    /\ UNCHANGED <<lite, assessments, form, told>>

\* A page whose answers are not valid is shown again; the list of an approval is
\* made without the existing category then.
PostInvalid == \E p \in pages :
    /\ pages' = (pages \ {p}) \cup
          {[p EXCEPT !.offers = IF p.page = "new" THEN CatList(Existing) \cap Chosen
                                ELSE CatList("") \cap Chosen,
                     !.existing = Existing]}
    /\ UNCHANGED <<lite, assessments, form, told>>

\* recordLiteCategorisation.
Proposed(user, category) == [ category |-> category, assessedBy |-> user,
                              approvedBy |-> Nobody, approvedAs |-> "" ]

\* createLiteCategorisation: NOMIS first, then the row with the number NOMIS gave.
CreateLite(user, category) ==
    /\ Len(assessments) < MaxSeq
    /\ assessments' = Create(category)
    /\ \/ lite' = [lite EXCEPT ![Len(assessments')] = Proposed(user, category)]
       \/ ~fresh /\ UNCHANGED lite

PostNew == \E p \in pages, c \in Chosen :
    /\ p.page = "new"
    /\ fresh => MayPropose
    /\ c \in p.offers /\ c \in CatList(Existing)
    /\ CreateLite(p.user, c)
    /\ pages' = pages \ {p}
    /\ UNCHANGED <<form, told>>

\* A slip: the refusal is taken for an answer.
MutantRefused(seq, user, category) ==
    /\ ApprovalOf(seq) = {}
    /\ lite' = [lite EXCEPT ![seq] =
                   [@ EXCEPT !.approvedBy = user, !.approvedAs = category]]
    /\ UNCHANGED <<assessments, told>>

\* assessmentHasBeenApprovedInNomisManually: NOMIS has no such pending
\* assessment.  The row is deleted and the user told so.
Refused(seq, user, category) ==
    /\ ApprovalOf(seq) = {}
    /\ lite' = IF seq = 0 THEN lite ELSE [lite EXCEPT ![seq] = NoRow]
    /\ told' = IF seq = 0 THEN told ELSE told \cup {seq}
    /\ UNCHANGED assessments

\* The UPDATE of approveLiteCategorisation: no row has the number 0.
Stamped(seq, user, category) ==
    IF seq = 0 THEN lite
    ELSE [lite EXCEPT ![seq] = [@ EXCEPT !.approvedBy = user, !.approvedAs = category]]

\* approveLiteCategorisation: the row is stamped, then NOMIS is asked; without a
\* row it is asked without a number.  Another approval of the row waits for the
\* transaction, so that this is one step.
ApproveLite(seq, user, category) ==
    /\ ApprovalOf(seq) # {}
    /\ assessments' = Approved(Max(ApprovalOf(seq)), category, "service")
    /\ \/ lite' = Stamped(seq, user, category)
       \/ ~fresh /\ UNCHANGED lite
    /\ UNCHANGED told

PostApprove == \E p \in pages, c \in Chosen :
    /\ p.page = "approve"
    /\ fresh => MayApprove(p.user)
    /\ c \in p.offers /\ c \in CatList(Existing)
    /\ ApproveLite(LatestSeq, p.user, c) \/ Refused(LatestSeq, p.user, c)
    /\ pages' = pages \ {p}
    /\ UNCHANGED form
-----------------------------------------------------------------------------
(* The categorisation of the same prisoner. *)

\* The tasklist is not opened when a proposal waits.
OpenForm ==
    /\ ~FormInProgress /\ ~LiteInProgress
    /\ form' = [status |-> "STARTED", seq |-> 0]
    /\ UNCHANGED <<lite, assessments, pages, told>>

SubmitForm == \E c \in Chosen :
    /\ form.status = "STARTED"
    /\ Len(assessments) < MaxSeq
    /\ assessments' = Create(c)
    /\ form' = [status |-> "AWAITING_APPROVAL", seq |-> Len(assessments')]
    /\ UNCHANGED <<lite, pages, told>>

\* NOMIS is asked without a number.
ApproveForm == \E c \in Chosen :
    /\ form.status = "AWAITING_APPROVAL"
    /\ ApprovalOf(0) # {}
    /\ assessments' = Approved(Max(ApprovalOf(0)), c, "service")
    /\ form' = [form EXCEPT !.status = "APPROVED"]
    /\ UNCHANGED <<lite, pages, told>>

\* setInactive: whatever is pending.
CancelForm ==
    /\ FormInProgress
    /\ form' = [status |-> "NONE", seq |-> 0]
    /\ assessments' = [s \in DOMAIN assessments |->
                    IF s \in PendingSeqs THEN [assessments[s] EXCEPT !.status = "INACTIVE"]
                                         ELSE assessments[s]]
    /\ UNCHANGED <<lite, pages, told>>

LiteNext ==
    /\ \/ GetNew \/ PostNew \/ GetApprove \/ PostApprove \/ PostInvalid
       \/ OpenForm \/ SubmitForm \/ ApproveForm \/ CancelForm
       \/ ApproveManually
    /\ UNCHANGED fresh

LiteSpec == LiteInit /\ [][LiteNext]_liteVars
-----------------------------------------------------------------------------
\* A row that is approved is the assessment NOMIS approved, with its category.
ApprovedInNomis == \A s \in Seqs :
    lite[s].approvedBy # Nobody =>
        /\ assessments[s].approvedIn = "service"
        /\ assessments[s].category = lite[s].approvedAs

\* Nobody approves a proposal of their own (liteApprove.html).
FourEyes == \A s \in Seqs :
    lite[s].approvedBy # Nobody => lite[s].approvedBy # lite[s].assessedBy

\* Nobody does while pages are posted fresh: only the page looks at who proposed
\* (liteApprove).
FourEyesWhenFresh == fresh => FourEyes

\* Every proposal on the supervisors' list is one the approval page reaches: it
\* works on the latest row only.
ListedCanBeApproved == ToApprove \subseteq {LatestSeq}

\* Two things are never in progress for one person (liteCategories.html).
OneInProgress == Cardinality(ToApprove) + (IF FormInProgress THEN 1 ELSE 0) <= 1

\* An approved categorisation is the one NOMIS approved, not a proposal.
FormApprovesItsOwn ==
    form.status = "APPROVED" => assessments[form.seq].approvedIn = "service"

\* So, while pages are posted fresh, a proposal and a categorisation are never
\* in progress together, neither approves the other's assessment, and every
\* proposal that supervisors are shown can be approved (liteCategories.js).
LiteOrForm ==
    fresh => OneInProgress /\ FormApprovesItsOwn /\ ListedCanBeApproved

\* A user who is told that a proposal has been approved on P-Nomis is told the
\* truth (liteAlreadyApproved.html).
ToldTruth == \A s \in told : assessments[s].approvedIn = "P-Nomis"

\* A row is approved only if NOMIS approved it, also after stale pages and lost
\* answers; and, without those, who is told that P-Nomis was first is told the
\* truth (approveLiteCategorisation).
LiteApproved == ApprovedInNomis /\ (fresh => ToldTruth)

\* A prisoner who is YOI Restricted can be made YOI Closed.
OffersYoiClosed == \A p \in pages :
    p.existing = "V" /\ "I" \in Chosen => "I" \in p.offers
=============================================================================
