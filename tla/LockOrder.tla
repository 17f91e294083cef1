-------------------------------- MODULE LockOrder --------------------------------
(***************************************************************************)
(* The order in which transactions lock the rows of a prisoner in form,    *)
(* lite_category, risk_change and security_referral.  A row that is        *)
(* written stays locked until the transaction ends, so two transactions    *)
(* that write rows in opposite orders wait for each other until PostgreSQL *)
(* fails one of them.  Every statement of a page on form picks the current *)
(* row afresh (formClient.js), so a page may come to hold one row and want *)
(* another; the events of NOMIS (sqsService.js) write all the rows they    *)
(* find.                                                                   *)
(***************************************************************************)
EXTENDS Naturals, FiniteSets

CONSTANTS
    Transactions,
    Prisoners,
    Numbers,   \* of a prisoner's rows in form and in lite_category
    Kinds      \* the kinds of transaction that are at work

Pages == {"tasklist", "tasklistRecat", "save", "approve", "cancel", "lite", "refer", "decide"}
Events == {"release", "movement", "merge"}
Tasklists == {"tasklist", "tasklistRecat"}

ASSUME NumbersAssumption == Numbers \subseteq Nat \ {0}
ASSUME KindsAssumption == Kinds \subseteq Pages \cup Events

None == "none"
ASSUME NobodyAssumption == None \notin Transactions

VARIABLES
    kind,    \* by transaction: what it does
    own,     \* by transaction: the prisoner it is for
    other,   \* by transaction: the prisoner that survives, in a merge
    waits,   \* by transaction: the row it waits for
    at,      \* by transaction: how far it is in its order
    opens,   \* by transaction: whether it inserts the row of form it wants
    holder,  \* by row: the transaction that has it locked
    stored   \* by prisoner and number: what is committed of a row of form

vars == <<kind, own, other, waits, at, opens, holder, stored>>

Rows == [table : {"form", "lite_category"}, of : Prisoners, number : Numbers]
          \cup [table : {"risk_change", "security_referral"}, of : Prisoners, number : {1}]

FormRow(p, n) == [table |-> "form", of |-> p, number |-> n]

\* A row of form is not there, one that pages may write, or cancelled.
RowStates == {"none", "live", "cancelled"}

NoRow == [table |-> "none", of |-> None, number |-> 0]

TypeOK ==
    /\ kind \in [Transactions -> Kinds \cup {None}]
    /\ own \in [Transactions -> Prisoners]
    /\ other \in [Transactions -> Prisoners]
    /\ waits \in [Transactions -> Rows \cup {NoRow}]
    /\ at \in [Transactions -> 0..5]
    /\ opens \in [Transactions -> BOOLEAN]
    /\ holder \in [Rows -> Transactions \cup {None}]
    /\ stored \in [Prisoners -> [Numbers -> RowStates]]

Init ==
    /\ kind = [t \in Transactions |-> None]
    /\ own \in [Transactions -> Prisoners]
    /\ other \in [Transactions -> Prisoners]
    /\ waits = [t \in Transactions |-> NoRow]
    /\ at = [t \in Transactions |-> 0]
    /\ opens = [t \in Transactions |-> FALSE]
    /\ holder = [row \in Rows |-> None]
    /\ stored \in [Prisoners -> {states \in [Numbers -> RowStates] :
            \A n, m \in Numbers : n < m /\ states[n] = "none" => states[m] = "none"}]
-----------------------------------------------------------------------------
(* What each kind of transaction writes, and in which order. *)

Tables ==
    [ tasklist      |-> {"form", "security_referral"},
      tasklistRecat |-> {"form", "security_referral", "risk_change"},
      save          |-> {"form"},
      approve       |-> {"form", "security_referral"},
      cancel        |-> {"form", "security_referral"},
      lite          |-> {"lite_category"},
      refer         |-> {"security_referral"},
      decide        |-> {"risk_change"},
      release       |-> {"form", "lite_category"},
      movement      |-> {"form", "lite_category", "risk_change", "security_referral"},
      merge         |-> {"form", "lite_category", "risk_change", "security_referral"} ]

\* The rows a transaction may write.  A merge also deletes the survivor's referral.
Writes(t, row) ==
    /\ row.table \in Tables[kind[t]]
    /\ \/ row.of = own[t]
       \/ kind[t] = "merge" /\ row.of = other[t] /\ row.table = "security_referral"

\* A slip: a cancellation gives its referral back before it writes its form.
MutantPlace(t, row) ==
    CASE row.table = "form" -> IF kind[t] = "cancel" THEN 6 ELSE 1
      [] row.table = "lite_category" -> 2
      [] row.table = "risk_change" -> IF kind[t] = "tasklistRecat" THEN 4 ELSE 3
      [] row.table = "security_referral" -> IF kind[t] = "tasklistRecat" THEN 3 ELSE 4

\* The place of a row in the order of a transaction.
Place(t, row) ==
    CASE row.table = "form" -> 1
      [] row.table = "lite_category" -> 2
      [] row.table = "risk_change" -> IF kind[t] = "tasklistRecat" THEN 4 ELSE 3
      [] row.table = "security_referral" ->
            IF kind[t] = "tasklistRecat" THEN 3
            ELSE IF kind[t] = "merge" /\ row.of = own[t] THEN 5 ELSE 4

\* Who may write several rows of a table: events in the order they find them,
\* pages as each of their statements picks one.
Several(t, row) ==
    \/ kind[t] \in {"release", "merge"} /\ row.table \in {"form", "lite_category"}
    \/ kind[t] \in Tasklists \cup {"save"} /\ row.table = "form"
-----------------------------------------------------------------------------
(* Which row a statement picks. *)

There(row) == stored[row.of][row.number] # "none"

\* `sequenceClause`: the last row that is not cancelled, of those committed and
\* the one t has inserted.
Seen(t, n) ==
    \/ stored[own[t]][n] = "live"
    \/ stored[own[t]][n] = "none" /\ holder[FormRow(own[t], n)] = t

Picks(t, n) == Seen(t, n) /\ \A m \in Numbers : m > n => ~Seen(t, m)

Finds(t, row) ==
    row.table = "form" =>
        CASE kind[t] = "release" -> stored[row.of][row.number] = "live"
          [] kind[t] = "merge" -> There(row)
          [] OTHER -> Picks(t, row.number)

\* `create`: the number after those there are, cancelled ones too.
NewRow(t, row) ==
    /\ kind[t] \in Tasklists /\ at[t] = 0 /\ row.table = "form"
    /\ \A m \in Numbers : There(FormRow(own[t], m)) => m < row.number
    /\ \/ row.number = 1
       \/ \E m \in Numbers : There(FormRow(own[t], m)) /\ row.number = m + 1
-----------------------------------------------------------------------------
Begin(t) ==
    /\ kind[t] = None
    /\ \E k \in Kinds :
        /\ k = "merge" => own[t] # other[t]
        /\ kind' = [kind EXCEPT ![t] = k]
    /\ UNCHANGED <<own, other, waits, at, opens, holder, stored>>

\* The next row it writes.  A write that finds nothing to change locks nothing.
Want(t) ==
    /\ kind[t] # None /\ waits[t] = NoRow
    /\ \E row \in Rows :
        /\ Writes(t, row) /\ holder[row] # t
        /\ \/ at[t] < Place(t, row)
           \/ at[t] = Place(t, row) /\ Several(t, row)
        /\ \/ Finds(t, row) /\ UNCHANGED opens
           \/ NewRow(t, row) /\ opens' = [opens EXCEPT ![t] = TRUE]
        /\ waits' = [waits EXCEPT ![t] = row]
        /\ at' = [at EXCEPT ![t] = Place(t, row)]
    /\ UNCHANGED <<kind, own, other, holder, stored>>

\* The row is free.
Unlocked(t) == waits[t] # NoRow /\ holder[waits[t]] = None

\* It is there to be updated, though it may have been cancelled meanwhile, or
\* still to be inserted.
Lock(t) ==
    /\ Unlocked(t)
    /\ waits[t].table = "form" => (There(waits[t]) <=> ~opens[t])
    /\ holder' = [holder EXCEPT ![waits[t]] = t]
    /\ waits' = [waits EXCEPT ![t] = NoRow]
    /\ UNCHANGED <<kind, own, other, at, opens, stored>>

\* It has been deleted meanwhile: the statement changes nothing.
Gone(t) ==
    /\ Unlocked(t)
    /\ waits[t].table = "form" /\ ~There(waits[t]) /\ ~opens[t]
    /\ waits' = [waits EXCEPT ![t] = NoRow]
    /\ UNCHANGED <<kind, own, other, at, opens, holder, stored>>

\* The end of a transaction, which unlocks everything it wrote.
Ended(t) ==
    /\ kind' = [kind EXCEPT ![t] = None]
    /\ waits' = [waits EXCEPT ![t] = NoRow]
    /\ at' = [at EXCEPT ![t] = 0]
    /\ opens' = [opens EXCEPT ![t] = FALSE]
    /\ holder' = [row \in Rows |-> IF holder[row] = t THEN None ELSE holder[row]]
    /\ UNCHANGED <<own, other>>

\* What t leaves of row n of form, which it wrote; a statement that sets the
\* status of a row which was cancelled meanwhile takes it out of that.
Left(t, n, revived) ==
    CASE kind[t] = "cancel" -> "cancelled"
      [] kind[t] = "release" -> "none"
      [] kind[t] \in Pages \ {"cancel"} /\ (opens[t] \/ n \in revived) -> "live"
      [] OTHER -> stored[own[t]][n]

Commit(t) ==
    /\ kind[t] # None /\ waits[t] = NoRow
    /\ \E revived \in SUBSET Numbers :
        stored' = [stored EXCEPT ![own[t]] = [n \in Numbers |->
            IF holder[FormRow(own[t], n)] = t THEN Left(t, n, revived) ELSE @[n]]]
    /\ Ended(t)

\* Every transaction of D waits for a row that another one of D has locked.
Deadlocked(D) ==
    /\ D # {}
    /\ \A t \in D : waits[t] # NoRow /\ holder[waits[t]] \in D \ {t}

\* A statement or a call fails between two writes, the number of the new row
\* was taken by another tasklist, or PostgreSQL fails one of a deadlock.
Fail(t) ==
    /\ \/ kind[t] # None /\ waits[t] = NoRow
       \/ Unlocked(t) /\ opens[t] /\ There(waits[t])
       \/ \E D \in SUBSET Transactions : t \in D /\ Deadlocked(D)
    /\ Ended(t)
    /\ UNCHANGED stored

Next == \E t \in Transactions :
    Begin(t) \/ Want(t) \/ Lock(t) \/ Gone(t) \/ Commit(t) \/ Fail(t)

Spec == Init /\ [][Next]_vars
-----------------------------------------------------------------------------
\* A page that has one row of form waits for another.
BetweenRows(t) ==
    /\ kind[t] \in Pages /\ waits[t].table = "form"
    /\ \E row \in Rows : row.table = "form" /\ holder[row] = t

(* The pages of users agree on the order of the tables: when they deadlock *)
(* without an event, all of them wait for rows of form, one of them with   *)
(* another row of form in hand (formService.js: the form is written first; *)
(* formClient.js: each statement picks its row).                           *)
DeadlockOfPages ==
    \A D \in SUBSET Transactions :
        Deadlocked(D) =>
            \/ \E t \in D : kind[t] \in Events
            \/ /\ \A t \in D : waits[t].table = "form"
               /\ \E t \in D : BetweenRows(t)

(* A single event deadlocks only with a recategorisation tasklist, which   *)
(* writes the referral before the risk change where events write it after, *)
(* or with a page that waits for a second row of form, where the event has *)
(* its own order (tasklistRecat.js, offendersService.js                    *)
(* handleExternalMovementEvent, formService.js                             *)
(* deletePendingCategorisations).                                          *)
DeadlockOfOneEvent ==
    \A D \in SUBSET Transactions :
        Deadlocked(D) =>
            \/ \E t \in D : kind[t] = "tasklistRecat" \/ BetweenRows(t)
            \/ \E t, u \in D : t # u /\ {kind[t], kind[u]} \subseteq Events
=============================================================================
