------------------------------ MODULE EventProofs ------------------------------
(***************************************************************************)
(* Proofs about the events of the prison system.                           *)
(*                                                                         *)
(* LockOrder, for any number of transactions, prisoners and rows: the      *)
(* invariant says that a transaction waits for a row that comes after      *)
(* those it has locked, except among rows of one table.  In a deadlock,    *)
(* whoever waits for the last table of the common order waits for somebody *)
(* with nothing left to wait for; then so does whoever waits for the table *)
(* before it, and so on, until form is left, of which a page may have one  *)
(* row and want another.                                                   *)
(*                                                                         *)
(* PrisonerEvents, for any prisons and any bounds.  MergeInv says what is  *)
(* of which number before and after a merge is handled, however messages   *)
(* are told; EventInv adds what the queue still has to tell when they are  *)
(* told once and in order.                                                 *)
(***************************************************************************)
EXTENDS LockOrder, PrisonerEvents, SequenceTheorems, TLAPS

(* What a transaction waits for is the row it has got to.                  *)
WaitsInOrder ==
    \A t \in Transactions, next \in Rows : waits[t] = next =>
        kind[t] # None /\ Writes(t, next) /\ at[t] = Place(t, next)

(* A locked row comes before the one its transaction waits for, except     *)
(* among several rows of one table.                                        *)
HeldInOrder ==
    \A t \in Transactions, row \in Rows : holder[row] = t =>
        /\ kind[t] # None
        /\ Writes(t, row)
        /\ Place(t, row) <= at[t]
        /\ \A next \in Rows : waits[t] = next =>
                Place(t, row) < at[t] \/ Several(t, next)

LockInv == TypeOK /\ WaitsInOrder /\ HeldInOrder

-----------------------------------------------------------------------------
(* Initially nothing is locked.                                            *)
LEMMA LockInitially == Init => LockInv
<1> SUFFICES ASSUME Init PROVE LockInv
    OBVIOUS
<1> USE DEF Init
<1>1. TypeOK
    BY DEF TypeOK
<1>2. WaitsInOrder
    BY DEF WaitsInOrder, Rows, NoRow
<1>3. HeldInOrder
    BY NobodyAssumption DEF HeldInOrder
<1> QED BY <1>1, <1>2, <1>3 DEF LockInv

(* Places are numbers up to five.                                          *)
LEMMA PlaceType ==
    ASSUME NEW t, NEW row \in Rows
    PROVE  Place(t, row) \in 1..5
BY DEF Place, Rows

(* Every step keeps the types.                                             *)
LEMMA LockTypes == TypeOK /\ [Next]_vars => TypeOK'
<1> SUFFICES ASSUME TypeOK, [Next]_vars PROVE TypeOK'
    OBVIOUS
<1> USE DEF TypeOK
<1>1. ASSUME NEW t \in Transactions, Begin(t) PROVE TypeOK'
    BY <1>1 DEF Begin
<1>2. ASSUME NEW t \in Transactions, Want(t) PROVE TypeOK'
    <2>1. PICK row \in Rows :
            /\ opens' = opens \/ opens' = [opens EXCEPT ![t] = TRUE]
            /\ waits' = [waits EXCEPT ![t] = row]
            /\ at' = [at EXCEPT ![t] = Place(t, row)]
        BY <1>2 DEF Want
    <2>2. Place(t, row) \in 0..5
        BY PlaceType
    <2> QED BY <1>2, <2>1, <2>2 DEF Want
<1>3. ASSUME NEW t \in Transactions, Lock(t) \/ Gone(t) PROVE TypeOK'
    BY <1>3 DEF Lock, Gone
<1>4. ASSUME NEW t \in Transactions, Ended(t), stored' \in [Prisoners -> [Numbers -> RowStates]]
      PROVE  TypeOK'
    BY <1>4 DEF Ended
<1>5. ASSUME NEW t \in Transactions, Commit(t) PROVE TypeOK'
    <2>1. PICK revived \in SUBSET Numbers :
            stored' = [stored EXCEPT ![own[t]] = [n \in Numbers |->
                IF holder[FormRow(own[t], n)] = t THEN Left(t, n, revived) ELSE @[n]]]
        BY <1>5 DEF Commit
    <2>2. \A n \in Numbers : Left(t, n, revived) \in RowStates
        BY DEF Left, RowStates
    <2>3. stored' \in [Prisoners -> [Numbers -> RowStates]]
        BY <2>1, <2>2
    <2> QED BY <1>4, <1>5, <2>3 DEF Commit
<1>6. ASSUME NEW t \in Transactions, Fail(t) PROVE TypeOK'
    BY <1>4, <1>6 DEF Fail
<1>7. CASE UNCHANGED vars
    BY <1>7 DEF vars
<1> QED BY <1>1, <1>2, <1>3, <1>5, <1>6, <1>7 DEF Next

(* What a transaction writes, and in which order, does not change while it *)
(* runs.                                                                   *)
LEMMA SameOrder ==
    ASSUME TypeOK, NEW t \in Transactions, NEW row \in Rows,
           kind'[t] = kind[t], own' = own, other' = other
    PROVE  /\ Writes(t, row)' = Writes(t, row)
           /\ Place(t, row)' = Place(t, row)
           /\ Several(t, row)' = Several(t, row)
BY DEF Writes, Place, Several

(* Every step keeps transactions waiting for the row they have got to.     *)
LEMMA WaitsStep == LockInv /\ [Next]_vars => WaitsInOrder'
<1> SUFFICES ASSUME LockInv, [Next]_vars,
                    NEW u \in Transactions, NEW row \in Rows, waits'[u] = row
             PROVE  kind'[u] # None /\ Writes(u, row)' /\ at'[u] = Place(u, row)'
    BY DEF WaitsInOrder
<1> USE DEF LockInv, TypeOK, WaitsInOrder
<1>0. row # NoRow
    BY DEF Rows, NoRow
<1>1. ASSUME kind'[u] = kind[u], own' = own, other' = other, waits'[u] = waits[u], at'[u] = at[u]
      PROVE  kind'[u] # None /\ Writes(u, row)' /\ at'[u] = Place(u, row)'
    BY <1>1, SameOrder
<1>2. ASSUME NEW t \in Transactions, Begin(t)
      PROVE  kind'[u] # None /\ Writes(u, row)' /\ at'[u] = Place(u, row)'
    <2>1. u # t
        BY <1>2 DEF Begin
    <2> QED BY <1>1, <1>2, <2>1 DEF Begin
<1>3. ASSUME NEW t \in Transactions, Want(t)
      PROVE  kind'[u] # None /\ Writes(u, row)' /\ at'[u] = Place(u, row)'
    <2>1. PICK next \in Rows :
            /\ Writes(t, next)
            /\ waits' = [waits EXCEPT ![t] = next]
            /\ at' = [at EXCEPT ![t] = Place(t, next)]
        BY <1>3 DEF Want
    <2>2. kind' = kind /\ own' = own /\ other' = other /\ kind[t] # None
        BY <1>3 DEF Want
    <2>3. CASE u = t
        <3>1. row = next
            BY <2>1, <2>3
        <3> QED BY <2>1, <2>2, <2>3, <3>1, SameOrder
    <2>4. CASE u # t
        BY <1>1, <2>1, <2>2, <2>4
    <2> QED BY <2>3, <2>4
<1>4. ASSUME NEW t \in Transactions, Lock(t) \/ Gone(t)
      PROVE  kind'[u] # None /\ Writes(u, row)' /\ at'[u] = Place(u, row)'
    <2>1. u # t
        BY <1>0, <1>4 DEF Lock, Gone
    <2> QED BY <1>1, <1>4, <2>1 DEF Lock, Gone
<1>5. ASSUME NEW t \in Transactions, Ended(t)
      PROVE  kind'[u] # None /\ Writes(u, row)' /\ at'[u] = Place(u, row)'
    <2>1. u # t
        BY <1>0, <1>5 DEF Ended
    <2> QED BY <1>1, <1>5, <2>1 DEF Ended
<1>6. CASE UNCHANGED vars
    BY <1>1, <1>6 DEF vars
<1> QED BY <1>2, <1>3, <1>4, <1>5, <1>6 DEF Next, Commit, Fail

(* Every step keeps locked rows before the one that is waited for.         *)
LEMMA HeldStep == LockInv /\ [Next]_vars => HeldInOrder'
<1> SUFFICES ASSUME LockInv, [Next]_vars,
                    NEW u \in Transactions, NEW row \in Rows, holder'[row] = u
             PROVE  /\ kind'[u] # None
                    /\ Writes(u, row)'
                    /\ Place(u, row)' <= at'[u]
                    /\ \A next \in Rows : waits'[u] = next =>
                            Place(u, row)' < at'[u] \/ Several(u, next)'
    BY DEF HeldInOrder
<1> DEFINE Goal == /\ kind'[u] # None
                   /\ Writes(u, row)'
                   /\ Place(u, row)' <= at'[u]
                   /\ \A next \in Rows : waits'[u] = next =>
                           Place(u, row)' < at'[u] \/ Several(u, next)'
<1> USE DEF LockInv, TypeOK
<1>1. ASSUME kind'[u] = kind[u], own' = own, other' = other, at'[u] = at[u],
             waits'[u] \in {waits[u], NoRow}, holder[row] = u
      PROVE  Goal
    <2>1. Writes(u, row)' = Writes(u, row) /\ Place(u, row)' = Place(u, row)
        BY <1>1, SameOrder
    <2>2. ASSUME NEW next \in Rows, waits'[u] = next
          PROVE  Place(u, row)' < at'[u] \/ Several(u, next)'
        <3>1. waits[u] = next
            BY <1>1, <2>2 DEF Rows, NoRow
        <3>2. Several(u, next)' = Several(u, next)
            BY <1>1, SameOrder
        <3> QED BY <1>1, <2>1, <3>1, <3>2 DEF HeldInOrder
    <2> QED BY <1>1, <2>1, <2>2 DEF HeldInOrder
<1>2. ASSUME NEW t \in Transactions, Begin(t) PROVE Goal
    <2>1. holder[row] = u
        BY <1>2 DEF Begin
    <2>2. u # t
        BY <1>2, <2>1 DEF Begin, HeldInOrder
    <2> QED BY <1>1, <1>2, <2>1, <2>2 DEF Begin
<1>3. ASSUME NEW t \in Transactions, Want(t) PROVE Goal
    <2>1. PICK next \in Rows :
            /\ \/ at[t] < Place(t, next)
               \/ at[t] = Place(t, next) /\ Several(t, next)
            /\ waits' = [waits EXCEPT ![t] = next]
            /\ at' = [at EXCEPT ![t] = Place(t, next)]
        BY <1>3 DEF Want
    <2>2. kind' = kind /\ own' = own /\ other' = other /\ holder[row] = u
        BY <1>3 DEF Want
    <2>3. CASE u = t
        <3>1. Place(t, row) <= at[t] /\ kind[t] # None /\ Writes(t, row)
            BY <2>2, <2>3 DEF HeldInOrder
        <3>2. Place(t, row) \in 1..5 /\ Place(t, next) \in 1..5 /\ at[t] \in 0..5
            BY PlaceType
        <3>3. at'[t] = Place(t, next) /\ waits'[t] = next
            BY <2>1
        <3>4. /\ Writes(t, row)' = Writes(t, row) /\ Place(t, row)' = Place(t, row)
              /\ Several(t, next)' = Several(t, next)
            BY <2>2, SameOrder
        <3>5. Place(t, row) < Place(t, next) \/ Several(t, next)
            BY <2>1, <3>1, <3>2
        <3>6. Place(t, row) <= Place(t, next)
            BY <2>1, <3>1, <3>2
        <3> QED BY <2>2, <2>3, <3>1, <3>3, <3>4, <3>5, <3>6
    <2>4. CASE u # t
        BY <1>1, <2>1, <2>2, <2>4
    <2> QED BY <2>3, <2>4
<1>4. ASSUME NEW t \in Transactions, Lock(t) PROVE Goal
    <2>1. /\ holder' = [holder EXCEPT ![waits[t]] = t] /\ waits' = [waits EXCEPT ![t] = NoRow]
          /\ kind' = kind /\ own' = own /\ other' = other /\ at' = at
        BY <1>4 DEF Lock
    <2>2. CASE row = waits[t]
        <3>1. u = t
            BY <2>1, <2>2
        <3>2. kind[t] # None /\ Writes(t, row) /\ at[t] = Place(t, row)
            BY <2>2 DEF WaitsInOrder
        <3>3. Writes(t, row)' = Writes(t, row) /\ Place(t, row)' = Place(t, row)
            BY <2>1, SameOrder
        <3>4. Place(t, row) <= at[t]
            <4>1. Place(t, row) \in 1..5
                BY PlaceType
            <4>2. \A n \in 1..5 : n <= n
                OBVIOUS
            <4> QED BY <3>2, <4>1, <4>2
        <3>5. \A next \in Rows : waits'[t] # next
            BY <2>1 DEF Rows, NoRow
        <3> QED BY <2>1, <3>1, <3>2, <3>3, <3>4, <3>5
    <2>3. CASE row # waits[t]
        <3>1. holder[row] = u
            BY <2>1, <2>3
        <3> QED BY <1>1, <2>1, <3>1
    <2> QED BY <2>2, <2>3
<1>5. ASSUME NEW t \in Transactions, Gone(t) PROVE Goal
    BY <1>1, <1>5 DEF Gone
<1>6. ASSUME NEW t \in Transactions, Ended(t) PROVE Goal
    <2>1. u # t /\ holder[row] = u
        BY <1>6, NobodyAssumption DEF Ended
    <2> QED BY <1>1, <1>6, <2>1 DEF Ended
<1>7. CASE UNCHANGED vars
    BY <1>1, <1>7 DEF vars
<1> QED BY <1>2, <1>3, <1>4, <1>5, <1>6, <1>7 DEF Next, Commit, Fail

(* The invariant is one.                                                   *)
THEOREM LockInvariant == Spec => []LockInv
<1>1. LockInv /\ [Next]_vars => LockInv'
    BY LockTypes, WaitsStep, HeldStep DEF LockInv
<1> QED BY <1>1, LockInitially, PTL DEF Spec
-----------------------------------------------------------------------------
(* In a deadlock, whoever is waited for waits itself, for a row that comes *)
(* after the one it has, except among several rows of one table.           *)
LEMMA Waiting ==
    ASSUME LockInv, NEW D \in SUBSET Transactions, Deadlocked(D), NEW t \in D
    PROVE  /\ waits[t] \in Rows
           /\ Writes(t, waits[t])
           /\ \E u \in D \ {t} :
                /\ waits[u] \in Rows /\ holder[waits[t]] = u
                /\ Writes(u, waits[t]) /\ Writes(u, waits[u])
                /\ \/ Place(u, waits[t]) < Place(u, waits[u])
                   \/ /\ Place(u, waits[t]) = Place(u, waits[u])
                      /\ Several(u, waits[u])
<1>1. \A v \in D : waits[v] \in Rows /\ Writes(v, waits[v]) /\ at[v] = Place(v, waits[v])
    BY DEF LockInv, TypeOK, WaitsInOrder, Deadlocked
<1>2. PICK u \in D \ {t} : holder[waits[t]] = u
    BY DEF Deadlocked
<1>3. /\ Writes(u, waits[t]) /\ Place(u, waits[t]) <= at[u]
      /\ Place(u, waits[t]) < at[u] \/ Several(u, waits[u])
    BY <1>1, <1>2 DEF LockInv, HeldInOrder
<1>4. Place(u, waits[t]) \in 1..5 /\ Place(u, waits[u]) \in 1..5
    BY <1>1, PlaceType
<1> QED BY <1>1, <1>2, <1>3, <1>4

(* Who waits is at work, as one of the pages or the events.                *)
LEMMA AtWorkKinds ==
    ASSUME LockInv, NEW t \in Transactions, waits[t] \in Rows
    PROVE  kind[t] \in Pages \cup Events
<1>1. kind[t] \in Kinds
    BY DEF LockInv, TypeOK, WaitsInOrder
<1> QED BY <1>1, KindsAssumption

\* The order that all pages agree on.
PageRank(row) ==
    CASE row.table = "form" -> 1
      [] row.table = "lite_category" -> 2
      [] row.table = "security_referral" -> 3
      [] row.table = "risk_change" -> 4

(* A page goes up in that order.                                           *)
LEMMA PagesAgree ==
    ASSUME LockInv, NEW t \in Transactions, kind[t] \in Pages, NEW row \in Rows, NEW next \in Rows,
           Writes(t, row), Writes(t, next), Place(t, row) < Place(t, next)
    PROVE  PageRank(row) < PageRank(next)
<1>1. CASE kind[t] = "tasklistRecat"
    BY <1>1 DEF Writes, Place, PageRank, Rows, Tables
<1>2. CASE kind[t] \in {"tasklist", "approve", "cancel"}
    <2>1. row.table \in {"form", "security_referral"} /\ next.table \in {"form", "security_referral"}
        BY <1>2 DEF Writes, Tables
    <2> QED BY <1>2, <2>1 DEF Place, PageRank
<1>3. CASE kind[t] \in {"save", "lite", "refer", "decide"}
    <2>1. row.table = next.table
        BY <1>3 DEF Writes, Tables
    <2> QED BY <1>3, <2>1 DEF Place, Rows
<1> QED BY <1>1, <1>2, <1>3 DEF Pages

(* A page writes several rows of form only.                                *)
LEMMA SeveralOnForm ==
    ASSUME NEW t \in Transactions, kind[t] \in Pages, NEW row \in Rows, NEW next \in Rows,
           Place(t, row) = Place(t, next), Several(t, next)
    PROVE  row.table = "form" /\ next.table = "form"
<1>1. next.table = "form"
    BY DEF Several, Pages
<1>2. Place(t, row) = 1
    BY <1>1 DEF Place
<1>3. row.table = "form"
    BY <1>2 DEF Place, Rows
<1> QED BY <1>1, <1>3

(* Nobody in a deadlock of pages alone can wait for the last table of      *)
(* their order, hence nobody for the one before it, down to form.          *)
LEMMA PagesOnForm == LockInv => DeadlockOfPages
<1> SUFFICES ASSUME LockInv, NEW D \in SUBSET Transactions, Deadlocked(D),
                    \A t \in D : kind[t] \notin Events
             PROVE  /\ \A t \in D : waits[t].table = "form"
                    /\ \E t \in D : BetweenRows(t)
    BY DEF DeadlockOfPages
<1>1. \A t \in D : waits[t] \in Rows /\ kind[t] \in Pages
    BY Waiting, AtWorkKinds
<1>2. ASSUME NEW t \in D
      PROVE  \E u \in D : \/ PageRank(waits[t]) < PageRank(waits[u])
                          \/ PageRank(waits[t]) = 1
    <2>1. PICK u \in D \ {t} :
            /\ Writes(u, waits[t]) /\ Writes(u, waits[u])
            /\ \/ Place(u, waits[t]) < Place(u, waits[u])
               \/ Place(u, waits[t]) = Place(u, waits[u]) /\ Several(u, waits[u])
        BY Waiting
    <2>2. CASE Place(u, waits[t]) < Place(u, waits[u])
        BY <1>1, <2>1, <2>2, PagesAgree
    <2>3. CASE Place(u, waits[t]) = Place(u, waits[u]) /\ Several(u, waits[u])
        <3>1. waits[t].table = "form"
            BY <1>1, <2>3, SeveralOnForm
        <3> QED BY <3>1 DEF PageRank
    <2> QED BY <2>1, <2>2, <2>3
<1>3. \A t \in D : PageRank(waits[t]) \in 1..4
    BY <1>1 DEF PageRank, Rows
<1>4. \A t \in D : PageRank(waits[t]) # 4
    BY <1>2, <1>3
<1>5. \A t \in D : PageRank(waits[t]) # 3
    BY <1>2, <1>3, <1>4
<1>6. \A t \in D : PageRank(waits[t]) # 2
    BY <1>2, <1>3, <1>4, <1>5
<1>7. \A t \in D : waits[t].table = "form"
    BY <1>1, <1>3, <1>4, <1>5, <1>6 DEF PageRank, Rows
<1>8. \E t \in D : BetweenRows(t)
    <2>1. PICK t \in D : TRUE
        BY DEF Deadlocked
    <2>2. PICK u \in D : holder[waits[t]] = u
        BY DEF Deadlocked
    <2> QED BY <1>1, <1>7, <2>2 DEF BetweenRows
<1> QED BY <1>7, <1>8

(* Without a recategorisation tasklist and a page between two rows of      *)
(* form, one event does not deadlock with pages: it is the only one that   *)
(* could wait for a row of the table it is at, or for a referral with      *)
(* another one in hand, and it never waits for itself.                     *)
LEMMA OneEventAgrees == LockInv => DeadlockOfOneEvent
<1> SUFFICES ASSUME LockInv, NEW D \in SUBSET Transactions, Deadlocked(D),
                    \A t \in D : kind[t] # "tasklistRecat" /\ ~BetweenRows(t),
                    \A t, u \in D : kind[t] \in Events /\ kind[u] \in Events => t = u
             PROVE  FALSE
    BY DEF DeadlockOfOneEvent
<1> DEFINE Rank(t) == Place(t, waits[t])
<1>1. \A t \in D : /\ waits[t] \in Rows /\ Rank(t) \in 1..5
                    /\ kind[t] \in Pages \cup Events
    BY Waiting, AtWorkKinds, PlaceType
<1>2. ASSUME NEW t \in D, NEW row \in Rows
      PROVE  /\ row.table = "form" => Place(t, row) = 1
             /\ row.table = "lite_category" => Place(t, row) = 2
             /\ row.table = "risk_change" => Place(t, row) = 3
             /\ row.table = "security_referral" => Place(t, row) \in {4, 5}
             /\ row.table = "security_referral" /\ kind[t] \notin Events => Place(t, row) = 4
             /\ Several(t, row) => Place(t, row) \in {1, 2}
             /\ row.table \in {"form", "lite_category", "risk_change", "security_referral"}
    BY DEF Place, Several, Events, Rows
<1>3. ASSUME NEW t \in D, NEW u \in D, holder[waits[t]] = u, kind[u] \notin Events,
             Place(u, waits[t]) = Rank(u), Several(u, waits[u])
      PROVE  FALSE
    <2>1. kind[u] \in Pages
        BY <1>1, <1>3
    <2>2. waits[t].table = "form" /\ waits[u].table = "form"
        BY <1>1, <1>3, <2>1, SeveralOnForm
    <2> QED BY <1>1, <1>3, <2>1, <2>2 DEF BetweenRows
<1>4. ASSUME NEW t \in D
      PROVE  \E u \in D \ {t} :
                \/ Rank(t) < Rank(u)
                \/ kind[u] \in Events /\ Rank(t) = Rank(u) /\ Rank(t) \in {1, 2}
                \/ kind[u] \in Events /\ Rank(t) = 4 /\ Rank(u) = 5
                \/ kind[t] \in Events /\ kind[u] \notin Events /\ 4 < Rank(u)
    <2>1. PICK u \in D \ {t} :
            /\ holder[waits[t]] = u
            /\ \/ Place(u, waits[t]) < Rank(u)
               \/ Place(u, waits[t]) = Rank(u) /\ Several(u, waits[u])
        BY Waiting
    <2>2. Place(u, waits[t]) < Rank(u) \/ kind[u] \in Events
        BY <1>3, <2>1
    <2>3. waits[t] \in Rows /\ waits[u] \in Rows
        BY <1>1
    <2> QED BY <1>1, <1>2, <2>1, <2>2, <2>3
<1> HIDE DEF Rank
<1>5. \A t \in D : kind[t] \notin Events => Rank(t) # 5
    BY <1>1, <1>2 DEF Rank
<1>6. \A t \in D : Rank(t) # 5
    BY <1>1, <1>4, <1>5
<1>7. \A t \in D : Rank(t) # 4
    BY <1>1, <1>4, <1>6
<1>8. \A t \in D : Rank(t) # 3
    BY <1>1, <1>4, <1>6, <1>7
<1>9. \A t \in D : Rank(t) # 2
    <2>1. \A t \in D : Rank(t) = 2 => \E u \in D \ {t} : kind[u] \in Events /\ Rank(u) = 2
        BY <1>1, <1>4, <1>6, <1>7, <1>8
    <2> QED BY <2>1
<1>10. \A t \in D : Rank(t) # 1
    <2>1. \A t \in D : Rank(t) = 1 => \E u \in D \ {t} : kind[u] \in Events /\ Rank(u) = 1
        BY <1>1, <1>4, <1>6, <1>7, <1>8, <1>9
    <2> QED BY <2>1
<1> QED BY <1>1, <1>6, <1>7, <1>8, <1>9, <1>10 DEF Deadlocked

(* However many transactions there are, pages deadlock without an event    *)
(* only on rows of form.                                                   *)
THEOREM PagesDeadlockOnForm == Spec => []DeadlockOfPages
<1> QED BY LockInvariant, PagesOnForm, PTL

(* However many pages meet one event, a deadlock has a recategorisation    *)
(* tasklist in it or a page between two rows of form.                      *)
THEOREM OneEventDeadlocks == Spec => []DeadlockOfOneEvent
<1> QED BY LockInvariant, OneEventAgrees, PTL
-----------------------------------------------------------------------------
(* Only the latest row may be under way.                                   *)
OnlyCurrent == \A s \in DOMAIN rows : s # Len(rows) => rows[s].status = "APPROVED"

(* Until NOMIS merges them there is one number.                            *)
BeforeMerge == nomis.number = "removed" =>
    /\ ~merged
    /\ nomis.below = {}
    /\ \A s \in DOMAIN rows : rows[s].number = "removed"
    /\ lite.number = "removed"
    /\ \A c \in risk : c.number = "removed"
    /\ \A i \in DOMAIN queue : queue[i].number = "removed"

(* A merge that was handled left nothing under the removed number, and the *)
(* pending assessments on top.                                             *)
AfterMerge == merged =>
    /\ \A s \in DOMAIN rows : rows[s].number = "survives"
    /\ lite.number = "survives"
    /\ \A c \in risk : c.number = "survives"
    /\ Exists(referral["removed"]) => Exists(referral["survives"])
    /\ ~BackToSecurity => nomis.below = {}

(* A merge has been handled or is still to be told.                        *)
MergeTold ==
    /\ \A i \in DOMAIN queue : queue[i].type = "merged" => queue[i].number = "survives"
    /\ nomis.number = "survives" =>
          merged \/ \E i \in DOMAIN queue : queue[i].type = "merged"

(* The assessments that are pending are those of what is under way, and    *)
(* those below an active one were made before the merge.                   *)
AssessmentsOfRows == ~BackToSecurity =>
    /\ nomis.below \subseteq nomis.pending
    /\ "form" \in nomis.pending => Status \in {"AWAITING_APPROVAL", "SUPERVISOR_BACK"}
    /\ "lite" \in nomis.pending => lite.unapproved
    /\ "form" \in nomis.below => Current.number = "removed"
    /\ "lite" \in nomis.below => lite.number = "removed"

MergeInv == EventTypeOK /\ OnlyCurrent /\ BeforeMerge /\ AfterMerge /\ MergeTold /\ AssessmentsOfRows
-----------------------------------------------------------------------------
(* What changing, adding and dropping the last element of a sequence does. *)
LEMMA LastChanged ==
    ASSUME NEW S, NEW q \in Seq(S), q # <<>>, NEW e \in S
    PROVE  /\ [q EXCEPT ![Len(q)] = e] \in Seq(S)
           /\ Len([q EXCEPT ![Len(q)] = e]) = Len(q)
           /\ [q EXCEPT ![Len(q)] = e][Len(q)] = e
           /\ \A s \in 1..Len(q) : s # Len(q) => [q EXCEPT ![Len(q)] = e][s] = q[s]
<1>1. Len(q) \in 1..Len(q)
    BY EmptySeq, LenProperties
<1> QED BY <1>1, ExceptSeq

(* What appending an element to a sequence leaves and adds. *)
LEMMA LastAdded ==
    ASSUME NEW S, NEW q \in Seq(S), NEW e \in S
    PROVE  /\ Append(q, e) \in Seq(S)
           /\ Len(Append(q, e)) = Len(q) + 1
           /\ Append(q, e)[Len(q) + 1] = e
           /\ \A s \in 1..Len(q) : Append(q, e)[s] = q[s]
BY AppendProperties

(* A function on 1..n is a sequence of length n. *)
LEMMA RestIsSeq ==
    ASSUME NEW S, NEW n \in Nat, NEW f \in [1..n -> S]
    PROVE  f \in Seq(S) /\ Len(f) = n
<1>1. f \in Seq(S)
    BY SeqDef
<1>2. Len(f) \in Nat /\ DOMAIN f = 1..Len(f)
    BY <1>1, LenProperties
<1>3. DOMAIN f = 1..n
    OBVIOUS
<1> QED BY <1>1, <1>2, <1>3

(* A deletion that drops nothing or the last row leaves the rows before it as they were. *)
LEMMA RowsWithout ==
    ASSUME rows \in Seq(Row), NEW gone, gone = {} \/ (rows # <<>> /\ gone = {Len(rows)})
    PROVE  /\ Without(gone) \in Seq(Row)
           /\ Len(Without(gone)) = IF gone = {} THEN Len(rows) ELSE Len(rows) - 1
           /\ \A s \in 1..Len(Without(gone)) : Without(gone)[s] = rows[s]
<1> DEFINE n == IF gone = {} THEN Len(rows) ELSE Len(rows) - 1
<1>1. Len(rows) \in Nat /\ DOMAIN rows = 1..Len(rows) /\ (rows # <<>> => Len(rows) > 0)
      /\ \A s \in 1..Len(rows) : rows[s] \in Row
    BY LenProperties, EmptySeq, ElementOfSeq
<1>2. n \in Nat /\ DOMAIN rows \ gone = 1..n
    BY <1>1
<1>3. Without(gone) \in [1..n -> Row] /\ \A s \in 1..n : Without(gone)[s] = rows[s]
    BY <1>1, <1>2 DEF Without
<1> HIDE DEF n
<1>4. Without(gone) \in Seq(Row) /\ Len(Without(gone)) = n
    BY <1>2, <1>3, RestIsSeq
<1> QED BY <1>3, <1>4 DEF n

(* What deleting a message leaves.                                         *)
LEMMA QueueDeleted ==
    ASSUME queue \in Seq(Message), NEW i \in DOMAIN queue
    PROVE  /\ Len(queue) \in Nat \ {0} /\ DOMAIN queue = 1..Len(queue)
           /\ Deleted(i) \in Seq(Message)
           /\ Len(Deleted(i)) = Len(queue) - 1
           /\ DOMAIN Deleted(i) = 1..Len(queue) - 1
           /\ \A j \in 1..Len(queue) - 1 : Deleted(i)[j] = queue[IF j < i THEN j ELSE j + 1]
<1>1. Len(queue) \in Nat /\ DOMAIN queue = 1..Len(queue)
      /\ \A j \in 1..Len(queue) : queue[j] \in Message
    BY LenProperties, ElementOfSeq
<1>2. Len(queue) - 1 \in Nat /\ i \in 1..Len(queue)
    BY <1>1
<1>3. /\ Deleted(i) \in [1..Len(queue) - 1 -> Message]
      /\ \A j \in 1..Len(queue) - 1 : Deleted(i)[j] = queue[IF j < i THEN j ELSE j + 1]
    BY <1>1, <1>2 DEF Deleted
<1>4. Deleted(i) \in Seq(Message) /\ Len(Deleted(i)) = Len(queue) - 1
    BY <1>2, <1>3, RestIsSeq
<1> QED BY <1>1, <1>2, <1>3, <1>4, LenProperties

(* The rows and the latest of them.                                        *)
LEMMA RowFacts ==
    ASSUME EventTypeOK
    PROVE  /\ Len(rows) \in Nat /\ DOMAIN rows = 1..Len(rows)
           /\ \A s \in 1..Len(rows) : rows[s] \in Row
           /\ Len(rows) = 0 <=> rows = <<>>
           /\ Status \in InProgress \cup {"APPROVED"} => rows # <<>> /\ Status = Current.status
           /\ rows # <<>> => Len(rows) \in 1..Len(rows) /\ Current \in Row /\ Status = Current.status
<1>1. rows \in Seq(Row)
    BY DEF EventTypeOK
<1>2. Len(rows) \in Nat /\ DOMAIN rows = 1..Len(rows) /\ \A s \in 1..Len(rows) : rows[s] \in Row
    BY <1>1, LenProperties, ElementOfSeq
<1>3. Len(rows) = 0 <=> rows = <<>>
    BY <1>1, EmptySeq
<1>4. Undefined \notin InProgress \cup {"APPROVED"}
    BY DEF Undefined, InProgress
<1> QED BY <1>2, <1>3, <1>4 DEF Status, Current
-----------------------------------------------------------------------------
(* What a step of a user does to the rows: a row it opens is of the number *)
(* and the prison NOMIS has; the others keep theirs.                       *)
RowsWorked ==
    /\ rows' \in Seq(Row) /\ Len(rows') <= MaxRows
    /\ OnlyCurrent'
    /\ \A s \in DOMAIN rows' : \/ rows'[s].number = nomis.number
                               \/ s \in DOMAIN rows /\ rows'[s].number = rows[s].number
    /\ Status' \in InProgress =>
          \/ Current'.number = nomis.number /\ Current'.prison = nomis.prison
          \/ /\ Status \in InProgress
             /\ Current'.number = Current.number /\ Current'.prison = Current.prison

(* A handler that leaves the table alone moves no status and no row. *)
LEMMA RowsSame ==
    ASSUME EventTypeOK, OnlyCurrent, rows' = rows
    PROVE  RowsWorked /\ Status' = Status /\ Current' = Current
<1>1. Status' = Status /\ Current' = Current /\ OnlyCurrent'
    BY DEF Status, Current, OnlyCurrent
<1> QED BY <1>1 DEF RowsWorked, EventTypeOK

(* A new document is the current row, of the number and prison NOMIS has now. *)
LEMMA RowAdded ==
    ASSUME EventTypeOK, OnlyCurrent, Status \notin InProgress, Len(rows) < MaxRows,
           NEW status \in InProgress, rows' = Append(rows, Opened(status))
    PROVE  RowsWorked /\ Status' = status
<1> DEFINE row == Opened(status)
<1>1. /\ Len(rows) \in Nat /\ DOMAIN rows = 1..Len(rows) /\ rows \in Seq(Row)
      /\ \A s \in 1..Len(rows) : rows[s] \in Row
      /\ Len(rows) > 0 => Current.status = Status /\ Status \in InProgress \cup {"APPROVED"}
    BY RowFacts DEF EventTypeOK, Row
<1>2. row \in Row /\ row.status = status /\ row.number = nomis.number /\ row.prison = nomis.prison
    BY DEF Opened, Row, EventTypeOK
<1> HIDE DEF row
<1>3. /\ rows' \in Seq(Row) /\ Len(rows') = Len(rows) + 1 /\ rows'[Len(rows) + 1] = row
      /\ \A s \in 1..Len(rows) : rows'[s] = rows[s]
    BY <1>1, <1>2, LastAdded DEF row
<1>4. DOMAIN rows' = 1..Len(rows) + 1 /\ rows' # <<>>
    BY <1>1, <1>3, LenProperties, EmptySeq
<1>5. Current' = row /\ Status' = status
    BY <1>2, <1>3, <1>4 DEF Current, Status
<1>6. OnlyCurrent'
    BY <1>1, <1>3, <1>4 DEF OnlyCurrent, Current
<1>7. Len(rows') <= MaxRows
    BY <1>1, <1>3, BoundsAssumption
<1>8. \A s \in DOMAIN rows' : \/ rows'[s].number = nomis.number
                              \/ s \in DOMAIN rows /\ rows'[s].number = rows[s].number
    BY <1>1, <1>2, <1>3, <1>4
<1> QED BY <1>2, <1>3, <1>5, <1>6, <1>7, <1>8 DEF RowsWorked

(* A new status of the current row leaves its number, and every other row. *)
LEMMA RowChanged ==
    ASSUME EventTypeOK, OnlyCurrent, Status \in InProgress,
           NEW status \in InProgress \cup {"APPROVED"},
           rows' = [rows EXCEPT ![Len(rows)].status = status]
    PROVE  RowsWorked /\ Status' = status /\ Current'.number = Current.number
<1> DEFINE row == [rows[Len(rows)] EXCEPT !.status = status]
<1>1. /\ Len(rows) \in Nat /\ DOMAIN rows = 1..Len(rows) /\ rows \in Seq(Row) /\ rows # <<>>
      /\ \A s \in 1..Len(rows) : rows[s] \in Row
      /\ Len(rows) \in 1..Len(rows) /\ Len(rows) <= MaxRows
    BY RowFacts DEF EventTypeOK
<1>2. /\ row \in Row /\ row.status = status
      /\ row.number = Current.number /\ row.prison = Current.prison
    BY <1>1 DEF Current, Row
<1> HIDE DEF row
<1>3. rows' = [rows EXCEPT ![Len(rows)] = row]
    BY DEF row
<1>4. /\ rows' \in Seq(Row) /\ Len(rows') = Len(rows) /\ rows'[Len(rows)] = row
      /\ \A s \in 1..Len(rows) : s # Len(rows) => rows'[s] = rows[s]
    BY <1>1, <1>2, <1>3, LastChanged
<1>5. DOMAIN rows' = 1..Len(rows) /\ rows' # <<>>
    BY <1>1, <1>4, LenProperties, EmptySeq
<1>6. Current' = row /\ Status' = status
    BY <1>2, <1>4, <1>5 DEF Current, Status
<1>7. OnlyCurrent'
    BY <1>1, <1>4, <1>5 DEF OnlyCurrent
<1>8. \A s \in DOMAIN rows' : s \in DOMAIN rows /\ rows'[s].number = rows[s].number
    BY <1>1, <1>2, <1>4, <1>5 DEF Current
<1> QED BY <1>1, <1>2, <1>4, <1>6, <1>7, <1>8 DEF RowsWorked

(* A cancelled or deleted row leaves only approved ones. *)
LEMMA RowDropped ==
    ASSUME EventTypeOK, OnlyCurrent, rows # <<>>, rows' = Without({Len(rows)})
    PROVE  RowsWorked /\ Status' \notin InProgress
<1>1. /\ Len(rows) \in Nat /\ DOMAIN rows = 1..Len(rows) /\ rows \in Seq(Row)
      /\ Len(rows) \in 1..Len(rows) /\ Len(rows) <= MaxRows
    BY RowFacts DEF EventTypeOK
<1>2. /\ rows' \in Seq(Row) /\ Len(rows') = Len(rows) - 1
      /\ \A s \in 1..Len(rows') : rows'[s] = rows[s]
    BY <1>1, RowsWithout
<1>3. DOMAIN rows' = 1..Len(rows) - 1 /\ (rows' # <<>> => Len(rows') \in 1..Len(rows) - 1)
    BY <1>1, <1>2, LenProperties, EmptySeq
<1>4. \A s \in DOMAIN rows' : s \in DOMAIN rows /\ rows'[s] = rows[s] /\ rows'[s].status = "APPROVED"
    <2> TAKE s \in DOMAIN rows'
    <2>1. s \in DOMAIN rows /\ s # Len(rows) /\ s \in 1..Len(rows')
        BY <1>1, <1>2, <1>3
    <2> QED BY <1>2, <2>1 DEF OnlyCurrent
<1>5. Status' \in {Undefined, "APPROVED"}
    BY <1>2, <1>3, <1>4 DEF Status, Current
<1>6. Status' \notin InProgress
    BY <1>5 DEF Undefined, InProgress
<1>7. OnlyCurrent'
    BY <1>4 DEF OnlyCurrent
<1>8. Len(rows') <= MaxRows
    BY <1>1, <1>2, BoundsAssumption
<1> QED BY <1>2, <1>4, <1>6, <1>7, <1>8 DEF RowsWorked
-----------------------------------------------------------------------------
(* What a step of a user does to the rest.                                 *)
Worked ==
    /\ RowsWorked
    /\ \/ lite' = lite
       \/ lite'.number = lite.number /\ ~lite'.unapproved
       \/ lite'.number = nomis.number /\ lite'.prison = nomis.prison
    /\ risk' \subseteq risk \cup {[number |-> nomis.number, prison |-> nomis.prison]}
    /\ /\ nomis'.number = nomis.number /\ nomis'.prison = nomis.prison
       /\ nomis'.inside = nomis.inside /\ nomis'.below \subseteq nomis.below
    /\ ~nomis.inside => rows' = rows /\ lite' = lite
    /\ merged => \/ \A n \in PrisonerNumbers : Exists(referral'[n]) = Exists(referral[n])
                 \/ Exists(referral'[nomis.number])
    /\ queue' = queue /\ merged' = merged

(* A referral that changes its status is still one, if it was one.         *)
LEMMA ReferralChanged ==
    ASSUME EventTypeOK, NEW n \in PrisonerNumbers,
           NEW status \in {"NONE", "NEW", "REFERRED", "COMPLETED"},
           (status = "NONE") = (referral[n].status = "NONE"),
           referral' = [referral EXCEPT ![n].status = status]
    PROVE  /\ referral' \in [PrisonerNumbers -> Referral]
           /\ \A k \in PrisonerNumbers : Exists(referral'[k]) = Exists(referral[k])
<1> DEFINE r == [referral[n] EXCEPT !.status = status]
<1>1. referral \in [PrisonerNumbers -> Referral]
    BY DEF EventTypeOK
<1>2. r \in Referral /\ r.status = status
    BY <1>1 DEF Referral
<1> HIDE DEF r
<1>3. referral' = [referral EXCEPT ![n] = r]
    BY DEF r
<1> QED BY <1>1, <1>2, <1>3 DEF Exists

(* The types of what users change besides the rows.                        *)
LEMMA NomisChanged ==
    ASSUME EventTypeOK, NEW pending \in SUBSET {"form", "lite"},
           NEW below \in SUBSET {"form", "lite"},
           nomis' = [nomis EXCEPT !.pending = pending, !.below = below]
    PROVE  /\ nomis' \in [ number : PrisonerNumbers, prison : Prisons, inside : BOOLEAN,
                           pending : SUBSET {"form", "lite"}, below : SUBSET {"form", "lite"} ]
           /\ nomis'.number = nomis.number /\ nomis'.prison = nomis.prison
           /\ nomis'.inside = nomis.inside
           /\ nomis'.pending = pending /\ nomis'.below = below
BY DEF EventTypeOK

(* Security's steps, and a risk change.                                    *)
LEMMA SecurityWorks ==
    ASSUME MergeInv, RiskRaised \/ ReferredBefore \/ Refer, again' = again
    PROVE  EventTypeOK' /\ Worked /\ AssessmentsOfRows'
<1> USE DEF MergeInv
<1>1. rows' = rows /\ lite' = lite /\ nomis' = nomis /\ queue' = queue /\ merged' = merged
      /\ happened' = happened
    BY DEF RiskRaised, ReferredBefore, Refer
<1>2. RowsWorked /\ Status' = Status /\ Current' = Current
    BY <1>1, RowsSame
<1>3. AssessmentsOfRows'
    BY <1>1, <1>2 DEF AssessmentsOfRows
<1>4. nomis.number \in PrisonerNumbers /\ nomis.prison \in Prisons
      /\ "survives" \in PrisonerNumbers
    BY DEF EventTypeOK, PrisonerNumbers
<1>5. CASE RiskRaised
    <2>1. risk' \subseteq [number : PrisonerNumbers, prison : Prisons]
        BY <1>4, <1>5 DEF RiskRaised, EventTypeOK
    <2> QED BY <1>1, <1>2, <1>3, <1>5, <2>1 DEF RiskRaised, EventTypeOK, Worked
<1>6. CASE ReferredBefore
    <2>1. PICK status \in {"NEW", "COMPLETED"} : \E r \in 1..MaxRaised :
              referral' = [referral EXCEPT !["survives"] =
                             [status |-> status, raised |-> r, prison |-> nomis.prison]]
        BY <1>6 DEF ReferredBefore
    <2>2. PICK r \in 1..MaxRaised :
              referral' = [referral EXCEPT !["survives"] =
                             [status |-> status, raised |-> r, prison |-> nomis.prison]]
        BY <2>1
    <2>3. r \in 0..MaxRaised
        BY BoundsAssumption
    <2>4. referral' \in [PrisonerNumbers -> Referral]
        BY <1>4, <2>2, <2>3 DEF EventTypeOK, Referral
    <2> QED BY <1>1, <1>2, <1>3, <1>6, <2>4 DEF ReferredBefore, EventTypeOK, Worked
<1>7. CASE Refer
    <2>1. PICK r \in 1..MaxRaised :
              referral' = [referral EXCEPT ![nomis.number] =
                             [status |-> "NEW", raised |-> r, prison |-> nomis.prison]]
        BY <1>7 DEF Refer
    <2>2. r \in 0..MaxRaised
        BY BoundsAssumption
    <2>3. referral' \in [PrisonerNumbers -> Referral] /\ Exists(referral'[nomis.number])
        BY <1>4, <2>1, <2>2 DEF EventTypeOK, Referral, Exists
    <2> QED BY <1>1, <1>2, <1>3, <1>7, <2>3 DEF Refer, EventTypeOK, Worked
<1> QED BY <1>5, <1>6, <1>7

(* The tasklists' steps.                                                   *)
LEMMA TasklistWorks ==
    ASSUME MergeInv, Open \/ TakeUp, again' = again
    PROVE  EventTypeOK' /\ Worked /\ AssessmentsOfRows'
<1> USE DEF MergeInv
<1>1. lite' = lite /\ nomis' = nomis /\ queue' = queue /\ merged' = merged /\ happened' = happened
      /\ nomis.inside
    BY DEF Open, TakeUp
<1>2. nomis.number \in PrisonerNumbers
    BY DEF EventTypeOK
<1>3. RowsWorked /\ (~BackToSecurity => "form" \notin nomis.pending)
    <2>1. CASE Open
        <3>1. \E status \in InProgress : rows' = Append(rows, Opened(status))
            BY <2>1 DEF Open, InProgress
        <3>2. Status \notin InProgress
            BY <2>1 DEF Open, InProgress, Undefined
        <3>3. Status \notin {"AWAITING_APPROVAL", "SUPERVISOR_BACK"}
            BY <2>1 DEF Open, Undefined
        <3> QED BY <2>1, <3>1, <3>2, <3>3, RowAdded DEF Open, AssessmentsOfRows
    <2>2. CASE TakeUp
        <3>1. Status \notin {"AWAITING_APPROVAL", "SUPERVISOR_BACK"}
            BY <2>2 DEF TakeUp, Allowed, Previous, Undefined
        <3> QED BY <2>2, <3>1, RowChanged DEF TakeUp, AssessmentsOfRows, InProgress
    <2> QED BY <2>1, <2>2
<1>4. /\ referral' \in [PrisonerNumbers -> Referral]
      /\ \A k \in PrisonerNumbers : Exists(referral'[k]) = Exists(referral[k])
    <2>1. CASE UNCHANGED referral
        BY <2>1 DEF EventTypeOK
    <2>2. CASE /\ referral[nomis.number].status = "NEW"
               /\ referral' = [referral EXCEPT ![nomis.number].status = "REFERRED"]
        BY <1>2, <2>2, ReferralChanged
    <2> QED BY <2>1, <2>2 DEF Open, TakeUp
<1>5. risk' \subseteq risk
    BY DEF Open, TakeUp
<1>6. AssessmentsOfRows'
    BY <1>1, <1>3 DEF AssessmentsOfRows
<1>7. EventTypeOK'
    BY <1>1, <1>3, <1>4, <1>5 DEF EventTypeOK, RowsWorked
<1> QED BY <1>1, <1>3, <1>4, <1>5, <1>6, <1>7 DEF Worked

(* Where a form that was submitted can go on to.                           *)
LEMMA AfterSubmission ==
    ASSUME NEW status \in InProgress, NEW current \in {"AWAITING_APPROVAL", "SUPERVISOR_BACK"},
           Allowed(current, status)
    PROVE  \/ status \in {"AWAITING_APPROVAL", "SUPERVISOR_BACK"}
           \/ status = "SECURITY_MANUAL" /\ current = "SUPERVISOR_BACK"
BY DEF InProgress, Allowed, Previous, Undefined

(* The steps of those who move a row on.                                   *)
LEMMA FormWorks ==
    ASSUME MergeInv, Advance \/ Approve \/ Cancel, again' = again
    PROVE  EventTypeOK' /\ Worked /\ AssessmentsOfRows'
<1> USE DEF MergeInv
<1>1. lite' = lite /\ risk' = risk /\ queue' = queue /\ merged' = merged /\ happened' = happened
      /\ nomis.inside
    BY DEF Advance, Approve, Cancel
<1>2. nomis.pending \in SUBSET {"form", "lite"} /\ nomis.below \in SUBSET {"form", "lite"}
    BY DEF EventTypeOK
<1>3. ASSUME RowsWorked,
             referral' \in [PrisonerNumbers -> Referral],
             \A k \in PrisonerNumbers : Exists(referral'[k]) = Exists(referral[k]),
             NEW pending \in SUBSET {"form", "lite"}, NEW below \in SUBSET nomis.below,
             nomis' = [nomis EXCEPT !.pending = pending, !.below = below]
      PROVE  EventTypeOK' /\ Worked /\ nomis'.pending = pending /\ nomis'.below = below
    <2>1. /\ nomis' \in [ number : PrisonerNumbers, prison : Prisons, inside : BOOLEAN,
                          pending : SUBSET {"form", "lite"}, below : SUBSET {"form", "lite"} ]
          /\ nomis'.number = nomis.number /\ nomis'.prison = nomis.prison
          /\ nomis'.inside = nomis.inside
          /\ nomis'.pending = pending /\ nomis'.below = below
        BY <1>2, <1>3, NomisChanged
    <2>2. EventTypeOK'
        BY <1>1, <1>3, <2>1 DEF EventTypeOK, RowsWorked
    <2> QED BY <1>1, <1>3, <2>1, <2>2 DEF Worked
<1>4. CASE Advance
    <2>1. PICK status \in InProgress \ {"SECURITY_AUTO", "SECURITY_FLAGGED"} :
            /\ Status \in InProgress /\ Allowed(Status, status)
            /\ Status = "SUPERVISOR_BACK" /\ status = "SECURITY_MANUAL" => BackToSecurity
            /\ rows' = [rows EXCEPT ![Len(rows)].status = status]
            /\ nomis' = [nomis EXCEPT !.pending =
                            IF status = "AWAITING_APPROVAL" THEN @ \cup {"form"} ELSE @]
        BY <1>4 DEF Advance
    <2> DEFINE pending == IF status = "AWAITING_APPROVAL" THEN nomis.pending \cup {"form"} ELSE nomis.pending
    <2>2. RowsWorked /\ Status' = status /\ Current'.number = Current.number
        BY <2>1, RowChanged
    <2>3. nomis' = [nomis EXCEPT !.pending = pending, !.below = nomis.below]
        BY <2>1 DEF EventTypeOK
    <2>4. pending \in SUBSET {"form", "lite"} /\ nomis.pending \subseteq pending
        BY <1>2
    <2>5. referral' = referral
        BY <1>4 DEF Advance
    <2>6. ("form" \in pending => status = "AWAITING_APPROVAL" \/ "form" \in nomis.pending)
          /\ ("lite" \in pending => "lite" \in nomis.pending)
        OBVIOUS
    <2> HIDE DEF pending
    <2>7. EventTypeOK' /\ Worked /\ nomis'.pending = pending /\ nomis'.below = nomis.below
        BY <1>3, <2>2, <2>3, <2>4, <2>5 DEF EventTypeOK
    <2>8. ASSUME ~BackToSecurity, "form" \in pending
          PROVE  status \in {"AWAITING_APPROVAL", "SUPERVISOR_BACK"}
        BY <2>1, <2>6, <2>8, AfterSubmission DEF AssessmentsOfRows
    <2> QED BY <1>1, <2>2, <2>4, <2>6, <2>7, <2>8 DEF AssessmentsOfRows
<1>5. CASE Approve
    <2>1. Status \in InProgress
        BY <1>5 DEF Approve, Allowed, Previous, InProgress
    <2>2. RowsWorked /\ Status' = "APPROVED" /\ Current'.number = Current.number
        BY <1>5, <2>1, RowChanged DEF Approve
    <2>3. Current.number \in PrisonerNumbers
        BY <2>1, RowFacts DEF Row
    <2>4. referral[Current.number].status \in {"NONE", "NEW", "REFERRED", "COMPLETED"}
        BY <2>3 DEF EventTypeOK, Referral
    <2>5. /\ referral' \in [PrisonerNumbers -> Referral]
          /\ \A k \in PrisonerNumbers : Exists(referral'[k]) = Exists(referral[k])
        <3> DEFINE status == IF referral[Current.number].status = "NONE" THEN "NONE" ELSE "COMPLETED"
        <3>1. referral' = [referral EXCEPT ![Current.number].status = status]
            BY <1>5, <2>3 DEF Approve, EventTypeOK
        <3>2. status \in {"NONE", "NEW", "REFERRED", "COMPLETED"}
              /\ (status = "NONE") = (referral[Current.number].status = "NONE")
            BY <2>4
        <3> QED BY <2>3, <3>1, <3>2, ReferralChanged
    <2>6. EventTypeOK' /\ Worked /\ nomis'.pending = nomis.pending \ {"form"}
          /\ nomis'.below = nomis.below \ {"form"}
        <3>1. nomis' = [nomis EXCEPT !.pending = nomis.pending \ {"form"}, !.below = nomis.below \ {"form"}]
            BY <1>5 DEF Approve, EventTypeOK
        <3>2. nomis.pending \ {"form"} \in SUBSET {"form", "lite"} /\ nomis.below \ {"form"} \in SUBSET nomis.below
            BY <1>2
        <3> QED BY <1>3, <2>2, <2>5, <3>1, <3>2
    <2> QED BY <1>1, <2>6 DEF AssessmentsOfRows
<1>6. CASE Cancel
    <2>1. Status \in InProgress
        BY <1>6 DEF Cancel, Allowed, Previous
    <2>2. rows # <<>> /\ Current.number \in PrisonerNumbers
        BY <2>1, RowFacts DEF Row
    <2>3. RowsWorked
        BY <1>6, <2>2, RowDropped DEF Cancel
    <2>4. referral[Current.number].status \in {"NONE", "NEW", "REFERRED", "COMPLETED"}
        BY <2>2 DEF EventTypeOK, Referral
    <2>5. /\ referral' \in [PrisonerNumbers -> Referral]
          /\ \A k \in PrisonerNumbers : Exists(referral'[k]) = Exists(referral[k])
        <3> DEFINE old == referral[Current.number].status
                   status == IF old = "REFERRED" THEN "NEW" ELSE old
        <3>1. referral' = [referral EXCEPT ![Current.number].status = status]
            BY <1>6, <2>2 DEF Cancel, EventTypeOK
        <3>2. status \in {"NONE", "NEW", "REFERRED", "COMPLETED"} /\ (status = "NONE") = (old = "NONE")
            BY <2>4
        <3> QED BY <2>2, <3>1, <3>2, ReferralChanged
    <2>6. EventTypeOK' /\ Worked /\ nomis'.pending = {} /\ nomis'.below = {}
        BY <1>3, <1>6, <2>3, <2>5 DEF Cancel
    <2> QED BY <2>6 DEF AssessmentsOfRows
<1> QED BY <1>4, <1>5, <1>6

(* Another category is recorded, or approved.                              *)
LEMMA LiteWorks ==
    ASSUME MergeInv, OpenLite \/ ApproveLite, again' = again
    PROVE  EventTypeOK' /\ Worked /\ AssessmentsOfRows'
<1> USE DEF MergeInv
<1>1. /\ rows' = rows /\ referral' = referral /\ risk' = risk /\ queue' = queue
      /\ merged' = merged /\ happened' = happened /\ nomis.inside
    BY DEF OpenLite, ApproveLite
<1>2. RowsWorked /\ Status' = Status /\ Current' = Current
    BY <1>1, RowsSame
<1>3. nomis.pending \in SUBSET {"form", "lite"} /\ nomis.below \in SUBSET {"form", "lite"}
    BY DEF EventTypeOK
<1>4. ASSUME NEW pending \in SUBSET {"form", "lite"}, NEW below \in SUBSET nomis.below,
             nomis' = [nomis EXCEPT !.pending = pending, !.below = below],
             lite' \in [unapproved : BOOLEAN, number : PrisonerNumbers, prison : Prisons],
             \/ lite'.number = lite.number /\ ~lite'.unapproved
             \/ lite'.number = nomis.number /\ lite'.prison = nomis.prison
      PROVE  EventTypeOK' /\ Worked /\ nomis'.pending = pending /\ nomis'.below = below
    <2>1. /\ nomis' \in [ number : PrisonerNumbers, prison : Prisons, inside : BOOLEAN,
                          pending : SUBSET {"form", "lite"}, below : SUBSET {"form", "lite"} ]
          /\ nomis'.number = nomis.number /\ nomis'.prison = nomis.prison
          /\ nomis'.inside = nomis.inside
          /\ nomis'.pending = pending /\ nomis'.below = below
        BY <1>3, <1>4, NomisChanged
    <2>2. EventTypeOK'
        BY <1>1, <1>4, <2>1 DEF EventTypeOK
    <2>3. nomis'.below \subseteq nomis.below
        BY <1>4, <2>1
    <2>4. \A n \in PrisonerNumbers : Exists(referral'[n]) = Exists(referral[n])
        BY <1>1
    <2>5. Worked
        BY <1>1, <1>2, <1>4, <2>1, <2>3, <2>4 DEF Worked
    <2> QED BY <2>1, <2>2, <2>5
<1>5. CASE OpenLite
    <2>1. nomis' = [nomis EXCEPT !.pending = nomis.pending \cup {"lite"}, !.below = nomis.below]
        BY <1>5 DEF OpenLite, EventTypeOK
    <2>2. /\ lite' \in [unapproved : BOOLEAN, number : PrisonerNumbers, prison : Prisons]
          /\ lite'.number = nomis.number /\ lite'.prison = nomis.prison /\ lite'.unapproved
        BY <1>5 DEF OpenLite, EventTypeOK
    <2>3. EventTypeOK' /\ Worked /\ nomis'.pending = nomis.pending \cup {"lite"}
          /\ nomis'.below = nomis.below
        BY <1>3, <1>4, <2>1, <2>2
    <2>4. ~BackToSecurity => "lite" \notin nomis.below
        BY <1>5 DEF AssessmentsOfRows, OpenLite
    <2> QED BY <1>2, <2>2, <2>3, <2>4 DEF AssessmentsOfRows
<1>6. CASE ApproveLite
    <2>1. /\ lite' \in [unapproved : BOOLEAN, number : PrisonerNumbers, prison : Prisons]
          /\ lite'.number = lite.number /\ ~lite'.unapproved
        BY <1>6 DEF ApproveLite, EventTypeOK
    <2>2. EventTypeOK' /\ Worked /\ nomis'.pending = nomis.pending \ {"lite"}
          /\ nomis'.below = nomis.below \ {"lite"}
        <3>1. nomis' = [nomis EXCEPT !.pending = nomis.pending \ {"lite"}, !.below = nomis.below \ {"lite"}]
            BY <1>6 DEF ApproveLite, EventTypeOK
        <3>2. nomis.pending \ {"lite"} \in SUBSET {"form", "lite"} /\ nomis.below \ {"lite"} \in SUBSET nomis.below
            BY <1>3
        <3> QED BY <1>4, <2>1, <3>1, <3>2
    <2> QED BY <1>2, <2>1, <2>2 DEF AssessmentsOfRows
<1> QED BY <1>5, <1>6
-----------------------------------------------------------------------------
(* Initially there is nothing.                                             *)
LEMMA MergeInitially == EventInit => MergeInv
<1> SUFFICES ASSUME EventInit PROVE MergeInv
    OBVIOUS
<1>1. PICK p \in Prisons :
        /\ rows = <<>>
        /\ lite = [unapproved |-> FALSE, number |-> "removed", prison |-> p]
        /\ referral = [n \in PrisonerNumbers |-> [status |-> "NONE", raised |-> 0, prison |-> p]]
        /\ risk = {}
        /\ nomis = [number |-> "removed", prison |-> p, inside |-> TRUE,
                    pending |-> {}, below |-> {}]
        /\ queue = <<>>
        /\ happened = 0
        /\ merged = FALSE
        /\ again \in BOOLEAN
    BY DEF EventInit
<1>2. rows \in Seq(Row) /\ Len(rows) = 0 /\ queue \in Seq(Message) /\ Len(queue) = 0
    BY <1>1, EmptySeq
<1>3. DOMAIN rows = {} /\ DOMAIN queue = {}
    BY <1>2, LenProperties
<1>4. MaxRows \in Nat /\ MaxRaised \in Nat /\ MaxEvents \in Nat
    BY BoundsAssumption
<1>5. referral \in [PrisonerNumbers -> Referral]
    BY <1>1, <1>4 DEF Referral
<1>6. EventTypeOK
    <2>1. "removed" \in PrisonerNumbers
        BY DEF PrisonerNumbers
    <2>2. lite \in [unapproved : BOOLEAN, number : PrisonerNumbers, prison : Prisons]
        BY <1>1, <2>1
    <2>3. nomis \in [ number : PrisonerNumbers, prison : Prisons, inside : BOOLEAN,
                      pending : SUBSET {"form", "lite"}, below : SUBSET {"form", "lite"} ]
        BY <1>1, <2>1
    <2>4. Len(rows) <= MaxRows /\ Len(queue) <= happened /\ happened \in 0..MaxEvents
        BY <1>1, <1>2, <1>4
    <2>5. risk \subseteq [number : PrisonerNumbers, prison : Prisons]
        BY <1>1
    <2>6. merged \in BOOLEAN /\ again \in BOOLEAN
        BY <1>1
    <2> QED BY <1>2, <1>5, <2>2, <2>3, <2>4, <2>5, <2>6 DEF EventTypeOK
<1>7. OnlyCurrent /\ AfterMerge
    BY <1>1, <1>3 DEF OnlyCurrent, AfterMerge
<1>8. BeforeMerge /\ MergeTold /\ AssessmentsOfRows
    BY <1>1, <1>3 DEF BeforeMerge, MergeTold, AssessmentsOfRows
<1> QED BY <1>6, <1>7, <1>8 DEF MergeInv

(* The steps of users keep the invariant.                                  *)
LEMMA WorkKeepsMerge ==
    ASSUME MergeInv, EventTypeOK', Worked, AssessmentsOfRows'
    PROVE  MergeInv'
<1> USE DEF MergeInv
<1>1. DOMAIN queue' = DOMAIN queue /\ queue' = queue /\ merged' = merged /\ nomis'.number = nomis.number
      /\ nomis'.below \subseteq nomis.below
    BY DEF Worked
<1>2. lite'.number \in {lite.number, nomis.number}
    BY DEF Worked
<1>3. \A c \in risk' : c.number = nomis.number \/ c \in risk
    BY DEF Worked
<1>4. \A s \in DOMAIN rows' : \/ rows'[s].number = nomis.number
                              \/ s \in DOMAIN rows /\ rows'[s].number = rows[s].number
    BY DEF Worked, RowsWorked
<1>5. BeforeMerge'
    BY <1>1, <1>2, <1>3, <1>4 DEF BeforeMerge
<1>6. AfterMerge'
    <2> SUFFICES ASSUME merged PROVE AfterMerge'
        BY <1>1 DEF AfterMerge
    <2>1. nomis.number = "survives"
        BY DEF BeforeMerge, EventTypeOK, PrisonerNumbers
    <2>2. Exists(referral'["removed"]) => Exists(referral'["survives"])
        BY <2>1 DEF Worked, AfterMerge, PrisonerNumbers
    <2> QED BY <1>1, <1>2, <1>3, <1>4, <2>1, <2>2 DEF AfterMerge
<1>7. MergeTold'
    BY <1>1 DEF MergeTold
<1> QED BY <1>5, <1>6, <1>7 DEF Worked, RowsWorked

(* What sending a message does.                                            *)
LEMMA MessageSent ==
    ASSUME EventTypeOK, NEW type \in {"moved", "released", "merged"},
           NEW number \in PrisonerNumbers, NEW prison \in Prisons,
           Send(type, number, prison)
    PROVE  /\ queue' \in Seq(Message) /\ Len(queue') <= happened' /\ happened' \in 0..MaxEvents
           /\ Len(queue) \in Nat
           /\ DOMAIN queue = 1..Len(queue) /\ DOMAIN queue' = 1..Len(queue) + 1
           /\ \A i \in 1..Len(queue) : queue'[i] = queue[i]
           /\ queue'[Len(queue) + 1].type = type
           /\ queue'[Len(queue) + 1].number = number
           /\ queue'[Len(queue) + 1].prison = prison
<1> DEFINE m == [type |-> type, number |-> number, prison |-> prison]
<1>1. m \in Message /\ m.type = type /\ m.number = number /\ m.prison = prison
    BY DEF Message
<1>2. queue' = Append(queue, m) /\ happened < MaxEvents /\ happened' = happened + 1
    BY DEF Send
<1> HIDE DEF m
<1>3. queue \in Seq(Message) /\ Len(queue) \in Nat /\ Len(queue) <= happened /\ happened \in 0..MaxEvents
    BY LenProperties DEF EventTypeOK
<1>4. /\ queue' \in Seq(Message) /\ Len(queue') = Len(queue) + 1
      /\ queue'[Len(queue) + 1] = m
      /\ \A i \in 1..Len(queue) : queue'[i] = queue[i]
    BY <1>1, <1>2, <1>3, LastAdded
<1>5. DOMAIN queue = 1..Len(queue) /\ DOMAIN queue' = 1..Len(queue) + 1
    BY <1>3, <1>4, LenProperties
<1>6. Len(queue') <= happened' /\ happened' \in 0..MaxEvents
    BY <1>2, <1>3, <1>4, BoundsAssumption
<1> QED BY <1>1, <1>3, <1>4, <1>5, <1>6

(* So do the events themselves.                                            *)
LEMMA EventKeepsMerge ==
    ASSUME MergeInv, Admitted \/ Released \/ Merged, again' = again
    PROVE  MergeInv'
<1> USE DEF MergeInv
<1>1. /\ rows' = rows /\ lite' = lite /\ referral' = referral /\ risk' = risk
      /\ merged' = merged
    BY DEF Admitted, Released, Merged
<1>2. RowsWorked /\ Status' = Status /\ Current' = Current
    BY <1>1, RowsSame
<1>3. /\ nomis.number \in PrisonerNumbers /\ nomis.prison \in Prisons
      /\ "survives" \in PrisonerNumbers /\ nomis.pending \in SUBSET {"form", "lite"}
      /\ nomis.below \in SUBSET {"form", "lite"}
    BY DEF EventTypeOK, PrisonerNumbers
<1>4. PICK type \in {"moved", "released", "merged"} : \E number \in PrisonerNumbers :
        /\ \E prison \in Prisons : Send(type, number, prison)
        /\ number = nomis'.number
        /\ type = "merged" <=> nomis'.number # nomis.number
        /\ nomis'.number # nomis.number => nomis.number = "removed" /\ nomis'.number = "survives"
        /\ nomis'.number = nomis.number => nomis'.below = nomis.below
        /\ nomis'.below \in {nomis.below, nomis.pending} /\ nomis'.pending = nomis.pending
        /\ nomis' \in [ number : PrisonerNumbers, prison : Prisons, inside : BOOLEAN,
                        pending : SUBSET {"form", "lite"}, below : SUBSET {"form", "lite"} ]
    <2>1. CASE Admitted
        <3>1. PICK p \in Prisons : /\ nomis' = [nomis EXCEPT !.prison = p, !.inside = TRUE]
                                   /\ Send("moved", nomis.number, p)
            BY <2>1 DEF Admitted
        <3>2. /\ nomis'.number = nomis.number /\ nomis'.below = nomis.below
              /\ nomis'.pending = nomis.pending
              /\ nomis' \in [ number : PrisonerNumbers, prison : Prisons, inside : BOOLEAN,
                        pending : SUBSET {"form", "lite"}, below : SUBSET {"form", "lite"} ]
            BY <3>1 DEF EventTypeOK
        <3> QED BY <1>3, <3>1, <3>2
    <2>2. CASE Released
        <3>1. /\ nomis' = [nomis EXCEPT !.inside = FALSE]
              /\ Send("released", nomis.number, nomis.prison)
            BY <2>2 DEF Released
        <3>2. /\ nomis'.number = nomis.number /\ nomis'.below = nomis.below
              /\ nomis'.pending = nomis.pending
              /\ nomis' \in [ number : PrisonerNumbers, prison : Prisons, inside : BOOLEAN,
                        pending : SUBSET {"form", "lite"}, below : SUBSET {"form", "lite"} ]
            BY <3>1 DEF EventTypeOK
        <3> QED BY <1>3, <3>1, <3>2
    <2>3. CASE Merged
        <3>1. PICK below \in {nomis.below, nomis.pending} :
                nomis' = [nomis EXCEPT !.number = "survives", !.below = below]
            BY <2>3 DEF Merged
        <3>2. /\ nomis'.number = "survives" /\ nomis'.below = below
              /\ nomis'.pending = nomis.pending
              /\ nomis' \in [ number : PrisonerNumbers, prison : Prisons, inside : BOOLEAN,
                        pending : SUBSET {"form", "lite"}, below : SUBSET {"form", "lite"} ]
            BY <1>3, <3>1 DEF EventTypeOK
        <3>3. nomis.number = "removed" /\ Send("merged", "survives", nomis.prison)
            BY <2>3 DEF Merged
        <3> QED BY <1>3, <3>2, <3>3
    <2> QED BY <2>1, <2>2, <2>3
<1>5. PICK number \in PrisonerNumbers :
        /\ \E prison \in Prisons : Send(type, number, prison)
        /\ number = nomis'.number
    BY <1>4
<1>6. PICK prison \in Prisons : Send(type, number, prison)
    BY <1>5
<1> DEFINE last == Len(queue) + 1
<1>7. /\ queue' \in Seq(Message) /\ Len(queue') <= happened' /\ happened' \in 0..MaxEvents
      /\ DOMAIN queue = 1..Len(queue) /\ DOMAIN queue' = 1..last /\ Len(queue) \in Nat
      /\ \A i \in 1..Len(queue) : queue'[i] = queue[i]
      /\ queue'[last].type = type /\ queue'[last].number = nomis'.number
    BY <1>5, <1>6, MessageSent
<1>8. /\ DOMAIN queue \subseteq DOMAIN queue' /\ last \in DOMAIN queue'
      /\ \A i \in DOMAIN queue' : i = last \/ (i \in DOMAIN queue /\ queue'[i] = queue[i])
    <2>1. DOMAIN queue = 1..Len(queue) /\ DOMAIN queue' = 1..last /\ Len(queue) \in Nat
        BY <1>7
    <2>2. /\ DOMAIN queue \subseteq DOMAIN queue' /\ last \in DOMAIN queue'
          /\ \A i \in DOMAIN queue' : i = last \/ i \in DOMAIN queue
        BY <2>1
    <2>3. \A i \in DOMAIN queue : queue'[i] = queue[i]
        BY <1>7, <2>1
    <2> QED BY <2>2, <2>3
<1> HIDE DEF last
<1>9. EventTypeOK'
    BY <1>1, <1>4, <1>7 DEF EventTypeOK
<1>10. BeforeMerge'
    <2>1. nomis'.number = "removed" => nomis.number = "removed" /\ nomis'.below = nomis.below
        BY <1>4
    <2> QED BY <1>1, <1>7, <1>8, <2>1 DEF BeforeMerge
<1>11. AfterMerge'
    <2>1. merged => nomis.number = "survives"
        BY <1>3 DEF BeforeMerge, PrisonerNumbers
    <2>2. merged => nomis'.below = nomis.below
        BY <1>4, <2>1
    <2> QED BY <1>1, <2>2 DEF AfterMerge
<1>12. MergeTold'
    <2>1. type = "merged" => nomis'.number = "survives"
        BY <1>4
    <2>2. \A i \in DOMAIN queue' : queue'[i].type = "merged" => queue'[i].number = "survives"
        BY <1>7, <1>8, <2>1 DEF MergeTold
    <2>3. ASSUME nomis'.number = "survives", ~merged
          PROVE  \E i \in DOMAIN queue' : queue'[i].type = "merged"
        <3>1. CASE nomis.number = "survives"
            BY <1>7, <1>8, <2>3, <3>1 DEF MergeTold
        <3>2. CASE nomis.number # "survives"
            BY <1>4, <1>7, <1>8, <2>3, <3>2
        <3> QED BY <3>1, <3>2
    <2> QED BY <1>1, <2>2, <2>3 DEF MergeTold
<1>13. AssessmentsOfRows'
    <2> SUFFICES ASSUME ~BackToSecurity PROVE AssessmentsOfRows'
        BY DEF AssessmentsOfRows
    <2>1. CASE nomis'.below = nomis.below
        BY <1>1, <1>2, <1>4, <2>1 DEF AssessmentsOfRows
    <2>2. CASE nomis'.below = nomis.pending /\ nomis'.below # nomis.below
        <3>1. nomis.number = "removed" /\ nomis'.pending = nomis.pending
            BY <1>4, <2>2
        <3>2. lite.number = "removed"
            BY <3>1 DEF BeforeMerge
        <3>3. ASSUME "form" \in nomis.pending PROVE Current.number = "removed"
            <4>1. rows # <<>> /\ Len(rows) \in DOMAIN rows
                BY <3>3, RowFacts DEF AssessmentsOfRows, Status, Undefined
            <4> QED BY <3>1, <4>1 DEF BeforeMerge, Current
        <3> QED BY <1>1, <1>2, <2>2, <3>1, <3>2, <3>3 DEF AssessmentsOfRows
    <2> QED BY <1>4, <2>1, <2>2
<1> QED BY <1>2, <1>9, <1>10, <1>11, <1>12, <1>13 DEF RowsWorked
-----------------------------------------------------------------------------
(* What a handler leaves has the right types.                              *)
TablesOK ==
    /\ rows' \in Seq(Row) /\ Len(rows') <= MaxRows
    /\ lite' \in [unapproved : BOOLEAN, number : PrisonerNumbers, prison : Prisons]
    /\ referral' \in [PrisonerNumbers -> Referral]
    /\ risk' \subseteq [number : PrisonerNumbers, prison : Prisons]
    /\ nomis' \in [ number : PrisonerNumbers, prison : Prisons, inside : BOOLEAN,
                    pending : SUBSET {"form", "lite"}, below : SUBSET {"form", "lite"} ]
    /\ merged' \in BOOLEAN

(* A movement and a release change no number.                              *)
NumbersKept ==
    /\ nomis'.number = nomis.number /\ nomis'.below \subseteq nomis.below /\ merged' = merged
    /\ \A s \in DOMAIN rows' : s \in DOMAIN rows /\ rows'[s].number = rows[s].number
    /\ lite'.number = lite.number
    /\ \A c \in risk' : \E d \in risk : c.number = d.number
    /\ \A n \in PrisonerNumbers : Exists(referral'[n]) = Exists(referral[n])

(* A movement changes the prison of the current row and of no other. *)
LEMMA RowMoved ==
    ASSUME EventTypeOK, OnlyCurrent, NEW prison \in Prisons, rows # <<>>,
           rows' = [rows EXCEPT ![Len(rows)].prison = prison]
    PROVE  /\ rows' \in Seq(Row) /\ Len(rows') = Len(rows)
           /\ OnlyCurrent'
           /\ \A s \in DOMAIN rows' : s \in DOMAIN rows /\ rows'[s].number = rows[s].number
           /\ Status' = Status /\ Current'.number = Current.number /\ Current'.prison = prison
<1> DEFINE row == [rows[Len(rows)] EXCEPT !.prison = prison]
<1>1. /\ Len(rows) \in Nat /\ DOMAIN rows = 1..Len(rows) /\ rows \in Seq(Row)
      /\ \A s \in 1..Len(rows) : rows[s] \in Row
      /\ Len(rows) \in 1..Len(rows) /\ Status = Current.status
    BY RowFacts DEF EventTypeOK
<1>2. /\ row \in Row /\ row.status = Current.status
      /\ row.number = Current.number /\ row.prison = prison
    BY <1>1 DEF Current, Row
<1> HIDE DEF row
<1>3. rows' = [rows EXCEPT ![Len(rows)] = row]
    BY DEF row
<1>4. /\ rows' \in Seq(Row) /\ Len(rows') = Len(rows) /\ rows'[Len(rows)] = row
      /\ \A s \in 1..Len(rows) : s # Len(rows) => rows'[s] = rows[s]
    BY <1>1, <1>2, <1>3, LastChanged
<1>5. DOMAIN rows' = 1..Len(rows) /\ rows' # <<>>
    BY <1>1, <1>4, LenProperties, EmptySeq
<1>6. Current' = row
    BY <1>4 DEF Current
<1>7. Status' = Status
    BY <1>1, <1>2, <1>5, <1>6 DEF Status
<1>8. OnlyCurrent'
    BY <1>1, <1>4, <1>5 DEF OnlyCurrent
<1>9. \A s \in DOMAIN rows' : s \in DOMAIN rows /\ rows'[s].number = rows[s].number
    BY <1>1, <1>2, <1>4, <1>5 DEF Current
<1> QED BY <1>2, <1>4, <1>6, <1>7, <1>8, <1>9

(* A merge puts every row under the surviving number and moves no status. *)
LEMMA RowsRenumbered ==
    ASSUME EventTypeOK, OnlyCurrent,
           rows' = [i \in DOMAIN rows |-> [rows[i] EXCEPT !.number = "survives"]]
    PROVE  /\ rows' \in Seq(Row) /\ Len(rows') = Len(rows)
           /\ OnlyCurrent'
           /\ \A s \in DOMAIN rows' : rows'[s].number = "survives"
           /\ Status' = Status
           /\ rows # <<>> => Current'.number = "survives" /\ Current'.prison = Current.prison
<1>1. /\ Len(rows) \in Nat /\ DOMAIN rows = 1..Len(rows)
      /\ \A s \in 1..Len(rows) : rows[s] \in Row
      /\ rows # <<>> => Len(rows) \in 1..Len(rows) /\ Status = Current.status
      /\ Len(rows) = 0 <=> rows = <<>>
    BY RowFacts
<1>2. \A s \in 1..Len(rows) : /\ rows'[s] \in Row /\ rows'[s].number = "survives"
                              /\ rows'[s].status = rows[s].status
                              /\ rows'[s].prison = rows[s].prison
    BY <1>1 DEF Row, PrisonerNumbers
<1>3. rows' \in [1..Len(rows) -> Row]
    BY <1>1, <1>2
<1>4. rows' \in Seq(Row) /\ Len(rows') = Len(rows) /\ DOMAIN rows' = 1..Len(rows)
    BY <1>1, <1>3, RestIsSeq
<1>5. rows' = <<>> <=> rows = <<>>
    BY <1>1, <1>4, EmptySeq
<1>6. rows # <<>> => /\ Current'.number = "survives" /\ Current'.prison = Current.prison
                     /\ Current'.status = Current.status
    BY <1>1, <1>2, <1>4 DEF Current
<1>7. Status' = Status
    BY <1>1, <1>5, <1>6 DEF Status
<1>8. OnlyCurrent'
    BY <1>1, <1>2, <1>4 DEF OnlyCurrent
<1> QED BY <1>2, <1>4, <1>6, <1>7, <1>8

(* What the movement handler leaves of the four tables. *)
LEMMA MovedKeeps ==
    ASSUME MergeInv, NEW m \in Message, HandleMoved(m)
    PROVE  /\ TablesOK /\ OnlyCurrent' /\ AssessmentsOfRows' /\ NumbersKept
           /\ Status' = Status
           /\ Status \in InProgress => Current'.prison = m.prison /\ Current'.number = Current.number
           /\ lite'.unapproved = lite.unapproved /\ (lite.unapproved => lite'.prison = m.prison)
<1> USE DEF MergeInv
<1>1. m.number \in PrisonerNumbers /\ m.prison \in Prisons
    BY DEF Message
<1>2. nomis' = nomis /\ merged' = merged
    BY DEF HandleMoved
<1>3. /\ rows' \in Seq(Row) /\ Len(rows') <= MaxRows
      /\ OnlyCurrent'
      /\ \A s \in DOMAIN rows' : s \in DOMAIN rows /\ rows'[s].number = rows[s].number
      /\ Status' = Status /\ Current'.number = Current.number
      /\ Status \in InProgress => Current'.prison = m.prison
    <2>1. CASE Status \in InProgress
        <3>1. rows # <<>>
            BY <2>1, RowFacts
        <3>2. rows' = [rows EXCEPT ![Len(rows)].prison = m.prison]
            BY <2>1 DEF HandleMoved, MoveForm
        <3>3. /\ rows' \in Seq(Row) /\ Len(rows') = Len(rows)
              /\ OnlyCurrent'
              /\ \A s \in DOMAIN rows' : s \in DOMAIN rows /\ rows'[s].number = rows[s].number
              /\ Status' = Status /\ Current'.number = Current.number /\ Current'.prison = m.prison
            BY <1>1, <3>1, <3>2, RowMoved
        <3> QED BY <3>3 DEF EventTypeOK
    <2>2. CASE Status \notin InProgress
        <3>1. rows' = rows
            BY <2>2 DEF HandleMoved, MoveForm
        <3>2. RowsWorked /\ Status' = Status /\ Current' = Current
            BY <3>1, RowsSame
        <3> QED BY <2>2, <3>1, <3>2 DEF RowsWorked
    <2> QED BY <2>1, <2>2
<1>4. /\ lite' \in [unapproved : BOOLEAN, number : PrisonerNumbers, prison : Prisons]
      /\ lite'.number = lite.number /\ lite'.unapproved = lite.unapproved
      /\ lite.unapproved => lite'.prison = m.prison
    <2>1. lite \in [unapproved : BOOLEAN, number : PrisonerNumbers, prison : Prisons]
        BY DEF EventTypeOK
    <2>2. lite' = IF lite.unapproved THEN [lite EXCEPT !.prison = m.prison] ELSE lite
        BY DEF HandleMoved, MoveForm
    <2> QED BY <1>1, <2>1, <2>2
<1>5. /\ risk' \subseteq [number : PrisonerNumbers, prison : Prisons]
      /\ \A c \in risk' : \E d \in risk : c.number = d.number
    <2>1. risk' = {IF c.number = m.number THEN [c EXCEPT !.prison = m.prison] ELSE c : c \in risk}
        BY DEF HandleMoved
    <2>2. risk \subseteq [number : PrisonerNumbers, prison : Prisons]
        BY DEF EventTypeOK
    <2> QED BY <1>1, <2>1, <2>2
<1>6. /\ referral' \in [PrisonerNumbers -> Referral]
      /\ \A n \in PrisonerNumbers : Exists(referral'[n]) = Exists(referral[n])
    <2> DEFINE p == IF referral[m.number].status = "NEW" THEN m.prison ELSE referral[m.number].prison
               r == [referral[m.number] EXCEPT !.prison = p]
    <2>1. referral \in [PrisonerNumbers -> Referral] /\ referral[m.number] \in Referral
        BY <1>1 DEF EventTypeOK
    <2>2. p \in Prisons
        BY <1>1, <2>1 DEF Referral
    <2>3. referral' = [referral EXCEPT ![m.number].prison = p]
        BY <1>1, <2>1 DEF HandleMoved
    <2> HIDE DEF p
    <2>4. r \in Referral /\ r.status = referral[m.number].status
        BY <2>1, <2>2 DEF Referral
    <2>5. referral' = [referral EXCEPT ![m.number] = r]
        BY <2>3
    <2> HIDE DEF r
    <2> QED BY <1>1, <2>1, <2>4, <2>5 DEF Exists
<1>7. AssessmentsOfRows'
    BY <1>2, <1>3, <1>4 DEF AssessmentsOfRows
<1>8. TablesOK
    BY <1>2, <1>3, <1>4, <1>5, <1>6 DEF TablesOK, EventTypeOK
<1> QED BY <1>2, <1>3, <1>4, <1>5, <1>6, <1>7, <1>8 DEF NumbersKept

(* What deleting a message does, or failing to.                            *)
LEMMA QueueHandled ==
    ASSUME EventTypeOK, NEW i \in DOMAIN queue, queue' = Deleted(i) \/ queue' = queue
    PROVE  /\ queue' \in Seq(Message) /\ Len(queue') <= happened
           /\ \A j \in DOMAIN queue' : \E k \in DOMAIN queue : queue'[j] = queue[k]
           /\ \A k \in DOMAIN queue \ {i} : \E j \in DOMAIN queue' : queue'[j] = queue[k]
<1>1. CASE queue' = queue
    BY <1>1 DEF EventTypeOK
<1>2. CASE queue' = Deleted(i)
    <2>1. /\ Len(queue) \in Nat \ {0} /\ DOMAIN queue = 1..Len(queue)
          /\ queue' \in Seq(Message) /\ Len(queue') = Len(queue) - 1
          /\ DOMAIN queue' = 1..Len(queue) - 1
        BY <1>2, QueueDeleted DEF EventTypeOK
    <2>2. \A j \in 1..Len(queue) - 1 : queue'[j] = queue[IF j < i THEN j ELSE j + 1]
        BY <1>2, QueueDeleted DEF EventTypeOK
    <2>3. ASSUME NEW j \in DOMAIN queue' PROVE \E k \in DOMAIN queue : queue'[j] = queue[k]
        <3>1. (IF j < i THEN j ELSE j + 1) \in DOMAIN queue /\ j \in 1..Len(queue) - 1
            BY <2>1, <2>3
        <3> QED BY <2>2, <3>1
    <2>4. ASSUME NEW k \in DOMAIN queue, k # i PROVE \E j \in DOMAIN queue' : queue'[j] = queue[k]
        <3> DEFINE j == IF k < i THEN k ELSE k - 1
        <3>1. /\ j \in DOMAIN queue' /\ j \in 1..Len(queue) - 1
              /\ (IF j < i THEN j ELSE j + 1) = k
            BY <2>1, <2>4
        <3> HIDE DEF j
        <3>2. queue'[j] = queue[k]
            BY <2>2, <3>1
        <3> QED BY <3>1, <3>2
    <2>5. Len(queue') <= happened
        <3>1. Len(queue) <= happened /\ happened \in 0..MaxEvents
            BY DEF EventTypeOK
        <3> QED BY <2>1, <3>1, BoundsAssumption
    <2> QED BY <2>1, <2>3, <2>4, <2>5
<1> QED BY <1>1, <1>2

(* What the release handler leaves: nothing under way for the number it was told of. *)
LEMMA ReleasedKeeps ==
    ASSUME MergeInv, NEW m \in Message, HandleReleased(m)
    PROVE  /\ TablesOK /\ OnlyCurrent' /\ AssessmentsOfRows' /\ NumbersKept
           /\ nomis'.prison = nomis.prison /\ nomis'.inside = nomis.inside
           /\ risk' = risk
           /\ Status' \in InProgress => /\ Status \in InProgress /\ Current' = Current
                                        /\ Current.number # m.number
           /\ lite' = lite \/ ~lite'.unapproved
           /\ lite'.unapproved => lite.number # m.number
<1> USE DEF MergeInv
<1> DEFINE pending == {s \in DOMAIN rows : PendingFor(rows[s], m.number)}
           liteGoes == lite.number = m.number /\ lite.unapproved
           gone == (IF Len(rows) \in pending THEN {"form"} ELSE {})
                   \cup (IF liteGoes THEN {"lite"} ELSE {})
<1>1. /\ rows' = Without(pending)
      /\ lite' = IF liteGoes THEN [lite EXCEPT !.unapproved = FALSE] ELSE lite
      /\ nomis' = [nomis EXCEPT !.pending = nomis.pending \ gone, !.below = nomis.below \ gone]
      /\ referral' = referral /\ risk' = risk /\ merged' = merged
    BY DEF HandleReleased, EventTypeOK
<1>2. /\ rows \in Seq(Row) /\ Len(rows) \in Nat /\ DOMAIN rows = 1..Len(rows)
      /\ rows # <<>> => Len(rows) \in 1..Len(rows) /\ Status = Current.status
      /\ Len(rows) = 0 <=> rows = <<>>
    BY RowFacts DEF EventTypeOK
<1>3. \A s \in pending : s = Len(rows)
    BY DEF OnlyCurrent, PendingFor, InProgress
<1>4. Len(rows) \in pending => /\ rows # <<>> /\ pending = {Len(rows)}
                               /\ Current.number = m.number /\ Status \in InProgress
    <2>1. Len(rows) \in pending => Len(rows) \in DOMAIN rows /\ PendingFor(Current, m.number)
        BY DEF Current
    <2> HIDE DEF pending
    <2> QED BY <1>2, <1>3, <2>1 DEF PendingFor
<1>5. ASSUME Len(rows) \notin pending, Status \in InProgress PROVE Current.number # m.number
    <2>1. Len(rows) \in DOMAIN rows /\ Current.status \in InProgress
        BY <1>2, <1>5, RowFacts
    <2> QED BY <1>5, <2>1 DEF Current, PendingFor
<1>6. liteGoes \/ "lite" \notin gone
    OBVIOUS
<1>7. /\ Len(rows) \in pending => "form" \in gone
      /\ Len(rows) \notin pending => "form" \notin gone
      /\ liteGoes => "lite" \in gone
      /\ gone \in SUBSET {"form", "lite"}
    BY SMT
<1>8. liteGoes <=> lite.number = m.number /\ lite.unapproved
    OBVIOUS
<1> HIDE DEF pending, gone, liteGoes
<1>9. pending = {} \/ (rows # <<>> /\ pending = {Len(rows)})
    BY <1>3, <1>4
<1>10. /\ rows' \in Seq(Row)
       /\ Len(rows') = IF pending = {} THEN Len(rows) ELSE Len(rows) - 1
       /\ \A s \in 1..Len(rows') : rows'[s] = rows[s]
    BY <1>1, <1>2, <1>9, RowsWithout
<1>11. /\ RowsWorked
       /\ Len(rows) \notin pending => rows' = rows /\ Status' = Status /\ Current' = Current
       /\ Len(rows) \in pending => Status' \notin InProgress
    <2>1. CASE pending = {}
        <3>1. rows' = rows
            BY <1>2, <1>10, <2>1, SeqEqual
        <3> QED BY <2>1, <3>1, RowsSame
    <2>2. CASE pending = {Len(rows)} /\ rows # <<>>
        BY <1>1, <2>2, RowDropped
    <2> QED BY <1>9, <2>1, <2>2
<1>12. \A s \in DOMAIN rows' : s \in DOMAIN rows /\ rows'[s].number = rows[s].number
    <2>1. DOMAIN rows' = 1..Len(rows')
        BY <1>10, LenProperties
    <2>2. Len(rows') \in {Len(rows), Len(rows) - 1} /\ Len(rows) \in Nat
        BY <1>2, <1>10
    <2>3. \A s \in 1..Len(rows') : s \in 1..Len(rows)
        BY <2>2
    <2> QED BY <1>2, <1>10, <2>1, <2>3
<1>13. /\ lite' \in [unapproved : BOOLEAN, number : PrisonerNumbers, prison : Prisons]
       /\ lite'.number = lite.number
       /\ liteGoes => ~lite'.unapproved
       /\ ~liteGoes => lite' = lite
    BY <1>1 DEF EventTypeOK
<1>14. /\ nomis' \in [ number : PrisonerNumbers, prison : Prisons, inside : BOOLEAN,
                       pending : SUBSET {"form", "lite"}, below : SUBSET {"form", "lite"} ]
       /\ nomis'.number = nomis.number /\ nomis'.prison = nomis.prison
       /\ nomis'.inside = nomis.inside
       /\ nomis'.pending = nomis.pending \ gone /\ nomis'.below = nomis.below \ gone
    <2>1. /\ nomis.pending \ gone \in SUBSET {"form", "lite"}
          /\ nomis.below \ gone \in SUBSET {"form", "lite"}
        BY DEF EventTypeOK
    <2> QED BY <1>1, <2>1, NomisChanged
<1>15. AssessmentsOfRows'
    <2> SUFFICES ASSUME ~BackToSecurity PROVE AssessmentsOfRows'
        BY DEF AssessmentsOfRows
    <2>1. nomis'.below \subseteq nomis'.pending
        BY <1>14 DEF AssessmentsOfRows
    <2>2. "form" \in nomis'.pending => /\ "form" \in nomis.pending /\ Status' = Status
                                       /\ Current' = Current
        BY <1>7, <1>11, <1>14
    <2>3. "form" \in nomis'.below => "form" \in nomis.below /\ "form" \in nomis'.pending
        BY <1>14, <2>1
    <2>4. "lite" \in nomis'.pending => "lite" \in nomis.pending /\ lite' = lite
        BY <1>7, <1>13, <1>14
    <2>5. "lite" \in nomis'.below => "lite" \in nomis.below /\ lite' = lite
        BY <1>7, <1>13, <1>14
    <2> QED BY <2>1, <2>2, <2>3, <2>4, <2>5 DEF AssessmentsOfRows
<1>16. TablesOK
    BY <1>1, <1>11, <1>13, <1>14 DEF TablesOK, RowsWorked, EventTypeOK
<1>17. NumbersKept
    <2>1. nomis'.below \subseteq nomis.below
        BY <1>14
    <2>2. \A n \in PrisonerNumbers : Exists(referral'[n]) = Exists(referral[n])
        BY <1>1
    <2>3. \A c \in risk' : \E d \in risk : c.number = d.number
        BY <1>1
    <2> QED BY <1>1, <1>12, <1>13, <1>14, <2>1, <2>2, <2>3 DEF NumbersKept
<1>18. Status' \in InProgress => /\ Status \in InProgress /\ Current' = Current
                                 /\ Current.number # m.number
    BY <1>5, <1>11
<1>19. lite'.unapproved => lite.number # m.number
    BY <1>8, <1>13
<1> QED BY <1>1, <1>11, <1>13, <1>14, <1>15, <1>16, <1>17, <1>18, <1>19 DEF RowsWorked

(* What the merge handler leaves: every table under the surviving number. *)
LEMMA MergedKeeps ==
    ASSUME MergeInv, NEW m \in Message, HandleMerged(m), nomis.number = "survives"
    PROVE  /\ TablesOK /\ OnlyCurrent' /\ AssessmentsOfRows' /\ AfterMerge' /\ merged'
           /\ nomis'.number = nomis.number /\ nomis'.prison = nomis.prison
           /\ nomis'.inside = nomis.inside
           /\ \A c \in risk' : \E d \in risk : c.prison = d.prison
           /\ Status' = Status /\ (Status \in InProgress => Current'.prison = Current.prison)
           /\ lite'.unapproved = lite.unapproved /\ lite'.prison = lite.prison
<1> USE DEF MergeInv
<1>1. /\ rows' = [i \in DOMAIN rows |-> [rows[i] EXCEPT !.number = "survives"]]
      /\ lite' = [lite EXCEPT !.number = "survives"]
      /\ risk' = {[c EXCEPT !.number = "survives"] : c \in risk}
      /\ nomis' = IF Restored THEN [nomis EXCEPT !.below = {}] ELSE nomis
      /\ merged' = TRUE
    BY DEF HandleMerged, Renumber
<1>2. {"removed", "survives"} = PrisonerNumbers
    BY DEF PrisonerNumbers
<1>3. /\ rows' \in Seq(Row) /\ Len(rows') = Len(rows)
      /\ OnlyCurrent'
      /\ \A s \in DOMAIN rows' : rows'[s].number = "survives"
      /\ Status' = Status
      /\ rows # <<>> => Current'.number = "survives" /\ Current'.prison = Current.prison
    BY <1>1, RowsRenumbered
<1>4. /\ lite' \in [unapproved : BOOLEAN, number : PrisonerNumbers, prison : Prisons]
      /\ lite'.number = "survives" /\ lite'.unapproved = lite.unapproved
      /\ lite'.prison = lite.prison
    BY <1>1, <1>2 DEF EventTypeOK
<1>5. /\ risk' \subseteq [number : PrisonerNumbers, prison : Prisons]
      /\ \A c \in risk' : c.number = "survives" /\ \E d \in risk : c.prison = d.prison
    BY <1>1, <1>2 DEF EventTypeOK
<1>6. /\ nomis' \in [ number : PrisonerNumbers, prison : Prisons, inside : BOOLEAN,
                      pending : SUBSET {"form", "lite"}, below : SUBSET {"form", "lite"} ]
      /\ nomis'.number = nomis.number /\ nomis'.prison = nomis.prison
      /\ nomis'.inside = nomis.inside
      /\ nomis'.pending = nomis.pending
      /\ nomis'.below = IF Restored THEN {} ELSE nomis.below
    <2>1. CASE Restored
        BY <1>1, <2>1 DEF EventTypeOK
    <2>2. CASE ~Restored
        BY <1>1, <2>2 DEF EventTypeOK
    <2> QED BY <2>1, <2>2
<1>7. /\ referral' \in [PrisonerNumbers -> Referral]
      /\ Exists(referral'["removed"]) => Exists(referral'["survives"])
    <2>1. CASE RemovedReplaces
        <3> DEFINE r == [referral["removed"] EXCEPT !.status = "NONE"]
        <3>1. referral \in [PrisonerNumbers -> Referral] /\ referral["removed"] \in Referral
            BY <1>2 DEF EventTypeOK
        <3>2. r \in Referral /\ ~Exists(r)
            BY <3>1 DEF Referral, Exists
        <3>3. referral' = [referral EXCEPT !["survives"] = referral["removed"], !["removed"] = r]
            BY <1>2, <2>1, <3>1 DEF HandleMerged
        <3> HIDE DEF r
        <3>4. referral'["removed"] = r /\ referral' \in [PrisonerNumbers -> Referral]
            BY <1>2, <3>1, <3>2, <3>3
        <3> QED BY <3>2, <3>4
    <2>2. CASE ~RemovedReplaces
        <3>1. referral' = referral
            BY <2>2 DEF HandleMerged
        <3> QED BY <2>2, <3>1 DEF RemovedReplaces, EventTypeOK
    <2> QED BY <2>1, <2>2
<1>8. ASSUME ~BackToSecurity PROVE nomis'.below = {}
    <2>1. CASE Restored
        BY <1>6, <2>1
    <2>2. CASE ~Restored
        <3>1. "form" \notin nomis.below
            <4> SUFFICES ASSUME "form" \in nomis.below PROVE Restored
                BY <2>2
            <4>1. Status \in {"AWAITING_APPROVAL", "SUPERVISOR_BACK"} /\ Current.number = "removed"
                BY <1>8 DEF AssessmentsOfRows
            <4>2. Len(rows) \in DOMAIN rows
                BY <4>1, RowFacts DEF Status, Undefined
            <4> QED BY <4>1, <4>2 DEF Restored, Current
        <3>2. "lite" \notin nomis.below
            BY <1>8, <2>2 DEF AssessmentsOfRows, Restored
        <3>3. nomis.below \subseteq {"form", "lite"}
            BY DEF EventTypeOK
        <3> QED BY <1>6, <2>2, <3>1, <3>2, <3>3
    <2> QED BY <2>1, <2>2
<1>9. AssessmentsOfRows'
    BY <1>3, <1>4, <1>6, <1>8 DEF AssessmentsOfRows
<1>10. AfterMerge'
    BY <1>1, <1>3, <1>4, <1>5, <1>7, <1>8 DEF AfterMerge
<1>11. TablesOK
    BY <1>1, <1>3, <1>4, <1>5, <1>6, <1>7 DEF TablesOK, EventTypeOK
<1>12. Status \in InProgress => rows # <<>>
    BY RowFacts
<1> QED BY <1>1, <1>3, <1>4, <1>5, <1>6, <1>9, <1>10, <1>11, <1>12

(* What handling a message does, told again or in order.                   *)
LEMMA HandleKeepsMerge ==
    ASSUME MergeInv, Handle, again' = again
    PROVE  MergeInv'
<1> USE DEF MergeInv
<1>1. PICK i \in DOMAIN queue :
        /\ HandleMoved(queue[i]) \/ HandleMerged(queue[i]) \/ HandleReleased(queue[i])
        /\ queue' = Deleted(i) \/ queue' = queue
        /\ happened' = happened
    BY DEF Handle
<1> DEFINE m == queue[i]
<1>2. m \in Message
    BY <1>1, LenProperties, ElementOfSeq DEF EventTypeOK
<1>3. /\ queue' \in Seq(Message) /\ Len(queue') <= happened'
      /\ \A j \in DOMAIN queue' : \E k \in DOMAIN queue : queue'[j] = queue[k]
      /\ \A k \in DOMAIN queue \ {i} : \E j \in DOMAIN queue' : queue'[j] = queue[k]
    BY <1>1, QueueHandled
<1>4. TablesOK => EventTypeOK'
    BY <1>1, <1>3 DEF TablesOK, EventTypeOK
<1>5. \A j \in DOMAIN queue' : queue'[j].type = "merged" => queue'[j].number = "survives"
    BY <1>3 DEF MergeTold
<1>6. CASE HandleMoved(m) \/ HandleReleased(m)
    <2>1. TablesOK /\ OnlyCurrent' /\ AssessmentsOfRows' /\ NumbersKept
        BY <1>2, <1>6, MovedKeeps, ReleasedKeeps
    <2>2. m.type # "merged"
        BY <1>6 DEF HandleMoved, HandleReleased
    <2>3. BeforeMerge'
        <3>1. nomis.number = "removed" => nomis'.below = {}
            BY <2>1 DEF NumbersKept, BeforeMerge
        <3>2. nomis.number = "removed" => \A j \in DOMAIN queue' : queue'[j].number = "removed"
            BY <1>3 DEF BeforeMerge
        <3> QED BY <2>1, <3>1, <3>2 DEF NumbersKept, BeforeMerge
    <2>4. AfterMerge'
        <3>1. Exists(referral'["removed"]) = Exists(referral["removed"])
              /\ Exists(referral'["survives"]) = Exists(referral["survives"])
            BY <2>1 DEF NumbersKept, PrisonerNumbers
        <3>2. merged /\ ~BackToSecurity => nomis'.below = {}
            BY <2>1 DEF NumbersKept, AfterMerge
        <3> QED BY <2>1, <3>1, <3>2 DEF NumbersKept, AfterMerge
    <2>5. MergeTold'
        <3>1. ASSUME NEW k \in DOMAIN queue, queue[k].type = "merged"
              PROVE  \E j \in DOMAIN queue' : queue'[j].type = "merged"
            <4>1. k # i
                BY <2>2, <3>1
            <4> QED BY <1>3, <3>1, <4>1
        <3> QED BY <1>5, <2>1, <3>1 DEF NumbersKept, MergeTold
    <2> QED BY <1>4, <2>1, <2>3, <2>4, <2>5
<1>7. CASE HandleMerged(m)
    <2>1. m.type = "merged" /\ m.number = "survives"
        BY <1>7 DEF HandleMerged, MergeTold
    <2>2. nomis.number = "survives"
        BY <2>1 DEF BeforeMerge, EventTypeOK, PrisonerNumbers
    <2>3. /\ TablesOK /\ OnlyCurrent' /\ AssessmentsOfRows' /\ AfterMerge' /\ merged'
          /\ nomis'.number = nomis.number
        BY <1>2, <1>7, <2>2, MergedKeeps
    <2>4. BeforeMerge'
        BY <2>2, <2>3 DEF BeforeMerge
    <2>5. MergeTold'
        BY <1>5, <2>3 DEF MergeTold
    <2> QED BY <1>4, <2>3, <2>4, <2>5
<1> QED BY <1>1, <1>6, <1>7

(* Every step keeps the invariant.                                         *)
LEMMA MergeStep == MergeInv /\ [EventNext]_eventVars => MergeInv'
<1> SUFFICES ASSUME MergeInv, [EventNext]_eventVars PROVE MergeInv'
    OBVIOUS
<1>1. CASE RiskRaised \/ ReferredBefore \/ Refer \/ Open \/ TakeUp \/ Advance \/ Approve
           \/ Cancel \/ OpenLite \/ ApproveLite
    <2>1. CASE again' = again
        BY <1>1, <2>1, SecurityWorks, TasklistWorks, FormWorks, LiteWorks, WorkKeepsMerge
    <2>2. again' = again
        BY DEF EventNext, eventVars
    <2> QED BY <2>1, <2>2
<1>2. CASE Admitted \/ Released \/ Merged
    BY <1>2, EventKeepsMerge DEF EventNext, eventVars
<1>3. CASE Handle
    BY <1>3, HandleKeepsMerge DEF EventNext, eventVars
<1>4. CASE UNCHANGED eventVars
    <2>1. /\ rows' = rows /\ lite' = lite /\ referral' = referral /\ risk' = risk
          /\ nomis' = nomis /\ queue' = queue /\ happened' = happened
          /\ merged' = merged /\ again' = again
        BY <1>4 DEF eventVars
    <2>2. RowsWorked /\ Status' = Status /\ Current' = Current
        BY <2>1, RowsSame DEF MergeInv
    <2>3. EventTypeOK' /\ BeforeMerge' /\ AfterMerge' /\ MergeTold' /\ AssessmentsOfRows'
        BY <2>1, <2>2 DEF MergeInv, EventTypeOK, BeforeMerge, AfterMerge, MergeTold, AssessmentsOfRows
    <2> QED BY <2>2, <2>3 DEF MergeInv, RowsWorked
<1> QED BY <1>1, <1>2, <1>3, <1>4 DEF EventNext

(* Types.                                                                  *)
THEOREM EventTypes == EventSpec => []EventTypeOK
<1>1. MergeInv => EventTypeOK
    BY DEF MergeInv
<1> QED BY <1>1, MergeInitially, MergeStep, PTL DEF EventSpec

(* Whatever is told, in whatever order and however often, a merge that has *)
(* been told leaves nothing behind.                                        *)
THEOREM MergeLeavesNothing == EventSpec => []MergeWhole
<1>1. MergeInv => MergeWhole
    <2> SUFFICES ASSUME MergeInv PROVE MergeWhole
        OBVIOUS
    <2> USE DEF MergeInv
    <2>1. nomis.number \in {"removed", "survives"}
        BY DEF EventTypeOK, PrisonerNumbers
    <2>2. Told /\ nomis.number = "survives" => merged
        BY EmptySeq, LenProperties DEF Told, MergeTold, EventTypeOK
    <2>3. NoneLeftBehind
        BY <2>2 DEF NoneLeftBehind, AfterMerge
    <2>4. ~BackToSecurity => PendingOnTop
        BY <2>1, <2>2 DEF PendingOnTop, AfterMerge, BeforeMerge
    <2> QED BY <2>3, <2>4 DEF MergeWhole
<1> QED BY <1>1, MergeInitially, MergeStep, PTL DEF EventSpec
-----------------------------------------------------------------------------
(* Messages told once and in order.  Those about the removed number come   *)
(* first, then the merge, then those about the surviving one.              *)
Ordered == ~again =>
    /\ \A i, j \in DOMAIN queue :
          i < j /\ queue[i].number = "survives" => queue[j].number = "survives"
    /\ merged => \A i \in DOMAIN queue : queue[i].number = "survives"
    /\ ~merged => \A i \in DOMAIN queue : queue[i].number = "survives" =>
                      \E j \in DOMAIN queue : j <= i /\ queue[j].type = "merged"

Moves(i) == queue[i].type = "moved"

(* The last movement to be told is to where the prisoner is; when there is *)
(* none, everything is there already.  A movement under the removed number *)
(* leaves the surviving one's risk changes where they are.                 *)
Follows == ~again =>
    /\ \A i \in DOMAIN queue :
          Moves(i) /\ (\A j \in DOMAIN queue : i < j => ~Moves(j)) => queue[i].prison = nomis.prison
    /\ (\A i \in DOMAIN queue : ~Moves(i)) =>
          /\ Status \in InProgress => Current.prison = nomis.prison
          /\ lite.unapproved => lite.prison = nomis.prison
          /\ \A c \in risk : c.prison = nomis.prison
    /\ (\A i \in DOMAIN queue : Moves(i) => queue[i].number = "removed") =>
          \A c \in risk : c.number = "survives" => c.prison = nomis.prison

(* A release to be told deletes a row of a number: the surviving one's is  *)
(* told after the merge.                                                   *)
Deletes(i, number) ==
    queue[i].type = "released" /\ (queue[i].number = "survives" \/ number = "removed")

(* What is under way for a prisoner who is outside is still to be deleted. *)
Leaves == ~again /\ ~nomis.inside =>
    /\ Status \in InProgress => \E i \in DOMAIN queue : Deletes(i, Current.number)
    /\ lite.unapproved => \E i \in DOMAIN queue : Deletes(i, lite.number)

EventInv == MergeInv /\ Ordered /\ Follows /\ Leaves

(* The invariant holds before anything happens: the queue is empty and the prisoner is inside. *)
LEMMA EventInitially == EventInit => EventInv
<1> SUFFICES ASSUME EventInit PROVE EventInv
    OBVIOUS
<1>1. MergeInv
    BY MergeInitially
<1>2. queue = <<>> /\ rows = <<>> /\ risk = {} /\ ~lite.unapproved /\ nomis.inside
    BY DEF EventInit
<1>3. DOMAIN queue = {} /\ Status \notin InProgress
    BY <1>2, EmptySeq, LenProperties DEF Status, Undefined, InProgress
<1>4. Ordered /\ Leaves
    BY <1>2, <1>3 DEF Ordered, Leaves
<1>5. Follows
    BY <1>2, <1>3 DEF Follows
<1> QED BY <1>1, <1>4, <1>5 DEF EventInv

(* The steps of users happen where the prisoner is.                        *)
LEMMA WorkFollows ==
    ASSUME EventInv, Worked, again' = again
    PROVE  Ordered' /\ Follows' /\ Leaves'
<1> USE DEF EventInv
<1>1. /\ queue' = queue /\ merged' = merged /\ DOMAIN queue' = DOMAIN queue
      /\ nomis'.prison = nomis.prison /\ nomis'.inside = nomis.inside
    BY DEF Worked
<1>2. Ordered'
    BY <1>1 DEF Ordered
<1>3. Follows'
    <2> SUFFICES ASSUME ~again PROVE Follows'
        BY DEF Follows
    <2>1. \A i : Moves(i)' <=> Moves(i)
        BY <1>1 DEF Moves
    <2>2. ASSUME \A i \in DOMAIN queue : ~Moves(i)
          PROVE  /\ Status' \in InProgress => Current'.prison = nomis.prison
                 /\ lite'.unapproved => lite'.prison = nomis.prison
                 /\ \A c \in risk' : c.prison = nomis.prison
        BY <2>2 DEF Follows, Worked, RowsWorked
    <2>3. ASSUME \A i \in DOMAIN queue : Moves(i) => queue[i].number = "removed"
          PROVE  \A c \in risk' : c.number = "survives" => c.prison = nomis.prison
        BY <2>3 DEF Follows, Worked
    <2> QED BY <1>1, <2>1, <2>2, <2>3 DEF Follows
<1>4. Leaves'
    <2> SUFFICES ASSUME ~again, ~nomis.inside PROVE Leaves'
        BY <1>1 DEF Leaves
    <2>1. rows' = rows /\ lite' = lite
        BY DEF Worked
    <2>2. Status' = Status /\ Current' = Current
        BY <2>1 DEF Status, Current
    <2> QED BY <1>1, <2>1, <2>2 DEF Leaves, Deletes
<1> QED BY <1>2, <1>3, <1>4

(* A message that is sent comes after the others.                          *)
LEMMA QueueGrows ==
    ASSUME EventTypeOK, NEW type \in {"moved", "released", "merged"},
           NEW number \in PrisonerNumbers, NEW prison \in Prisons,
           Send(type, number, prison)
    PROVE  \E last \in DOMAIN queue' :
              /\ queue'[last].type = type /\ queue'[last].number = number
              /\ queue'[last].prison = prison
              /\ \A i \in DOMAIN queue : i \in DOMAIN queue' /\ queue'[i] = queue[i] /\ i < last
              /\ \A i \in DOMAIN queue' : i = last \/ i \in DOMAIN queue
              /\ last \in Int /\ DOMAIN queue \subseteq Int
<1> DEFINE last == Len(queue) + 1
<1>1. /\ Len(queue) \in Nat
      /\ DOMAIN queue = 1..Len(queue) /\ DOMAIN queue' = 1..last
      /\ \A i \in 1..Len(queue) : queue'[i] = queue[i]
      /\ queue'[last].type = type
      /\ queue'[last].number = number
      /\ queue'[last].prison = prison
    BY MessageSent
<1>2. Len(queue) \in Nat /\ DOMAIN queue = 1..Len(queue) /\ DOMAIN queue' = 1..last
    BY <1>1
<1>3. /\ last \in DOMAIN queue' /\ last \in Int /\ DOMAIN queue \subseteq Int
      /\ \A i \in DOMAIN queue : i \in DOMAIN queue' /\ i < last
      /\ \A i \in DOMAIN queue' : i = last \/ i \in DOMAIN queue
    BY <1>2
<1> HIDE DEF last
<1> QED BY <1>1, <1>3

(* Events keep the order, and tell where the prisoner is.                  *)
LEMMA EventFollows ==
    ASSUME EventInv, Admitted \/ Released \/ Merged, again' = again
    PROVE  Ordered' /\ Follows' /\ Leaves'
<1> USE DEF EventInv, MergeInv
<1>1. /\ rows' = rows /\ lite' = lite /\ risk' = risk /\ merged' = merged
    BY DEF Admitted, Released, Merged
<1>2. Status' = Status /\ Current' = Current
    BY <1>1 DEF Status, Current
<1>3. /\ nomis.number \in PrisonerNumbers /\ nomis.prison \in Prisons
      /\ "survives" \in PrisonerNumbers
    BY DEF EventTypeOK, PrisonerNumbers
<1>4. \E type \in {"moved", "released", "merged"}, number \in PrisonerNumbers, prison \in Prisons :
        /\ Send(type, number, prison)
        /\ nomis'.number = number /\ nomis'.prison = prison
        /\ type = "moved" => nomis'.inside /\ nomis'.number = nomis.number
        /\ type = "released" => /\ nomis'.number = nomis.number
        /\ type = "merged" => number = "survives" /\ nomis'.inside = nomis.inside
        /\ type # "moved" => nomis'.prison = nomis.prison
    <2>1. CASE Admitted
        <3>1. PICK p \in Prisons : /\ nomis' = [nomis EXCEPT !.prison = p, !.inside = TRUE]
                                   /\ Send("moved", nomis.number, p)
            BY <2>1 DEF Admitted
        <3>2. nomis'.number = nomis.number /\ nomis'.prison = p /\ nomis'.inside
            BY <3>1 DEF EventTypeOK
        <3> QED BY <1>3, <3>1, <3>2
    <2>2. CASE Released
        <3>1. nomis' = [nomis EXCEPT !.inside = FALSE] /\ Send("released", nomis.number, nomis.prison)
            BY <2>2 DEF Released
        <3>2. nomis'.number = nomis.number /\ nomis'.prison = nomis.prison
            BY <3>1 DEF EventTypeOK
        <3> QED BY <1>3, <3>1, <3>2
    <2>3. CASE Merged
        <3>1. PICK below \in {nomis.below, nomis.pending} :
                nomis' = [nomis EXCEPT !.number = "survives", !.below = below]
            BY <2>3 DEF Merged
        <3>2. /\ nomis'.number = "survives" /\ nomis'.prison = nomis.prison
              /\ nomis'.inside = nomis.inside
            BY <3>1 DEF EventTypeOK
        <3>3. Send("merged", "survives", nomis.prison)
            BY <2>3 DEF Merged
        <3> QED BY <1>3, <3>2, <3>3
    <2> QED BY <2>1, <2>2, <2>3
<1>5. PICK type \in {"moved", "released", "merged"}, number \in PrisonerNumbers, prison \in Prisons :
        /\ Send(type, number, prison)
        /\ nomis'.number = number /\ nomis'.prison = prison
        /\ type = "moved" => nomis'.inside /\ nomis'.number = nomis.number
        /\ type = "released" => /\ nomis'.number = nomis.number
        /\ type = "merged" => number = "survives" /\ nomis'.inside = nomis.inside
        /\ type # "moved" => nomis'.prison = nomis.prison
    BY <1>4
<1>6. PICK last \in DOMAIN queue' :
        /\ queue'[last].type = type /\ queue'[last].number = number
        /\ queue'[last].prison = prison
        /\ \A i \in DOMAIN queue : i \in DOMAIN queue' /\ queue'[i] = queue[i] /\ i < last
        /\ \A i \in DOMAIN queue' : i = last \/ i \in DOMAIN queue
        /\ last \in Int /\ DOMAIN queue \subseteq Int
    BY <1>5, QueueGrows
<1>7. nomis.number = "survives" => number = "survives"
    BY <1>5
<1>8. Ordered'
    <2> SUFFICES ASSUME ~again PROVE Ordered'
        BY DEF Ordered
    <2>1. ASSUME NEW i \in DOMAIN queue', NEW j \in DOMAIN queue', i < j, queue'[i].number = "survives"
          PROVE  queue'[j].number = "survives"
        <3>1. i # last
            BY <1>6, <2>1
        <3>2. i \in DOMAIN queue /\ queue[i].number = "survives"
            BY <1>6, <2>1, <3>1
        <3>3. nomis.number = "survives"
            BY <1>3, <3>2 DEF BeforeMerge, PrisonerNumbers
        <3> QED BY <1>6, <1>7, <2>1, <3>2, <3>3 DEF Ordered
    <2>2. ASSUME merged, NEW i \in DOMAIN queue' PROVE queue'[i].number = "survives"
        <3>1. nomis.number = "survives"
            BY <1>3, <2>2 DEF BeforeMerge, PrisonerNumbers
        <3> QED BY <1>6, <1>7, <2>2, <3>1 DEF Ordered
    <2>3. ASSUME ~merged, NEW i \in DOMAIN queue', queue'[i].number = "survives"
          PROVE  \E j \in DOMAIN queue' : j <= i /\ queue'[j].type = "merged"
        <3>1. CASE i \in DOMAIN queue
            BY <1>6, <2>3, <3>1 DEF Ordered
        <3>2. CASE i = last /\ type = "merged"
            BY <1>6, <3>2
        <3>3. CASE i = last /\ type # "merged"
            <4>1. nomis.number = "survives"
                BY <1>5, <1>6, <2>3, <3>3
            <4>2. PICK j \in DOMAIN queue : queue[j].type = "merged"
                BY <2>3, <4>1 DEF MergeTold
            <4>3. j \in DOMAIN queue' /\ queue'[j].type = "merged" /\ j < last /\ j \in Int
                BY <1>6, <4>2
            <4>4. j <= i
                BY <1>6, <3>3, <4>3
            <4> QED BY <4>3, <4>4
        <3> QED BY <1>6, <3>1, <3>2, <3>3
    <2> QED BY <1>1, <2>1, <2>2, <2>3 DEF Ordered
<1>9. Follows'
    <2> SUFFICES ASSUME ~again PROVE Follows'
        BY DEF Follows
    <2>1. Moves(last)' <=> type = "moved"
        BY <1>6 DEF Moves
    <2>2. \A i \in DOMAIN queue : Moves(i)' <=> Moves(i)
        BY <1>6 DEF Moves
    <2>3. ASSUME NEW i \in DOMAIN queue', Moves(i)', \A j \in DOMAIN queue' : i < j => ~Moves(j)'
          PROVE  queue'[i].prison = nomis'.prison
        <3>1. CASE i = last
            BY <1>5, <1>6, <3>1
        <3>2. CASE i # last
            <4>1. i \in DOMAIN queue /\ i < last /\ queue'[i] = queue[i]
                BY <1>6, <3>2
            <4>2. type # "moved"
                BY <2>1, <2>3, <4>1
            <4>3. \A j \in DOMAIN queue : i < j => ~Moves(j)
                BY <1>6, <2>2, <2>3
            <4> QED BY <1>5, <2>2, <2>3, <4>1, <4>2, <4>3 DEF Follows
        <3> QED BY <3>1, <3>2
    <2>4. ASSUME \A i \in DOMAIN queue' : ~Moves(i)'
          PROVE  nomis'.prison = nomis.prison /\ \A i \in DOMAIN queue : ~Moves(i)
        BY <1>5, <1>6, <2>1, <2>2, <2>4
    <2>5. ASSUME \A i \in DOMAIN queue' : Moves(i)' => queue'[i].number = "removed",
                 NEW c \in risk, c.number = "survives"
          PROVE  c.prison = nomis'.prison
        <3>1. nomis.number = "survives"
            BY <1>3, <2>5 DEF BeforeMerge, PrisonerNumbers
        <3>2. type # "moved"
            BY <1>6, <1>7, <2>1, <2>5, <3>1
        <3>3. \A i \in DOMAIN queue : Moves(i) => queue[i].number = "removed"
            BY <1>6, <2>2, <2>5
        <3> QED BY <1>5, <2>5, <3>2, <3>3 DEF Follows
    <2> QED BY <1>1, <1>2, <2>3, <2>4, <2>5 DEF Follows
<1>10. Leaves'
    <2> SUFFICES ASSUME ~again, ~nomis'.inside PROVE Leaves'
        BY DEF Leaves
    <2>1. \A i \in DOMAIN queue, n \in PrisonerNumbers : Deletes(i, n) => Deletes(i, n)'
        BY <1>6 DEF Deletes
    <2>2. CASE type = "merged"
        <3>1. ~nomis.inside
            BY <1>5, <2>2
        <3>2. ASSUME Status \in InProgress PROVE \E i \in DOMAIN queue' : Deletes(i, Current.number)'
            <4>1. PICK i \in DOMAIN queue : Deletes(i, Current.number)
                BY <3>1, <3>2 DEF Leaves
            <4>2. i \in DOMAIN queue' /\ queue'[i] = queue[i]
                BY <1>6
            <4> QED BY <1>2, <4>1, <4>2 DEF Deletes
        <3>3. ASSUME lite.unapproved PROVE \E i \in DOMAIN queue' : Deletes(i, lite.number)'
            <4>1. PICK i \in DOMAIN queue : Deletes(i, lite.number)
                BY <3>1, <3>3 DEF Leaves
            <4>2. i \in DOMAIN queue' /\ queue'[i] = queue[i]
                BY <1>6
            <4> QED BY <1>1, <4>1, <4>2 DEF Deletes
        <3> QED BY <1>1, <1>2, <3>2, <3>3 DEF Leaves
    <2>3. CASE type = "released"
        <3>1. queue'[last].type = "released" /\ queue'[last].number = nomis.number
            BY <1>5, <1>6, <2>3
        <3>2. ASSUME Status \in InProgress PROVE Deletes(last, Current.number)'
            <4>1. Len(rows) \in DOMAIN rows
                BY <3>2, RowFacts
            <4>2. nomis.number = "survives" \/ Current.number = "removed"
                BY <1>3, <4>1 DEF BeforeMerge, PrisonerNumbers, Current
            <4> QED BY <1>2, <3>1, <4>2 DEF Deletes
        <3>3. Deletes(last, lite.number)'
            <4>1. nomis.number = "survives" \/ lite.number = "removed"
                BY <1>3 DEF BeforeMerge, PrisonerNumbers
            <4> QED BY <1>1, <3>1, <4>1 DEF Deletes
        <3> QED BY <1>1, <1>2, <3>2, <3>3 DEF Leaves
    <2> QED BY <1>5, <2>2, <2>3
<1> QED BY <1>8, <1>9, <1>10

(* In order, the first message is handled and deleted: the others move up. *)
LEMMA FirstDeleted ==
    ASSUME EventTypeOK, 1 \in DOMAIN queue, queue' = Deleted(1)
    PROVE  /\ \A j \in DOMAIN queue' : j + 1 \in DOMAIN queue /\ queue'[j] = queue[j + 1]
           /\ \A k \in DOMAIN queue : k # 1 => k - 1 \in DOMAIN queue' /\ queue'[k - 1] = queue[k]
           /\ DOMAIN queue \subseteq Nat \ {0} /\ DOMAIN queue' \subseteq Nat \ {0}
<1>1. /\ Len(queue) \in Nat \ {0} /\ DOMAIN queue = 1..Len(queue)
      /\ DOMAIN queue' = 1..Len(queue) - 1
    BY QueueDeleted DEF EventTypeOK
<1>2. \A j \in 1..Len(queue) - 1 : queue'[j] = queue[IF j < 1 THEN j ELSE j + 1]
    BY QueueDeleted DEF EventTypeOK
<1>3. \A j \in 1..Len(queue) - 1 : (IF j < 1 THEN j ELSE j + 1) = j + 1 /\ j + 1 \in 1..Len(queue)
    BY <1>1
<1>4. \A j \in 1..Len(queue) - 1 : queue'[j] = queue[j + 1]
    BY <1>2, <1>3
<1>5. \A k \in 1..Len(queue) : k # 1 => k - 1 \in 1..Len(queue) - 1 /\ (k - 1) + 1 = k
    BY <1>1
<1>6. ASSUME NEW k \in DOMAIN queue, k # 1
      PROVE  k - 1 \in DOMAIN queue' /\ queue'[k - 1] = queue[k]
    <2>1. k - 1 \in 1..Len(queue) - 1 /\ (k - 1) + 1 = k
        BY <1>1, <1>5, <1>6
    <2>2. queue'[k - 1] = queue[(k - 1) + 1]
        BY <1>4, <2>1
    <2> QED BY <1>1, <2>1, <2>2
<1>7. DOMAIN queue \subseteq Nat \ {0} /\ DOMAIN queue' \subseteq Nat \ {0}
    BY <1>1
<1> QED BY <1>1, <1>3, <1>4, <1>6, <1>7

(* So the order is kept, and a message about the surviving number that is  *)
(* first either tells the merge or comes after it.                         *)
LEMMA OrderKept ==
    ASSUME EventInv, ~again, ~again', 1 \in DOMAIN queue, queue' = Deleted(1),
           merged' = (merged \/ queue[1].type = "merged")
    PROVE  /\ Ordered'
           /\ queue[1].number = "survives" => merged \/ queue[1].type = "merged"
           /\ queue[1].number = "survives" => \A i \in DOMAIN queue : queue[i].number = "survives"
<1> USE DEF EventInv, MergeInv
<1>1. /\ \A j \in DOMAIN queue' : j + 1 \in DOMAIN queue /\ queue'[j] = queue[j + 1]
      /\ \A k \in DOMAIN queue : k # 1 => k - 1 \in DOMAIN queue' /\ queue'[k - 1] = queue[k]
      /\ DOMAIN queue \subseteq Nat \ {0} /\ DOMAIN queue' \subseteq Nat \ {0}
    BY FirstDeleted
<1>2. \A k \in DOMAIN queue : k <= 1 => k = 1
    BY <1>1
<1>3. queue[1].number = "survives" => merged \/ queue[1].type = "merged"
    BY <1>2 DEF Ordered
<1>4. queue[1].number = "survives" => \A i \in DOMAIN queue : queue[i].number = "survives"
    <2>1. \A i \in DOMAIN queue : i = 1 \/ 1 < i
        BY <1>1
    <2> QED BY <2>1 DEF Ordered
<1>5. ASSUME NEW i \in DOMAIN queue', NEW j \in DOMAIN queue', i < j, queue'[i].number = "survives"
      PROVE  queue'[j].number = "survives"
    <2>1. i + 1 \in DOMAIN queue /\ j + 1 \in DOMAIN queue /\ i + 1 < j + 1
        BY <1>1, <1>5
    <2>2. queue'[i] = queue[i + 1] /\ queue'[j] = queue[j + 1]
        BY <1>1
    <2> QED BY <1>5, <2>1, <2>2 DEF Ordered
<1>6. ASSUME merged', NEW i \in DOMAIN queue' PROVE queue'[i].number = "survives"
    <2>1. i + 1 \in DOMAIN queue /\ queue'[i] = queue[i + 1]
        BY <1>1
    <2>2. CASE merged
        BY <2>1, <2>2 DEF Ordered
    <2>3. CASE queue[1].type = "merged"
        BY <1>4, <2>1, <2>3 DEF MergeTold
    <2> QED BY <1>6, <2>2, <2>3
<1>7. ASSUME ~merged', NEW i \in DOMAIN queue', queue'[i].number = "survives"
      PROVE  \E j \in DOMAIN queue' : j <= i /\ queue'[j].type = "merged"
    <2>1. i + 1 \in DOMAIN queue /\ queue[i + 1].number = "survives" /\ ~merged
          /\ queue[1].type # "merged"
        BY <1>1, <1>7
    <2>2. PICK k \in DOMAIN queue : k <= i + 1 /\ queue[k].type = "merged"
        BY <2>1 DEF Ordered
    <2>3. k # 1
        BY <2>1, <2>2
    <2>4. k - 1 \in DOMAIN queue' /\ queue'[k - 1] = queue[k]
        BY <1>1, <2>3
    <2>5. k - 1 <= i
        BY <1>1, <2>2
    <2> QED BY <2>2, <2>4, <2>5
<1>8. Ordered'
    BY <1>5, <1>6, <1>7 DEF Ordered
<1> QED BY <1>3, <1>4, <1>8

(* Handling the first message leaves everything where it is to be.         *)
LEMMA HandleFollows ==
    ASSUME EventInv, Handle, ~again, again' = again
    PROVE  Ordered' /\ Follows' /\ Leaves'
<1> USE DEF EventInv, MergeInv
<1>1. PICK i \in DOMAIN queue :
        /\ i > 1 => again
        /\ HandleMoved(queue[i]) \/ HandleMerged(queue[i]) \/ HandleReleased(queue[i])
        /\ queue' = Deleted(i) \/ again
    BY DEF Handle
<1>2. i = 1
    BY <1>1, LenProperties DEF EventTypeOK
<1> DEFINE m == queue[1]
<1>3. /\ 1 \in DOMAIN queue /\ queue' = Deleted(1)
      /\ HandleMoved(m) \/ HandleMerged(m) \/ HandleReleased(m)
    BY <1>1, <1>2
<1>4. m \in Message
    BY <1>3, LenProperties, ElementOfSeq DEF EventTypeOK
<1>5. merged' = (merged \/ m.type = "merged")
    BY <1>3 DEF HandleMoved, HandleMerged, HandleReleased, EventTypeOK
<1>6. /\ Ordered'
      /\ m.number = "survives" => merged \/ m.type = "merged"
      /\ m.number = "survives" => \A k \in DOMAIN queue : queue[k].number = "survives"
    BY <1>3, <1>5, OrderKept
<1>7. /\ \A j \in DOMAIN queue' : j + 1 \in DOMAIN queue /\ queue'[j] = queue[j + 1]
      /\ \A k \in DOMAIN queue : k # 1 => k - 1 \in DOMAIN queue' /\ queue'[k - 1] = queue[k]
      /\ DOMAIN queue \subseteq Nat \ {0} /\ DOMAIN queue' \subseteq Nat \ {0}
    BY <1>3, FirstDeleted
<1>8. ASSUME NEW j \in DOMAIN queue' PROVE Moves(j)' <=> Moves(j + 1)
    BY <1>7 DEF Moves
<1>9. Moves(1) <=> m.type = "moved"
    BY DEF Moves
<1> HIDE DEF m
<1>10. \A k \in DOMAIN queue : k = 1 \/ \E j \in DOMAIN queue' : k = j + 1
    <2> TAKE k \in DOMAIN queue
    <2>1. CASE k # 1
        <3>1. k - 1 \in DOMAIN queue' /\ k = (k - 1) + 1
            BY <1>7, <2>1
        <3> QED BY <3>1
    <2> QED BY <2>1
<1>11. ASSUME NEW j \in DOMAIN queue', Moves(j)', \A k \in DOMAIN queue' : j < k => ~Moves(k)'
       PROVE  queue'[j].prison = nomis.prison
    <2>1. j + 1 \in DOMAIN queue /\ queue'[j] = queue[j + 1] /\ Moves(j + 1)
        BY <1>7, <1>8, <1>11
    <2>2. ASSUME NEW k \in DOMAIN queue, j + 1 < k PROVE ~Moves(k)
        <3>1. k # 1
            BY <1>7, <2>2
        <3>2. PICK l \in DOMAIN queue' : k = l + 1
            BY <1>10, <3>1
        <3>3. j < l
            BY <1>7, <2>2, <3>2
        <3> QED BY <1>8, <1>11, <3>2, <3>3
    <2> QED BY <2>1, <2>2 DEF Follows
<1>12. ASSUME \A j \in DOMAIN queue' : ~Moves(j)', NEW k \in DOMAIN queue, Moves(k)
       PROVE  k = 1
    BY <1>8, <1>10, <1>12
<1>13. nomis'.prison = nomis.prison /\ nomis'.inside = nomis.inside
    <2>1. CASE HandleMoved(m)
        BY <2>1 DEF HandleMoved
    <2>2. CASE HandleMerged(m)
        <3>1. m.number = "survives"
            BY <1>3, <2>2 DEF HandleMerged, MergeTold, m
        <3>2. nomis.number = "survives"
            BY <1>3, <3>1 DEF BeforeMerge, EventTypeOK, PrisonerNumbers, m
        <3> QED BY <1>4, <2>2, <3>2, MergedKeeps
    <2>3. CASE HandleReleased(m)
        BY <1>4, <2>3, ReleasedKeeps
    <2> QED BY <1>3, <2>1, <2>2, <2>3
<1>14. CASE HandleMoved(m)
    <2>1. /\ Status' = Status
          /\ Status \in InProgress => Current'.prison = m.prison /\ Current'.number = Current.number
          /\ lite'.unapproved = lite.unapproved /\ (lite.unapproved => lite'.prison = m.prison)
          /\ NumbersKept
        BY <1>4, <1>14, MovedKeeps
    <2>2. /\ m.type = "moved"
          /\ risk' = {IF c.number = m.number THEN [c EXCEPT !.prison = m.prison] ELSE c : c \in risk}
        BY <1>14 DEF HandleMoved
    <2>3. ASSUME NEW c \in risk'
          PROVE  \/ c.prison = m.prison
                 \/ c \in risk /\ c.number # m.number
        <3>1. PICK d \in risk : c = IF d.number = m.number THEN [d EXCEPT !.prison = m.prison] ELSE d
            BY <2>2
        <3> QED BY <3>1 DEF EventTypeOK
    <2>4. (\A j \in DOMAIN queue' : ~Moves(j)') => m.prison = nomis.prison
        <3>1. ASSUME \A j \in DOMAIN queue' : ~Moves(j)' PROVE \A k \in DOMAIN queue : 1 < k => ~Moves(k)
            BY <1>7, <1>12, <3>1
        <3> QED BY <1>3, <1>9, <2>2, <3>1 DEF Follows, m
    <2>5. ASSUME NEW c \in risk', c \in risk, c.number # m.number, m.number = "survives"
          PROVE  FALSE
        BY <1>6, <2>2, <2>5 DEF AfterMerge
    <2>6. m.number \in {"removed", "survives"} /\ \A c \in risk : c.number \in {"removed", "survives"}
        BY <1>4 DEF EventTypeOK, Message, PrisonerNumbers
    <2>7. ASSUME \A j \in DOMAIN queue' : ~Moves(j)', NEW c \in risk'
          PROVE  c.prison = nomis.prison
        <3>1. CASE c \in risk /\ c.number # m.number
            <4>1. m.number = "removed" /\ c.number = "survives"
                BY <2>5, <2>6, <3>1
            <4>2. \A k \in DOMAIN queue : Moves(k) => queue[k].number = "removed"
                BY <1>12, <2>7, <4>1 DEF m
            <4> QED BY <3>1, <4>1, <4>2 DEF Follows
        <3>2. CASE c.prison = m.prison
            BY <2>4, <2>7, <3>2
        <3> QED BY <2>3, <3>1, <3>2
    <2>8. ASSUME \A j \in DOMAIN queue' : Moves(j)' => queue'[j].number = "removed",
                 NEW c \in risk', c.number = "survives"
          PROVE  c.prison = nomis.prison
        <3>1. CASE m.number = "removed"
            <4>1. c \in risk /\ c.number # m.number
                <5>1. PICK d \in risk : c = IF d.number = m.number THEN [d EXCEPT !.prison = m.prison] ELSE d
                    BY <2>2
                <5> QED BY <2>8, <3>1, <5>1 DEF EventTypeOK
            <4>2. \A k \in DOMAIN queue : Moves(k) => queue[k].number = "removed"
                <5> TAKE k \in DOMAIN queue
                <5>1. CASE k = 1
                    BY <3>1, <5>1 DEF m
                <5>2. CASE k # 1
                    <6>1. PICK j \in DOMAIN queue' : k = j + 1
                        BY <1>10, <5>2
                    <6> QED BY <1>7, <1>8, <2>8, <6>1
                <5> QED BY <5>1, <5>2
            <4> QED BY <2>8, <4>1, <4>2 DEF Follows
        <3>2. CASE m.number = "survives"
            <4>1. \A j \in DOMAIN queue' : queue'[j].number = "survives"
                BY <1>6, <1>7, <3>2
            <4>2. \A j \in DOMAIN queue' : ~Moves(j)'
                BY <2>8, <4>1
            <4> QED BY <2>7, <4>2
        <3> QED BY <2>6, <3>1, <3>2
    <2>9. Follows'
        <3>1. ASSUME \A j \in DOMAIN queue' : ~Moves(j)'
              PROVE  /\ Status' \in InProgress => Current'.prison = nomis'.prison
                     /\ lite'.unapproved => lite'.prison = nomis'.prison
                     /\ \A c \in risk' : c.prison = nomis'.prison
            BY <1>13, <2>1, <2>4, <2>7, <3>1
        <3> QED BY <1>11, <1>13, <2>8, <3>1 DEF Follows
    <2>10. Leaves'
        <3> SUFFICES ASSUME ~nomis.inside PROVE Leaves'
            BY <1>13 DEF Leaves
        <3>1. ASSUME Status \in InProgress PROVE \E j \in DOMAIN queue' : Deletes(j, Current.number)'
            <4>1. PICK k \in DOMAIN queue : Deletes(k, Current.number)
                BY <3>1 DEF Leaves
            <4>2. k # 1
                BY <2>2, <4>1 DEF Deletes, m
            <4>3. k - 1 \in DOMAIN queue' /\ queue'[k - 1] = queue[k]
                BY <1>7, <4>2
            <4> QED BY <2>1, <3>1, <4>1, <4>3 DEF Deletes
        <3>2. ASSUME lite.unapproved PROVE \E j \in DOMAIN queue' : Deletes(j, lite.number)'
            <4>1. PICK k \in DOMAIN queue : Deletes(k, lite.number)
                BY <3>2 DEF Leaves
            <4>2. k # 1
                BY <2>2, <4>1 DEF Deletes, m
            <4>3. k - 1 \in DOMAIN queue' /\ queue'[k - 1] = queue[k]
                BY <1>7, <4>2
            <4> QED BY <2>1, <4>1, <4>3 DEF Deletes, NumbersKept
        <3> QED BY <2>1, <3>1, <3>2 DEF Leaves
    <2> QED BY <1>6, <2>9, <2>10
<1>15. ASSUME m.type # "moved", \A j \in DOMAIN queue' : ~Moves(j)', NEW k \in DOMAIN queue
       PROVE  ~Moves(k)
    BY <1>9, <1>12, <1>15
<1>16. CASE HandleMerged(m)
    <2>1. m.type = "merged" /\ m.number = "survives"
        BY <1>3, <1>16 DEF HandleMerged, MergeTold, m
    <2>2. nomis.number = "survives"
        BY <1>3, <2>1 DEF BeforeMerge, EventTypeOK, PrisonerNumbers, m
    <2>3. /\ \A c \in risk' : \E d \in risk : c.prison = d.prison
          /\ Status' = Status /\ (Status \in InProgress => Current'.prison = Current.prison)
          /\ lite'.unapproved = lite.unapproved /\ lite'.prison = lite.prison
        BY <1>4, <1>16, <2>2, MergedKeeps
    <2>4. ASSUME \A j \in DOMAIN queue' : ~Moves(j)'
          PROVE  /\ Status' \in InProgress => Current'.prison = nomis'.prison
                 /\ lite'.unapproved => lite'.prison = nomis'.prison
                 /\ \A c \in risk' : c.prison = nomis'.prison
        <3>1. \A k \in DOMAIN queue : ~Moves(k)
            BY <1>15, <2>1, <2>4
        <3>2. /\ Status \in InProgress => Current.prison = nomis.prison
              /\ lite.unapproved => lite.prison = nomis.prison
              /\ \A c \in risk : c.prison = nomis.prison
            BY <3>1 DEF Follows
        <3> QED BY <1>13, <2>3, <3>2
    <2>5. ASSUME \A j \in DOMAIN queue' : Moves(j)' => queue'[j].number = "removed"
          PROVE  \A j \in DOMAIN queue' : ~Moves(j)'
        <3>1. \A j \in DOMAIN queue' : queue'[j].number = "survives"
            BY <1>6, <1>7, <2>1
        <3> QED BY <2>5, <3>1
    <2>6. Follows'
        BY <1>11, <1>13, <2>4, <2>5 DEF Follows
    <2>7. Leaves'
        <3> SUFFICES ASSUME ~nomis.inside PROVE Leaves'
            BY <1>13 DEF Leaves
        <3>1. ASSUME NEW k \in DOMAIN queue, queue[k].type = "released"
              PROVE  /\ k - 1 \in DOMAIN queue' /\ queue'[k - 1].type = "released"
                     /\ queue'[k - 1].number = "survives"
            <4>1. k # 1
                BY <2>1, <3>1 DEF m
            <4>2. k - 1 \in DOMAIN queue' /\ queue'[k - 1] = queue[k]
                BY <1>7, <4>1
            <4> QED BY <1>6, <2>1, <3>1, <4>2
        <3>2. Status' \in InProgress => \E j \in DOMAIN queue' : Deletes(j, Current.number)'
            BY <2>3, <3>1 DEF Leaves, Deletes
        <3>3. lite'.unapproved => \E j \in DOMAIN queue' : Deletes(j, lite.number)'
            BY <2>3, <3>1 DEF Leaves, Deletes
        <3> QED BY <3>2, <3>3 DEF Leaves
    <2> QED BY <1>6, <2>6, <2>7
<1>17. CASE HandleReleased(m)
    <2>1. m.type = "released"
        BY <1>17 DEF HandleReleased
    <2>2. /\ risk' = risk
          /\ Status' \in InProgress => /\ Status \in InProgress /\ Current' = Current
                                       /\ Current.number # m.number
          /\ lite' = lite \/ ~lite'.unapproved
          /\ lite'.unapproved => lite.number # m.number
        BY <1>4, <1>17, ReleasedKeeps
    <2>3. ASSUME \A j \in DOMAIN queue' : ~Moves(j)'
          PROVE  /\ Status' \in InProgress => Current'.prison = nomis'.prison
                 /\ lite'.unapproved => lite'.prison = nomis'.prison
                 /\ \A c \in risk' : c.prison = nomis'.prison
        <3>1. \A k \in DOMAIN queue : ~Moves(k)
            BY <1>15, <2>1, <2>3
        <3>2. /\ Status \in InProgress => Current.prison = nomis.prison
              /\ lite.unapproved => lite.prison = nomis.prison
              /\ \A c \in risk : c.prison = nomis.prison
            BY <3>1 DEF Follows
        <3> QED BY <1>13, <2>2, <3>2
    <2>4. ASSUME \A j \in DOMAIN queue' : Moves(j)' => queue'[j].number = "removed"
          PROVE  \A c \in risk' : c.number = "survives" => c.prison = nomis'.prison
        <3>1. ASSUME NEW k \in DOMAIN queue, Moves(k) PROVE queue[k].number = "removed"
            <4>1. k # 1
                BY <1>9, <2>1, <3>1
            <4>2. PICK j \in DOMAIN queue' : k = j + 1
                BY <1>10, <4>1
            <4> QED BY <1>7, <1>8, <2>4, <3>1, <4>2
        <3> QED BY <1>13, <2>2, <3>1 DEF Follows
    <2>5. Follows'
        BY <1>11, <1>13, <2>3, <2>4 DEF Follows
    <2>6. Leaves'
        <3> SUFFICES ASSUME ~nomis.inside PROVE Leaves'
            BY <1>13 DEF Leaves
        <3>1. m.number \in {"removed", "survives"}
            BY <1>4 DEF Message, PrisonerNumbers
        <3>2. ASSUME Status' \in InProgress PROVE \E j \in DOMAIN queue' : Deletes(j, Current.number)'
            <4>1. PICK k \in DOMAIN queue : Deletes(k, Current.number)
                BY <2>2, <3>2 DEF Leaves
            <4>2. k # 1
                <5> SUFFICES ASSUME k = 1 PROVE FALSE
                    OBVIOUS
                <5>1. m.number = "survives" \/ Current.number = "removed"
                    BY <4>1 DEF Deletes, m
                <5>2. m.number = "survives" => Current.number = "survives"
                    <6>1. Len(rows) \in DOMAIN rows
                        BY <2>2, <3>2, RowFacts
                    <6> QED BY <1>6, <2>1, <6>1 DEF AfterMerge, Current
                <5> QED BY <2>2, <3>1, <3>2, <5>1, <5>2
            <4>3. k - 1 \in DOMAIN queue' /\ queue'[k - 1] = queue[k]
                BY <1>7, <4>2
            <4> QED BY <2>2, <3>2, <4>1, <4>3 DEF Deletes
        <3>3. ASSUME lite'.unapproved PROVE \E j \in DOMAIN queue' : Deletes(j, lite.number)'
            <4>1. PICK k \in DOMAIN queue : Deletes(k, lite.number)
                BY <2>2, <3>3 DEF Leaves
            <4>2. k # 1
                <5> SUFFICES ASSUME k = 1 PROVE FALSE
                    OBVIOUS
                <5>1. m.number = "survives" \/ lite.number = "removed"
                    BY <4>1 DEF Deletes, m
                <5>2. m.number = "survives" => lite.number = "survives"
                    BY <1>6, <2>1 DEF AfterMerge
                <5> QED BY <2>2, <3>1, <3>3, <5>1, <5>2
            <4>3. k - 1 \in DOMAIN queue' /\ queue'[k - 1] = queue[k]
                BY <1>7, <4>2
            <4> QED BY <2>2, <3>3, <4>1, <4>3 DEF Deletes
        <3> QED BY <3>2, <3>3 DEF Leaves
    <2> QED BY <1>6, <2>5, <2>6
<1> QED BY <1>3, <1>14, <1>16, <1>17

(* Every step keeps the invariant.                                         *)
LEMMA EventStep == EventInv /\ [EventNext]_eventVars => EventInv'
<1> SUFFICES ASSUME EventInv, [EventNext]_eventVars PROVE EventInv'
    OBVIOUS
<1>1. MergeInv'
    BY MergeStep DEF EventInv
<1>2. again' = again
    BY DEF EventNext, eventVars
<1>3. CASE again
    BY <1>1, <1>2, <1>3 DEF EventInv, Ordered, Follows, Leaves
<1>4. CASE ~again
    <2>1. CASE RiskRaised \/ ReferredBefore \/ Refer \/ Open \/ TakeUp \/ Advance \/ Approve
               \/ Cancel \/ OpenLite \/ ApproveLite
        <3>1. Worked
            BY <1>2, <2>1, SecurityWorks, TasklistWorks, FormWorks, LiteWorks DEF EventInv
        <3> QED BY <1>1, <1>2, <3>1, WorkFollows DEF EventInv
    <2>2. CASE Admitted \/ Released \/ Merged
        BY <1>1, <1>2, <2>2, EventFollows DEF EventInv
    <2>3. CASE Handle
        BY <1>1, <1>2, <1>4, <2>3, HandleFollows DEF EventInv
    <2>4. CASE UNCHANGED eventVars
        <3>1. /\ rows' = rows /\ lite' = lite /\ risk' = risk
              /\ nomis' = nomis /\ queue' = queue /\ merged' = merged
            BY <2>4 DEF eventVars
        <3>2. Status' = Status /\ Current' = Current
            BY <3>1 DEF Status, Current
        <3>3. Ordered' /\ Follows' /\ Leaves'
            BY <1>2, <3>1, <3>2 DEF EventInv, Ordered, Follows, Leaves, Moves, Deletes
        <3> QED BY <1>1, <3>3 DEF EventInv
    <2> QED BY <2>1, <2>2, <2>3, <2>4 DEF EventNext
<1> QED BY <1>3, <1>4

(* Messages told once and in order leave everything where the prisoner is, *)
(* and nothing under way for who has been released.                        *)
THEOREM TablesFollowPrisoner == EventSpec => []FollowsPrisoner
<1>1. EventInv => FollowsPrisoner
    <2> SUFFICES ASSUME EventInv, ~again, Told PROVE AtPrison /\ ReleasedHasNone
        BY DEF FollowsPrisoner, AtPrison, ReleasedHasNone
    <2>1. DOMAIN queue = {}
        BY EmptySeq, LenProperties DEF Told
    <2>2. AtPrison
        BY <2>1 DEF AtPrison, EventInv, Follows
    <2>3. ReleasedHasNone
        BY <2>1 DEF ReleasedHasNone, EventInv, Leaves
    <2> QED BY <2>2, <2>3
<1> QED BY <1>1, EventInitially, EventStep, PTL DEF EventSpec
=============================================================================
