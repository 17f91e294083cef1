-------------------------- MODULE ConnectionPoolProofs --------------------------
(***************************************************************************)
(* Proofs about ConnectionPool, for every pool and every set of requests.  *)
(* A pool that is stuck has given every connection to a different list     *)
(* that waits for its queries (HeldByItsRequest and OnlyListsAsk), so      *)
(* there are at least as many of them as connections (the pigeonhole       *)
(* principle).  The code does not limit the lists at work, and nothing     *)
(* here assumes that it does.                                              *)
(***************************************************************************)
EXTENDS ConnectionPool, FiniteSetTheorems, SequenceTheorems, TLAPS

(* A request waits for its transaction's connection at most once, and has  *)
(* none while it waits.                                                    *)
QueuedOnce ==
    \A i, j \in 1..Len(queue) :
        queue[i].for = "transaction" =>
            /\ stage[queue[i].by] = "waiting"
            /\ queue[i].by \notin Checks
            /\ (queue[j].for = "transaction" /\ queue[j].by = queue[i].by => i = j)

(* Only lists query outside their transaction.                             *)
OnlyListsAsk == \A r \in Requests : left[r] > 0 \/ outstanding[r] > 0 => r \in Lists

IInv == TypeOK /\ QueuedOnce /\ HeldByItsRequest /\ OnlyListsAsk
-----------------------------------------------------------------------------
(* n queries of one request, as Ask appends them, are a sequence of tasks. *)
LEMMA QueriesAreTasks ==
    ASSUME NEW r \in Requests, NEW n \in Nat
    PROVE  /\ [i \in 1..n |-> Query(r)] \in Seq(Task)
           /\ Len([i \in 1..n |-> Query(r)]) = n
BY DEF Query, Task

(* What is queued is a task of a request.                                  *)
LEMMA QueuedTasks ==
    ASSUME TypeOK
    PROVE  \A i \in 1..Len(queue) : queue[i] \in Task /\ queue[i].by \in Requests
<1>1. \A i \in 1..Len(queue) : queue[i] \in Task
    BY ElementOfSeq DEF TypeOK
<1> QED BY <1>1 DEF Task

(* Initially the invariant holds: nothing is queued and nothing is held.   *)
LEMMA InitInvariant == Init => IInv
<1> SUFFICES ASSUME Init PROVE IInv
    OBVIOUS
<1> USE DEF Init
<1>1. TypeOK
    <2>1. left \in [Requests -> Nat]
        BY MaxQueriesAssumption
    <2>2. queue \in Seq(Task)
        OBVIOUS
    <2> QED BY <2>1, <2>2 DEF TypeOK, Ended
<1>2. QueuedOnce
    BY DEF QueuedOnce
<1>3. HeldByItsRequest
    BY DEF HeldByItsRequest, Free
<1>4. OnlyListsAsk
    BY DEF OnlyListsAsk, Outside
<1> QED BY <1>1, <1>2, <1>3, <1>4 DEF IInv

(* Every step keeps the types.                                             *)
LEMMA TypeStep == TypeOK /\ [Next]_vars => TypeOK'
<1> SUFFICES ASSUME TypeOK, [Next]_vars PROVE TypeOK'
    OBVIOUS
<1> USE DEF TypeOK, Ended
<1>1. ASSUME NEW c \in Connections, Grant(c) PROVE TypeOK'
    <2>1. Head(queue) \in Task /\ Tail(queue) \in Seq(Task)
        BY <1>1 DEF Grant
    <2>2. Head(queue).by \in Requests
        BY <2>1 DEF Task
    <2>3. queue' \in Seq(Task) /\ held' \in [Connections -> Task \cup {Free}]
        BY <1>1, <2>1 DEF Grant
    <2>4. CASE Head(queue).for = "transaction"
        <3>1. /\ client' = [client EXCEPT ![Head(queue).by] = c]
              /\ stage' = [stage EXCEPT ![Head(queue).by] = "working"]
              /\ branch' \in {branch, [branch EXCEPT ![Head(queue).by] = "open"]}
              /\ UNCHANGED <<left, outstanding, aborted, answered, saved>>
            BY <1>1, <2>4 DEF Grant
        <3> QED BY <2>2, <2>3, <3>1
    <2>5. CASE Head(queue).for # "transaction"
        <3>1. UNCHANGED <<client, stage, branch, left, outstanding, aborted, answered, saved>>
            BY <1>1, <2>5 DEF Grant
        <3> QED BY <2>3, <3>1
    <2> QED BY <2>4, <2>5
<1>2. ASSUME NEW c \in Connections, EndQuery(c) PROVE TypeOK'
    <2>1. held[c].by \in Requests
        BY <1>2 DEF EndQuery, Task, Free
    <2> QED BY <1>2, <2>1 DEF EndQuery
<1>3. ASSUME NEW r \in Requests, Start(r) PROVE TypeOK'
    <2>1. Query(r) \in Task /\ Transaction(r) \in Task
        BY DEF Query, Transaction, Task
    <2> QED BY <1>3, <2>1 DEF Start
<1>4. ASSUME NEW r \in Requests, Timeout(r) PROVE TypeOK'
    BY <1>4 DEF Timeout
<1>5. ASSUME NEW r \in Requests, Ask(r) PROVE TypeOK'
    <2>1. PICK n \in 1..left[r] :
            /\ left' = [left EXCEPT ![r] = @ - n]
            /\ outstanding' = [outstanding EXCEPT ![r] = n]
            /\ queue' = queue \o [i \in 1..n |-> Query(r)]
        BY <1>5 DEF Ask
    <2>2. left[r] \in Nat /\ n \in Nat /\ left[r] - n \in Nat
        OBVIOUS
    <2>3. queue' \in Seq(Task)
        BY <2>1, <2>2, QueriesAreTasks, ConcatProperties
    <2> QED BY <1>5, <2>1, <2>2, <2>3 DEF Ask
<1>6. ASSUME NEW r \in Requests, SendLate(r) PROVE TypeOK'
    BY <1>6 DEF SendLate
<1>7. ASSUME NEW r \in Requests, Fail(r) PROVE TypeOK'
    BY <1>7 DEF Fail, Released
<1>8. ASSUME NEW r \in Requests, StatementFails(r) PROVE TypeOK'
    BY <1>8 DEF StatementFails
<1>9. ASSUME NEW r \in Requests, Answer(r) PROVE TypeOK'
    BY <1>9 DEF Answer
<1>10. ASSUME NEW r \in Requests, End(r) PROVE TypeOK'
    BY <1>10 DEF End, Released
<1>11. ASSUME NEW r \in Requests, CommitFails(r) PROVE TypeOK'
    BY <1>11 DEF CommitFails, Released
<1>12. CASE UNCHANGED vars
    BY <1>12 DEF vars
<1> QED BY <1>1, <1>2, <1>3, <1>4, <1>5, <1>6, <1>7, <1>8, <1>9, <1>10, <1>11, <1>12 DEF Next

(* Every step keeps the queue free of requests that have a connection.     *)
LEMMA QueueStep == IInv /\ [Next]_vars => QueuedOnce'
<1> SUFFICES ASSUME IInv, [Next]_vars PROVE QueuedOnce'
    OBVIOUS
<1> USE DEF IInv, TypeOK, QueuedOnce
<1>1. ASSUME NEW c \in Connections, Grant(c) PROVE QueuedOnce'
    <2>1. /\ Len(queue) \in Nat \ {0} /\ Head(queue) = queue[1] /\ Head(queue) \in Task
          /\ Len(queue') = Len(queue) - 1
          /\ \A i \in 1..Len(queue') : queue'[i] = queue[i + 1] /\ queue[i + 1] \in Task
        BY <1>1 DEF Grant
    <2> SUFFICES ASSUME NEW i \in 1..Len(queue'), NEW j \in 1..Len(queue'),
                        queue'[i].for = "transaction"
                 PROVE  /\ stage'[queue'[i].by] = "waiting"
                        /\ queue'[i].by \notin Checks
                        /\ (queue'[j].for = "transaction" /\ queue'[j].by = queue'[i].by => i = j)
        OBVIOUS
    <2>2. i + 1 \in 1..Len(queue) /\ j + 1 \in 1..Len(queue) /\ 1 \in 1..Len(queue) /\ i + 1 # 1
        BY <2>1
    <2>3. /\ queue[i + 1].for = "transaction" /\ stage[queue[i + 1].by] = "waiting"
          /\ queue[i + 1].by \notin Checks
        BY <2>1, <2>2
    <2>4. queue[j + 1].for = "transaction" /\ queue[j + 1].by = queue[i + 1].by => i = j
        <3>1. queue[j + 1].for = "transaction" /\ queue[j + 1].by = queue[i + 1].by
                => i + 1 = j + 1
            BY <2>2, <2>3
        <3> QED BY <3>1
    <2>5. ASSUME Head(queue).for = "transaction" PROVE Head(queue).by # queue[i + 1].by
        BY <2>1, <2>2, <2>3, <2>5
    <2>6. stage'[queue[i + 1].by] = "waiting"
        BY <1>1, <2>1, <2>2, <2>3, <2>5 DEF Grant, Task
    <2> QED BY <2>1, <2>3, <2>4, <2>6
<1>2. ASSUME NEW c \in Connections, EndQuery(c) PROVE QueuedOnce'
    <2>1. \A r \in Requests : r \notin Checks => stage'[r] = stage[r]
        BY <1>2 DEF EndQuery
    <2>2. \A i \in 1..Len(queue) : queue[i].by \in Requests
        BY QueuedTasks
    <2>3. queue' = queue
        BY <1>2 DEF EndQuery
    <2>4. \A i \in 1..Len(queue) :
            queue[i].for = "transaction" => stage'[queue[i].by] = "waiting"
        BY <2>1, <2>2
    <2>5. QueuedOnce
        BY DEF IInv
    <2> HIDE DEF IInv, TypeOK
    <2> QED BY ONLY <2>3, <2>4, <2>5 DEF QueuedOnce
<1>3. ASSUME NEW r \in Requests, Start(r) PROVE QueuedOnce'
    <2> DEFINE task == IF r \in Checks THEN Query(r) ELSE Transaction(r)
    <2>1. task \in Task /\ task.by = r
        BY DEF Query, Transaction, Task
    <2>2. /\ Len(queue') = Len(queue) + 1
          /\ \A i \in 1..Len(queue) : queue'[i] = queue[i] /\ queue[i] \in Task
          /\ queue'[Len(queue) + 1] = task
        BY <1>3, <2>1 DEF Start
    <2>3. \A i \in 1..Len(queue) :
            queue[i].for = "transaction" => queue[i].by # r /\ stage'[queue[i].by] = "waiting"
        BY <1>3, <2>2 DEF Start, Task
    <2>4. stage'[r] = "waiting"
        BY <1>3 DEF Start
    <2>5. task.for = "transaction" => r \notin Checks
        BY DEF Query
    <2> HIDE DEF task
    <2> SUFFICES ASSUME NEW i \in 1..Len(queue'), NEW j \in 1..Len(queue'),
                        queue'[i].for = "transaction"
                 PROVE  /\ stage'[queue'[i].by] = "waiting"
                        /\ queue'[i].by \notin Checks
                        /\ (queue'[j].for = "transaction" /\ queue'[j].by = queue'[i].by => i = j)
        OBVIOUS
    <2>6. CASE i \in 1..Len(queue)
        <3>1. CASE j \in 1..Len(queue)
            BY <2>2, <2>3, <2>6, <3>1
        <3>2. CASE j = Len(queue) + 1
            BY <2>1, <2>2, <2>3, <2>6, <3>2
        <3> QED BY <2>2, <3>1, <3>2
    <2>7. CASE i = Len(queue) + 1
        <3>1. CASE j \in 1..Len(queue)
            BY <2>1, <2>2, <2>3, <2>4, <2>5, <2>7, <3>1
        <3>2. CASE j = Len(queue) + 1
            BY <2>1, <2>2, <2>4, <2>5, <2>7, <3>2
        <3> QED BY <2>2, <3>1, <3>2
    <2> QED BY <2>2, <2>6, <2>7
<1>4. ASSUME NEW r \in Requests, Timeout(r) PROVE QueuedOnce'
    <2>1. \A q \in Requests : q \notin Checks => stage'[q] = stage[q]
        BY <1>4 DEF Timeout
    <2>2. \A i \in 1..Len(queue) : queue[i].by \in Requests
        BY QueuedTasks
    <2>3. queue' = queue
        BY <1>4 DEF Timeout
    <2>4. \A i \in 1..Len(queue) :
            queue[i].for = "transaction" => stage'[queue[i].by] = "waiting"
        BY <2>1, <2>2
    <2>5. QueuedOnce
        BY DEF IInv
    <2> HIDE DEF IInv, TypeOK
    <2> QED BY ONLY <2>3, <2>4, <2>5 DEF QueuedOnce
<1>5. ASSUME NEW r \in Requests, Ask(r) PROVE QueuedOnce'
    <2>1. PICK n \in 1..left[r] : queue' = queue \o [i \in 1..n |-> Query(r)]
        BY <1>5 DEF Ask
    <2> DEFINE asked == [i \in 1..n |-> Query(r)]
    <2>2. n \in Nat
        OBVIOUS
    <2>3. asked \in Seq(Task) /\ Len(asked) = n /\ \A i \in 1..n : asked[i] = Query(r)
        BY <2>2, QueriesAreTasks
    <2> HIDE DEF asked
    <2>4. /\ Len(queue') = Len(queue) + n
          /\ \A i \in 1..Len(queue) : queue'[i] = queue[i]
          /\ \A i \in 1..Len(queue') : i \notin 1..Len(queue) => queue'[i] = Query(r)
        <3>1. queue' = queue \o asked
            BY <2>1 DEF asked
        <3>2. \A i \in 1..Len(queue) + Len(asked) :
                queue'[i] = IF i <= Len(queue) THEN queue[i] ELSE asked[i - Len(queue)]
            BY <2>3, <3>1, ConcatProperties
        <3>3. Len(queue') = Len(queue) + n
            <4>1. queue \in Seq(Task) /\ asked \in Seq(Task)
                BY <2>3
            <4>2. Len(queue \o asked) = Len(queue) + Len(asked)
                BY ONLY <4>1, ConcatProperties
            <4> QED BY <2>3, <3>1, <4>2
        <3>4. \A i \in 1..Len(queue') : i \notin 1..Len(queue) => i - Len(queue) \in 1..n
            BY <2>2, <3>3
        <3> QED BY <2>2, <2>3, <3>2, <3>3, <3>4
    <2>5. Query(r).for # "transaction"
        BY DEF Query
    <2>6. \A i \in 1..Len(queue') : queue'[i].for = "transaction" => i \in 1..Len(queue)
        BY <2>4, <2>5
    <2>7. stage' = stage
        BY <1>5 DEF Ask
    <2> SUFFICES ASSUME NEW i \in 1..Len(queue'), NEW j \in 1..Len(queue'),
                        queue'[i].for = "transaction"
                 PROVE  /\ stage'[queue'[i].by] = "waiting"
                        /\ queue'[i].by \notin Checks
                        /\ (queue'[j].for = "transaction" /\ queue'[j].by = queue'[i].by => i = j)
        OBVIOUS
    <2>8. i \in 1..Len(queue) /\ queue'[i] = queue[i]
        BY <2>4, <2>6
    <2>9. queue'[j].for = "transaction" => j \in 1..Len(queue) /\ queue'[j] = queue[j]
        BY <2>4, <2>6
    <2> QED BY <2>7, <2>8, <2>9
<1>6. ASSUME NEW r \in Requests,
             Fail(r) \/ Answer(r) \/ End(r) \/ CommitFails(r)
      PROVE  QueuedOnce'
    <2>1. queue' = queue /\ stage[r] # "waiting" /\ \A q \in Requests \ {r} : stage'[q] = stage[q]
        BY <1>6 DEF Fail, Answer, End, CommitFails
    <2>2. \A i \in 1..Len(queue) : queue[i].by \in Requests
        BY QueuedTasks
    <2>3. \A i \in 1..Len(queue) :
            queue[i].for = "transaction" => queue[i].by # r /\ stage'[queue[i].by] = "waiting"
        BY <2>1, <2>2
    <2>4. QueuedOnce
        BY DEF IInv
    <2> HIDE DEF IInv, TypeOK
    <2> QED BY ONLY <2>1, <2>3, <2>4 DEF QueuedOnce
<1>7. ASSUME NEW r \in Requests, SendLate(r) \/ StatementFails(r) PROVE QueuedOnce'
    <2>1. queue' = queue /\ stage' = stage
        BY <1>7 DEF SendLate, StatementFails
    <2>2. QueuedOnce
        BY DEF IInv
    <2> HIDE DEF IInv, TypeOK
    <2> QED BY ONLY <2>1, <2>2 DEF QueuedOnce
<1>8. CASE UNCHANGED vars
    <2>1. QueuedOnce /\ queue' = queue /\ stage' = stage
        BY <1>8 DEF vars, IInv
    <2> HIDE DEF IInv, TypeOK
    <2> QED BY ONLY <2>1 DEF QueuedOnce
<1> HIDE DEF IInv, TypeOK, QueuedOnce
<1> QED BY <1>1, <1>2, <1>3, <1>4, <1>5, <1>6, <1>7, <1>8 DEF Next

(* Every step leaves each connection to at most one transaction, whose     *)
(* request was given it and has not ended.                                 *)
LEMMA HeldStep == IInv /\ [Next]_vars => HeldByItsRequest'
<1> SUFFICES ASSUME IInv, [Next]_vars PROVE HeldByItsRequest'
    OBVIOUS
<1> USE DEF IInv, TypeOK, HeldByItsRequest
<1>0. \A c \in Connections : held[c].for = "transaction" => held[c].by \in Requests
    BY DEF Task, Free
<1>1. ASSUME NEW c \in Connections, Grant(c) PROVE HeldByItsRequest'
    <2>1. /\ Head(queue) = queue[1] /\ Head(queue) \in Task /\ 1 \in 1..Len(queue)
          /\ held' = [held EXCEPT ![c] = Head(queue)]
        BY <1>1 DEF Grant
    <2>2. Head(queue).by \in Requests
        BY <2>1 DEF Task
    <2>3. CASE Head(queue).for = "transaction"
        <3>1. stage[Head(queue).by] = "waiting"
            <4>1. \A i \in 1..Len(queue) :
                    queue[i].for = "transaction" => stage[queue[i].by] = "waiting"
                BY DEF QueuedOnce
            <4> QED BY <2>1, <2>3, <4>1
        <3>2. /\ client' = [client EXCEPT ![Head(queue).by] = c]
              /\ stage' = [stage EXCEPT ![Head(queue).by] = "working"]
            BY <1>1, <2>3 DEF Grant
        <3> QED BY <1>0, <2>1, <2>2, <3>1, <3>2
    <2>4. CASE Head(queue).for # "transaction"
        BY <1>1, <2>1, <2>4 DEF Grant
    <2> QED BY <2>3, <2>4
<1>2. ASSUME NEW c \in Connections, EndQuery(c) PROVE HeldByItsRequest'
    <2>1. /\ held' = [held EXCEPT ![c] = Free] /\ client' = client
          /\ \A r \in Requests : stage[r] # "waiting" => stage'[r] = stage[r]
        BY <1>2 DEF EndQuery
    <2>2. HeldByItsRequest /\ held \in [Connections -> Task \cup {Free}]
        BY DEF IInv, TypeOK
    <2> HIDE DEF IInv, TypeOK
    <2> QED BY ONLY <1>0, <2>1, <2>2 DEF HeldByItsRequest, Free
<1>3. ASSUME NEW r \in Requests, Start(r) \/ Timeout(r) PROVE HeldByItsRequest'
    <2>1. /\ held' = held /\ client' = client
          /\ stage[r] \in {"new", "waiting"}
          /\ \A q \in Requests \ {r} : stage'[q] = stage[q]
        BY <1>3 DEF Start, Timeout
    <2>2. HeldByItsRequest /\ held \in [Connections -> Task \cup {Free}]
        BY DEF IInv, TypeOK
    <2> HIDE DEF IInv, TypeOK
    <2> QED BY ONLY <1>0, <2>1, <2>2 DEF HeldByItsRequest
<1>4. ASSUME NEW r \in Requests, Fail(r) \/ End(r) \/ CommitFails(r) PROVE HeldByItsRequest'
    <2>1. /\ held' = [held EXCEPT ![client[r]] = Free] /\ client' = client
          /\ \A q \in Requests \ {r} : stage'[q] = stage[q]
        BY <1>4 DEF Fail, End, CommitFails, Released
    <2>2. HeldByItsRequest /\ held \in [Connections -> Task \cup {Free}]
          /\ client \in [Requests -> Connections \cup {None}]
        BY DEF IInv, TypeOK
    <2>3. \A c \in Connections : held'[c].for = "transaction" =>
            held'[c] = held[c] /\ c # client[r]
        BY ONLY <2>1, <2>2 DEF Free
    <2> HIDE DEF IInv, TypeOK
    <2> QED BY ONLY <1>0, <2>1, <2>2, <2>3 DEF HeldByItsRequest
<1>5. ASSUME NEW r \in Requests, Answer(r) PROVE HeldByItsRequest'
    BY <1>0, <1>5 DEF Answer
<1>6. ASSUME NEW r \in Requests, Ask(r) \/ SendLate(r) \/ StatementFails(r)
      PROVE  HeldByItsRequest'
    BY <1>6 DEF Ask, SendLate, StatementFails
<1>7. CASE UNCHANGED vars
    BY <1>7 DEF vars
<1> QED BY <1>1, <1>2, <1>3, <1>4, <1>5, <1>6, <1>7 DEF Next

(* Every step keeps queries outside a transaction to the lists.            *)
LEMMA AskStep == IInv /\ [Next]_vars => OnlyListsAsk'
<1> SUFFICES ASSUME IInv, [Next]_vars PROVE OnlyListsAsk'
    OBVIOUS
<1> USE DEF IInv, TypeOK, OnlyListsAsk
<1>1. ASSUME NEW c \in Connections, EndQuery(c) PROVE OnlyListsAsk'
    BY <1>1 DEF EndQuery
<1>2. ASSUME NEW r \in Requests, Ask(r) PROVE OnlyListsAsk'
    <2>1. PICK n \in 1..left[r] :
            /\ left' = [left EXCEPT ![r] = @ - n]
            /\ outstanding' = [outstanding EXCEPT ![r] = n]
        BY <1>2 DEF Ask
    <2>2. r \in Lists
        OBVIOUS
    <2> QED BY <2>1, <2>2
<1>3. ASSUME NEW r \in Requests, Fail(r) PROVE OnlyListsAsk'
    BY <1>3 DEF Fail
<1>4. ASSUME NEW c \in Connections, Grant(c) PROVE OnlyListsAsk'
    BY <1>4 DEF Grant
<1>5. ASSUME NEW r \in Requests,
             \/ Start(r) \/ Timeout(r) \/ SendLate(r) \/ StatementFails(r)
             \/ Answer(r) \/ End(r) \/ CommitFails(r)
      PROVE  OnlyListsAsk'
    BY <1>5 DEF Start, Timeout, SendLate, StatementFails, Answer, End, CommitFails
<1>6. CASE UNCHANGED vars
    BY <1>6 DEF vars
<1> QED BY <1>1, <1>2, <1>3, <1>4, <1>5, <1>6 DEF Next

(* The invariant is one.                                                   *)
THEOREM PoolInvariant == Spec => []IInv
<1>1. IInv /\ [Next]_vars => IInv'
    BY TypeStep, QueueStep, HeldStep, AskStep DEF IInv
<1> QED BY <1>1, InitInvariant, PTL DEF Spec
-----------------------------------------------------------------------------
(* A stuck pool has given each connection to a list of its own that waits  *)
(* for queries; with fewer of those, one would have two connections.       *)
LEMMA StuckNeedsLists == IInv => StuckOnlyByLists
<1> SUFFICES ASSUME IInv, Stuck PROVE Cardinality(Waiting) >= Cardinality(Connections)
    BY DEF StuckOnlyByLists
<1> DEFINE owner == [c \in Connections |-> held[c].by]
<1>1. \A c \in Connections : held[c].for = "transaction" /\ outstanding[held[c].by] > 0
    BY DEF Stuck
<1>2. \A c \in Connections : held[c].by \in Requests
    BY <1>1 DEF IInv, TypeOK, Task, Free
<1>3. \A c \in Connections : held[c].by \in Waiting
    BY <1>1, <1>2 DEF IInv, OnlyListsAsk, Waiting
<1>4. owner \in [Connections -> Waiting]
    BY <1>3
<1>5. IsFiniteSet(Waiting)
    <2>1. Waiting \subseteq Lists
        BY DEF Waiting
    <2> QED BY <2>1, PoolAssumption, FS_Subset
<1>6. Cardinality(Waiting) \in Nat /\ Cardinality(Connections) \in Nat
    BY <1>5, PoolAssumption, FS_CardinalityType
<1>7. ASSUME Cardinality(Waiting) < Cardinality(Connections) PROVE FALSE
    <2>1. PICK c \in Connections, d \in Connections : c # d /\ owner[c] = owner[d]
        <3> HIDE DEF owner
        <3> QED BY <1>4, <1>5, <1>7, PoolAssumption, FS_PigeonHole
    <2>2. client[held[c].by] = c /\ client[held[d].by] = d
        BY <1>1 DEF IInv, HeldByItsRequest
    <2> QED BY <2>1, <2>2
<1> QED BY <1>6, <1>7

(* The pool is stuck, whatever its size and however many requests there    *)
(* are, only when as many lists as connections wait for their queries.     *)
THEOREM PoolStuckOnlyByLists == Spec => []StuckOnlyByLists
<1> QED BY PoolInvariant, StuckNeedsLists, PTL

(* No connection is lost to a request that has ended, and none has two.    *)
THEOREM PoolKeepsConnections == Spec => []HeldByItsRequest
<1>1. IInv => HeldByItsRequest
    BY DEF IInv
<1> QED BY <1>1, PoolInvariant, PTL
=============================================================================
