----------------------------- MODULE ConnectionPool -----------------------------
(***************************************************************************)
(* The pool of database connections and what requests do with it (db.js,   *)
(* asyncMiddlewareInDatabaseTransaction.js).  A request takes a connection *)
(* for its transaction and gives it back when its handler ends.  A request *)
(* that finds none free waits, first come first served and without limit.  *)
(*                                                                         *)
(* Three kinds of handler do not keep to their connection: a to do list    *)
(* asks the pool for another one per row and waits for it with its own in  *)
(* hand; a landing page waits for several branches at once, and one of     *)
(* them uses the connection only after NOMIS answers; and the cancellation *)
(* of a referral does not wait for its statement.                          *)
(***************************************************************************)
EXTENDS Naturals, Sequences, FiniteSets

CONSTANTS
    Requests,
    Connections,  \* of the pool
    Lists,        \* requests whose handler queries outside its transaction
    Branching,    \* requests whose handler has a branch that queries late
    Unawaited,    \* requests whose handler does not wait for its statement
    Checks,       \* health checks: one query and no transaction
    MaxQueries,   \* bound: queries of one list
    Faults        \* which of a handler, a statement and a COMMIT may fail

ASSUME RequestsAssumption ==
    /\ Lists \cup Branching \cup Unawaited \cup Checks \subseteq Requests
    /\ Checks \cap (Lists \cup Branching \cup Unawaited) = {}
ASSUME PoolAssumption == IsFiniteSet(Connections) /\ IsFiniteSet(Lists)
ASSUME MaxQueriesAssumption == MaxQueries \in Nat
ASSUME FaultsAssumption == Faults \subseteq {"handler", "statement", "commit"}

VARIABLES
    queue,        \* what waits for a connection, in order
    held,         \* by connection: what has it
    client,       \* by request: the connection its handler was given
    stage,        \* by request
    left,         \* by request: queries its handler has not sent yet
    outstanding,  \* by request: queries its handler waits for
    branch,       \* by request: its late branch
    aborted,      \* requests with a failed statement in their transaction
    answered,     \* requests whose page has been sent
    saved         \* requests whose transaction committed

vars == <<queue, held, client, stage, left, outstanding, branch, aborted, answered, saved>>

Task == [by : Requests, for : {"transaction", "query"}]
Free == [by |-> "nobody", for |-> "nothing"]
None == "none"
Transaction(r) == [by |-> r, for |-> "transaction"]
Query(r) == [by |-> r, for |-> "query"]
Ended == {"done", "failed"}

TypeOK ==
    /\ queue \in Seq(Task)
    /\ held \in [Connections -> Task \cup {Free}]
    /\ client \in [Requests -> Connections \cup {None}]
    /\ stage \in [Requests -> {"new", "waiting", "working", "answered"} \cup Ended]
    /\ left \in [Requests -> Nat]
    /\ outstanding \in [Requests -> Nat]
    /\ branch \in [Requests -> {"none", "open", "sent"}]
    /\ aborted \subseteq Requests
    /\ answered \subseteq Requests
    /\ saved \subseteq Requests

\* A slip: every handler queries outside its transaction.
MutantOutside(r) == 0..MaxQueries

\* How many queries the handler of a request sends outside its transaction.
Outside(r) == IF r \in Lists THEN 0..MaxQueries ELSE {0}

Init ==
    /\ queue = <<>>
    /\ held = [c \in Connections |-> Free]
    /\ client = [r \in Requests |-> None]
    /\ stage = [r \in Requests |-> "new"]
    /\ left \in [Requests -> 0..MaxQueries]
    /\ \A r \in Requests : left[r] \in Outside(r)
    /\ outstanding = [r \in Requests |-> 0]
    /\ branch = [r \in Requests |-> "none"]
    /\ aborted = {} /\ answered = {} /\ saved = {}
-----------------------------------------------------------------------------
(* The pool (pg). *)

\* A connection that is free goes to whatever has waited longest.
Grant(c) ==
    /\ queue # <<>> /\ held[c] = Free
    /\ LET task == Head(queue) IN
        /\ queue' = Tail(queue)
        /\ held' = [held EXCEPT ![c] = task]
        /\ IF task.for = "transaction"
           THEN /\ client' = [client EXCEPT ![task.by] = c]
                /\ stage' = [stage EXCEPT ![task.by] = "working"]
                /\ branch' = IF task.by \in Branching
                             THEN [branch EXCEPT ![task.by] = "open"] ELSE branch
           ELSE UNCHANGED <<client, stage, branch>>
    /\ UNCHANGED <<left, outstanding, aborted, answered, saved>>

\* A query outside a transaction ends and its connection goes back.
EndQuery(c) ==
    /\ held[c] # Free /\ held[c].for = "query"
    /\ held' = [held EXCEPT ![c] = Free]
    /\ LET r == held[c].by IN
        /\ stage' = IF r \in Checks /\ stage[r] = "waiting"
                    THEN [stage EXCEPT ![r] = "done"] ELSE stage
        /\ outstanding' = IF outstanding[r] > 0
                          THEN [outstanding EXCEPT ![r] = @ - 1] ELSE outstanding
    /\ UNCHANGED <<queue, client, left, branch, aborted, answered, saved>>
-----------------------------------------------------------------------------
(* Requests. *)

Start(r) ==
    /\ stage[r] = "new"
    /\ stage' = [stage EXCEPT ![r] = "waiting"]
    /\ queue' = Append(queue, IF r \in Checks THEN Query(r) ELSE Transaction(r))
    /\ UNCHANGED <<held, client, left, outstanding, branch, aborted, answered, saved>>

\* 30 seconds pass: the check answers that the database is down.  Its query still waits.
Timeout(r) ==
    /\ r \in Checks /\ stage[r] = "waiting"
    /\ stage' = [stage EXCEPT ![r] = "failed"]
    /\ UNCHANGED <<queue, held, client, left, outstanding, branch, aborted, answered, saved>>

\* The rows of a list are decorated at the same time, each with a query of its own.
Ask(r) ==
    /\ stage[r] = "working" /\ outstanding[r] = 0
    /\ \E n \in 1..left[r] :
        /\ left' = [left EXCEPT ![r] = @ - n]
        /\ outstanding' = [outstanding EXCEPT ![r] = n]
        /\ queue' = queue \o [i \in 1..n |-> Query(r)]
    /\ UNCHANGED <<held, client, stage, branch, aborted, answered, saved>>

\* NOMIS answers a branch, which sends its statement to the connection it was given.
SendLate(r) ==
    /\ branch[r] = "open"
    /\ branch' = [branch EXCEPT ![r] = "sent"]
    /\ UNCHANGED <<queue, held, client, stage, left, outstanding, aborted, answered, saved>>

\* Release of the connection of a request.
Released(r) == [held EXCEPT ![client[r]] = Free]

\* A slip: the connection is given back only on success.
MutantFail(r) ==
    /\ stage[r] = "working"
    /\ "handler" \in Faults
    /\ stage' = [stage EXCEPT ![r] = "failed"]
    /\ outstanding' = [outstanding EXCEPT ![r] = 0]
    /\ UNCHANGED <<queue, held, client, left, branch, aborted, answered, saved>>

\* The handler throws.  Nothing waits for what it left behind: neither the
\* queries that wait for a connection nor its branch.
Fail(r) ==
    /\ stage[r] = "working"
    /\ "handler" \in Faults
    /\ stage' = [stage EXCEPT ![r] = "failed"]
    /\ outstanding' = [outstanding EXCEPT ![r] = 0]
    /\ held' = Released(r)
    /\ UNCHANGED <<queue, client, left, branch, aborted, answered, saved>>

\* The statement that nobody waits for fails.
StatementFails(r) ==
    /\ r \in Unawaited /\ stage[r] \in {"working", "answered"}
    /\ "statement" \in Faults
    /\ aborted' = aborted \cup {r}
    /\ UNCHANGED <<queue, held, client, stage, left, outstanding, branch, answered, saved>>

\* The handler sends its page as its last step.
Answer(r) ==
    /\ stage[r] = "working"
    /\ left[r] = 0 /\ outstanding[r] = 0 /\ branch[r] # "open"
    /\ stage' = [stage EXCEPT ![r] = "answered"]
    /\ answered' = answered \cup {r}
    /\ UNCHANGED <<queue, held, client, left, outstanding, branch, aborted, saved>>

\* COMMIT, which PostgreSQL turns into a rollback after a failed statement
\* and answers without an error.
End(r) ==
    /\ stage[r] = "answered"
    /\ saved' = IF r \in aborted THEN saved ELSE saved \cup {r}
    /\ stage' = [stage EXCEPT ![r] = "done"]
    /\ held' = Released(r)
    /\ UNCHANGED <<queue, client, left, outstanding, branch, aborted, answered>>

CommitFails(r) ==
    /\ stage[r] = "answered"
    /\ "commit" \in Faults
    /\ stage' = [stage EXCEPT ![r] = "failed"]
    /\ held' = Released(r)
    /\ UNCHANGED <<queue, client, left, outstanding, branch, aborted, answered, saved>>
-----------------------------------------------------------------------------
Next ==
    \/ \E c \in Connections : Grant(c) \/ EndQuery(c)
    \/ \E r \in Requests :
        \/ Start(r) \/ Timeout(r) \/ Ask(r) \/ SendLate(r) \/ Fail(r)
        \/ StatementFails(r) \/ Answer(r) \/ End(r) \/ CommitFails(r)

Spec == Init /\ [][Next]_vars

\* The pool serves what waits, the database and NOMIS answer, and a handler
\* goes on when what it waits for has come.
Fairness ==
    /\ \A c \in Connections : WF_vars(Grant(c)) /\ WF_vars(EndQuery(c))
    /\ \A r \in Requests :
        WF_vars(Ask(r)) /\ WF_vars(SendLate(r)) /\ WF_vars(Answer(r)) /\ WF_vars(End(r))

FairSpec == Spec /\ Fairness
-----------------------------------------------------------------------------
(* A connection belongs to the request whose handler was given it, until   *)
(* the handler ends (doTransactional's finally): no request keeps one when *)
(* it has ended, and no request has two.                                   *)
HeldByItsRequest ==
    \A c \in Connections : held[c].for = "transaction" =>
        /\ client[held[c].by] = c
        /\ stage[held[c].by] \in {"working", "answered"}

\* Every connection is held by a transaction that waits for another connection.
Stuck ==
    \A c \in Connections : held[c].for = "transaction" /\ outstanding[held[c].by] > 0

\* The lists that wait for queries of their rows.
Waiting == {r \in Lists : outstanding[r] > 0}

(* Only lists can leave the pool stuck, and only as many of them as there  *)
(* are connections, one each: neither landing pages and cancellations, nor *)
(* fewer lists, nor what a failed list left behind (the calls outside the  *)
(* transaction in offendersService.js).                                    *)
StuckOnlyByLists == Stuck => Cardinality(Waiting) >= Cardinality(Connections)

(* Whatever starts comes to an end, for good, but for a pool that is stuck *)
(* for ever (it has no timeout, and a list waits for connections with one  *)
(* in hand).                                                               *)
EveryStartedEnds ==
    []<>~Stuck => <>[](\A r \in Requests : stage[r] \in {"new"} \cup Ended)

(* A statement of a handler never runs in the transaction of another       *)
(* request (README.md: "This app is transactional for Postgres database    *)
(* operations"; Promise.all in GET /${role}Landing/:bookingId).            *)
NotInAnothers ==
    [][\A r \in Requests :
        branch[r] = "open" /\ branch'[r] = "sent" =>
            held[client[r]] \in {Free, Transaction(r), Query(r)}]_vars

(* What a page says is done is saved once its request has ended (POST      *)
(* /securityLanding/cancel/:bookingId and doTransactional).                *)
AnsweredIsSaved == \A r \in answered : stage[r] \in Ended => r \in saved
=============================================================================
