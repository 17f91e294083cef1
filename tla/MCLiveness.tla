------------------------------ MODULE MCLiveness ------------------------------
(***************************************************************************)
(* Whatever waits, for TLC: a request for a connection (ConnectionPool);   *)
(* with a connection, for the rows of two handlers of one booking          *)
(* (CategorisationFlow); and an event in the dead letter queue             *)
(* (DeadLetters).                                                          *)
(***************************************************************************)
EXTENDS ConnectionPool

CONSTANTS
    r1, r2,   \* requests
    e1, e2,   \* events
    MaxCome   \* bound: requests that come to the pool

VARIABLES
    part,
    rows, referral, riskChange, nomis, approvedFor, tx,    \* CategorisationFlow
    atWork, faulty,
    message, published, handled, job, faults               \* DeadLetters

flowVars == <<rows, referral, riskChange, nomis, approvedFor, tx, atWork, faulty>>
letterVars == <<message, published, handled, job, faults>>

\* Two handlers, none of which fails.
Flow == INSTANCE CategorisationFlow WITH
    Requests <- {r1, r2}, MaxSeq <- 2, MaxNomis <- 1,
    Ops <- {"securityInput", "cancel", "tasklist", "release"}

\* An event that can be handled and one that never can, and one failure.
Letters == INSTANCE DeadLetters WITH
    Events <- {e1, e2}, Poison <- {e2}, MaxMessages <- 4, MaxTries <- 1, MaxFaults <- 1

WaitInit ==
    /\ Init
    /\ faulty = FALSE /\ atWork = {"securityInput", "cancel", "tasklist", "release"}
    /\ Flow!Init
    /\ Letters!Init
    /\ \/ /\ part = "pool"
          /\ \A p, q \in Lists : p # q => left[p] + left[q] = MaxQueries
          /\ left[CHOOSE p \in Lists : TRUE] > 0
       \/ part \in {"rows", "letters"} /\ \A r \in Requests : left[r] = 0

WaitNext ==
    /\ \/ part = "pool" /\ Next /\ UNCHANGED <<flowVars, letterVars>>
          /\ Cardinality({r \in Requests : stage'[r] # "new"}) <= MaxCome
       \/ part = "rows" /\ Flow!Next /\ UNCHANGED <<vars, letterVars>>
       \/ part = "letters" /\ Letters!Next /\ UNCHANGED <<vars, flowVars>>
    /\ UNCHANGED part

WaitSpec ==
    /\ WaitInit /\ [][WaitNext]_<<part, vars, flowVars, letterVars>>
    /\ \/ part = "pool" /\ Fairness
       \/ part = "rows" /\ Flow!Fairness
       \/ part = "letters" /\ Letters!Fairness

\* Every request ends: none waits for ever for a connection, nor for a row that
\* another holds (asyncMiddlewareInDatabaseTransaction.js).
EveryRequestEnds == EveryStartedEnds /\ Flow!EveryRequestEnds

\* An event that can be handled is handled in the end, whatever fails on the
\* way and whatever poison goes round (transferDlqEventMessages); and a run of
\* the job ends, though what it brings back may be dead letters again before it
\* does (clearDeadLetterQueues).
EveryEventHandled == Letters!EveryEventHandled /\ Letters!JobEnds
=============================================================================
