------------------------------- MODULE DeadLetters -------------------------------
(***************************************************************************)
(* Events that could not be handled, and the job that brings them back     *)
(* (eventUtils.js, clearDeadLetterQueues.ts).  The consumer handles an     *)
(* event and then deletes its message; one that keeps failing goes to the  *)
(* dead letter queue.  Every six hours a job counts the messages there and *)
(* goes round once for each: it receives one, sends its body to the queue  *)
(* as a new message and deletes it.                                        *)
(*                                                                         *)
(* Nothing makes a step of the consumer or of the job atomic with the next *)
(* one: either may stop in between, and the message it had is seen again.  *)
(***************************************************************************)
EXTENDS Naturals, FiniteSets, FiniteSetsExt

CONSTANTS
    Events,       \* what NOMIS publishes
    Poison,       \* events that the handler always fails on
    MaxMessages,  \* bound: messages that exist at a time
    MaxTries,     \* how often a message is received before it is a dead letter
    MaxFaults     \* bound: failures that only happen sometimes

VARIABLES
    message,    \* by slot: a message, where it is, and how often it was received
    published,  \* events that have been published
    handled,    \* events whose transaction has committed
    job,        \* the job: where it is, the rounds it has left, and its message
    faults      \* how many failures there have been

vars == <<message, published, handled, job, faults>>

Slots == 1..MaxMessages
Nothing == 0
NoEvent == "none"
Gone == [event |-> NoEvent, at |-> "gone", tries |-> 0]
Places == {"queue", "consumer", "done", "dead", "job"}

TypeOK ==
    /\ \A s \in Slots : \/ message[s] = Gone
                        \/ message[s] \in [event : Events, at : Places, tries : 0..MaxTries]
    /\ DOMAIN message = Slots
    /\ published \subseteq Events
    /\ handled \subseteq published
    /\ job \in [step : {"idle", "receive", "send", "delete"},
                left : 0..MaxMessages, slot : Slots \cup {Nothing}]
    /\ faults \in 0..MaxFaults

Idle == [step |-> "idle", left |-> 0, slot |-> Nothing]

Init ==
    /\ message = [s \in Slots |-> Gone]
    /\ published = {} /\ handled = {}
    /\ job = Idle
    /\ faults = 0

At(place) == {s \in Slots : message[s].at = place}
FreeSlot == Min(At("gone"))
Fault == faults < MaxFaults /\ faults' = faults + 1
-----------------------------------------------------------------------------
(* The queue and its consumer. *)

Publish(e) ==
    /\ e \notin published
    /\ At("gone") # {}
    /\ message' = [message EXCEPT ![FreeSlot] = [event |-> e, at |-> "queue", tries |-> 0]]
    /\ published' = published \cup {e}
    /\ UNCHANGED <<handled, job, faults>>

Consume(s) ==
    /\ message[s].at = "queue"
    /\ At("consumer") \cup At("done") = {}
    /\ message' = [message EXCEPT ![s].at = "consumer", ![s].tries = @ + 1]
    /\ UNCHANGED <<published, handled, job, faults>>

Handled(s) ==
    /\ message[s].at = "consumer" /\ message[s].event \notin Poison
    /\ message' = [message EXCEPT ![s].at = "done"]
    /\ handled' = handled \cup {message[s].event}
    /\ UNCHANGED <<published, job, faults>>

Consumed(s) ==
    /\ message[s].at = "done"
    /\ message' = [message EXCEPT ![s] = Gone]
    /\ UNCHANGED <<published, handled, job, faults>>

\* A message that was not deleted: it is seen again, or has been often enough.
Back(s) == [message EXCEPT ![s].at = IF message[s].tries < MaxTries THEN "queue" ELSE "dead"]

\* The handler throws, every time or only now.
HandlerFails(s) ==
    /\ message[s].at = "consumer"
    /\ IF message[s].event \in Poison THEN UNCHANGED faults ELSE Fault
    /\ message' = Back(s)
    /\ UNCHANGED <<published, handled, job>>

\* The consumer stops after the transaction committed.
ConsumerStops(s) ==
    /\ message[s].at = "done"
    /\ Fault
    /\ message' = Back(s)
    /\ UNCHANGED <<published, handled, job>>
-----------------------------------------------------------------------------
(* The job. *)

\* The number of dead letters, which the queue knows only approximately.
StartJob ==
    /\ job.step = "idle"
    /\ LET count == Cardinality(At("dead")) IN
        /\ count > 0
        /\ job' = [step |-> "receive", left |-> count, slot |-> Nothing]
    /\ UNCHANGED <<message, published, handled, faults>>

\* The rounds left after this one.
Rounds == job.left - 1

NextRound == IF Rounds = 0 THEN Idle
             ELSE [step |-> "receive", left |-> Rounds, slot |-> Nothing]

Receive(s) ==
    /\ job.step = "receive" /\ message[s].at = "dead"
    /\ message' = [message EXCEPT ![s].at = "job"]
    /\ job' = [job EXCEPT !.step = "send", !.slot = s]
    /\ UNCHANGED <<published, handled, faults>>

\* No message comes though one may be there: the round is over.
ReceiveNothing ==
    /\ job.step = "receive"
    /\ At("dead") # {} => Fault
    /\ At("dead") = {} => UNCHANGED faults
    /\ job' = NextRound
    /\ UNCHANGED <<message, published, handled>>

\* A slip: the dead letter is deleted before its body is sent.
MutantSend ==
    /\ job.step = "send"
    /\ message' = [message EXCEPT ![job.slot] = Gone]
    /\ job' = [job EXCEPT !.step = "delete"]
    /\ UNCHANGED <<published, handled, faults>>

Send ==
    /\ job.step = "send"
    /\ At("gone") # {}
    /\ message' = [message EXCEPT ![FreeSlot] =
            [event |-> message[job.slot].event, at |-> "queue", tries |-> 0]]
    /\ job' = [job EXCEPT !.step = "delete"]
    /\ UNCHANGED <<published, handled, faults>>

Delete ==
    /\ job.step = "delete"
    /\ message' = [message EXCEPT ![job.slot] = Gone]
    /\ job' = NextRound
    /\ UNCHANGED <<published, handled, faults>>

\* A call fails, or the job is replaced by the next one: its message is seen again.
JobStops ==
    /\ job.step # "idle"
    /\ Fault
    /\ message' = [s \in Slots |->
            IF s = job.slot /\ message[s] # Gone THEN [message[s] EXCEPT !.at = "dead"]
            ELSE message[s]]
    /\ job' = Idle
    /\ UNCHANGED <<published, handled>>
-----------------------------------------------------------------------------
Next ==
    \/ \E e \in Events : Publish(e)
    \/ \E s \in Slots : \/ Consume(s) \/ Handled(s) \/ Consumed(s)
                        \/ HandlerFails(s) \/ ConsumerStops(s) \/ Receive(s)
    \/ StartJob \/ ReceiveNothing \/ Send \/ Delete \/ JobStops

Spec == Init /\ [][Next]_vars

\* The consumer goes on with what it has and gets to every message, and the
\* job runs again and again.
Fairness ==
    /\ \A s \in Slots :
        /\ SF_vars(Consume(s)) /\ SF_vars(Receive(s))
        /\ WF_vars(Handled(s)) /\ WF_vars(Consumed(s))
        /\ WF_vars(HandlerFails(s) /\ message[s].event \in Poison)
    /\ SF_vars(StartJob) /\ WF_vars(ReceiveNothing) /\ WF_vars(Send) /\ WF_vars(Delete)

FairSpec == Spec /\ Fairness
-----------------------------------------------------------------------------
(* A run of the job ends, though the messages it brings back may be dead   *)
(* letters again before it does (it counts them only once).                *)
JobEnds == job.step # "idle" ~> job.step = "idle"

(* An event that can be handled is handled in the end, however often the   *)
(* handler, the consumer and the job fail in between, and whatever poison  *)
(* goes round.                                                             *)
EveryEventHandled == \A e \in Events \ Poison : e \in published ~> e \in handled
=============================================================================
