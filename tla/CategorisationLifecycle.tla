----------------------- MODULE CategorisationLifecycle -----------------------
(***************************************************************************)
(* What the service promises about the categorisations of one booking,     *)
(* without requests, transactions or the external systems: a row is opened *)
(* only when no other is under way, it then moves along statusEnum.js, and *)
(* a release removes whatever is under way.                                *)
(***************************************************************************)
EXTENDS Naturals, CategorisationStatus

CONSTANT MaxSeq         \* number of rows, at least one

VARIABLE status         \* status of the row with each sequence number

Seqs == 1..MaxSeq

TypeOK == status \in [Seqs -> Statuses \cup {Undefined}]

Init == status = [s \in Seqs |-> Undefined]

\* The sequence number the next row gets: one above the highest in use.
IsNext(s) == /\ status[s] = Undefined
             /\ \A t \in Seqs : t > s => status[t] = Undefined
             /\ s = 1 \/ status[s - 1] # Undefined

\* A categorisation is opened: started, or referred to security at once.
Open(s) == /\ IsNext(s)
           /\ \A t \in Seqs : status[t] \notin InProgress
           /\ \E new \in {"STARTED", "SECURITY_AUTO", "SECURITY_FLAGGED"} :
                 status' = [status EXCEPT ![s] = new]

\* A categorisation moves along the transition table.
Move(s) == \E new \in Statuses :
              /\ status[s] # Undefined
              /\ Allowed(status[s], new)
              /\ status' = [status EXCEPT ![s] = new]

\* The prisoner is released: what is under way is deleted.
Release == status' = [s \in Seqs |-> IF status[s] \in InProgress
                                     THEN Undefined ELSE status[s]]

Next == (\E s \in Seqs : Open(s) \/ Move(s)) \/ Release

Spec == Init /\ [][Next]_status
=============================================================================
