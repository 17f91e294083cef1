------------------------ MODULE MCCategorisationFlow ------------------------
(***************************************************************************)
(* CategorisationFlow for TLC, one request at a time: in four settings,    *)
(* each with the handlers, the faults and the bounds its question needs.   *)
(* In the last the to do lists are read between the requests.              *)
(***************************************************************************)
EXTENDS ToDoLists

CONSTANT r

VARIABLE listed     \* whether the lists are read

Pages == {"save", "securityInput", "sendBack", "submit", "approve", "cancel",
          "tasklist", "tasklistRecat", "raiseReferral", "securityReview"}

\* Everything, of which any step may fail; no failure; no release, as one keeps
\* the referral as it is; and the lists, of what is done on pages that may change
\* a status.
Settings ==
    { [atWork |-> Ops, faulty |-> TRUE, listed |-> FALSE],
      [atWork |-> Pages \cup {"cancelReferral", "release"}, faulty |-> FALSE,
       listed |-> FALSE],
      [atWork |-> Pages \cup {"cancelReferral"}, faulty |-> TRUE, listed |-> FALSE],
      [atWork |-> Pages \ {"save"}, faulty |-> FALSE, listed |-> TRUE] }

\* Bound: no third row is begun while everything is at work, or lists are read.
FewRows ==
    atWork = Ops \/ listed =>
        ~(tx[r].step = "idle" /\ tx'[r].step = "open" /\ IsNext(rows, 3))

\* The same of everybody, where no list is read.
Unlisted == prisoner = [ [p \in DOMAIN prisoner |-> p = "others"]
                            EXCEPT !.leaving = "no" ]

\* Bound: what sets a prisoner apart is looked at one at a time; the age, the
\* remand and the release date bear on the lists of who has been categorised, the
\* sentence and another category on those of who has not.
Unlike ==
    /\ LET marks == <<prisoner.under21, prisoner.remand, prisoner.leaving # "no",
                      ~prisoner.sentenced, prisoner.other>>
       IN  \A i, j \in DOMAIN marks : marks[i] /\ marks[j] => i = j
    /\ prisoner.remand \/ prisoner.leaving # "no" => Categorised
    /\ prisoner.due => prisoner.sentenced /\ ~prisoner.other

\* Bound: lists are read, and what is known of the prisoner changes, between
\* requests.
Between == tx[r].step # "idle" => UNCHANGED <<prisoner, answer>>

SerialInit ==
    /\ \E s \in Settings :
          atWork = s.atWork /\ faulty = s.faulty /\ listed = s.listed
    /\ ListInit
    /\ IF listed THEN Unlike ELSE Unlisted

SerialNext ==
    /\ \/ ~listed /\ Next /\ UNCHANGED <<manual, reviewed, prisoner, answer>>
       \/ listed /\ ListNext /\ (prisoner' # prisoner => Unlike') /\ Between
    /\ FewRows
    /\ UNCHANGED listed

SerialSpec == SerialInit /\ [][SerialNext]_<<listVars, listed>>
=============================================================================
