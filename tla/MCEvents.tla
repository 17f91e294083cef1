------------------------------- MODULE MCEvents -------------------------------
(***************************************************************************)
(* The events of the prison system for TLC: the rows that they and the     *)
(* pages lock (LockOrder), of one prisoner or of two that are merged; and  *)
(* what their handlers do to one prisoner (PrisonerEvents), told in order  *)
(* or again and out of order.                                              *)
(***************************************************************************)
EXTENDS LockOrder, PrisonerEvents, TLC

VARIABLE part    \* setting: which of the four is at work

OneForAll(who) == who = [t \in Transactions |-> CHOOSE p \in Prisoners : TRUE]

PartInit ==
    /\ part \in {"rows", "merges", "in order", "in any order"}
    /\ Init
    /\ stored = [p \in Prisoners |-> [n \in Numbers |-> "none"]]
    /\ IF part = "merges" THEN \A t \in Transactions : other[t] # own[t]
       ELSE OneForAll(own) /\ OneForAll(other)
    /\ EventInit
    /\ again = (part = "in any order")

\* The kinds of transaction at work.  In rows a tasklist or a page that saves,
\* and one event at a time, which has lite_category for itself; where prisoners
\* are merged, two at a time, with one row in each table.
AtWork == IF part = "rows"
            THEN {"tasklistRecat", "save", "cancel", "release", "movement"}
            ELSE {"tasklistRecat", "cancel", "merge"}

AtOnce(kinds) ==
    IF part = "rows"
      THEN /\ ~ {"tasklistRecat", "save"} \subseteq {kinds[t] : t \in Transactions}
           /\ Cardinality({t \in Transactions : kinds[t] \in Events}) <= 1
      ELSE Cardinality({t \in Transactions : kinds[t] # None}) <= 2

\* Bounds of PrisonerEvents: in order, a longer history with two rows, or one and
\* a referral; out of order, a second referral.
FewEnough ==
    IF again THEN Len(rows) <= 1 /\ happened <= 2
    ELSE \A n \in PrisonerNumbers : Len(rows) + referral[n].raised <= 2

PartNext ==
    /\ \/ /\ part \in {"rows", "merges"} /\ Next
          /\ \A t \in Transactions : kind'[t] \in AtWork \cup {None}
          /\ AtOnce(kind')
          /\ \A t \in Transactions :
                IF part = "rows" THEN waits'[t].table # "lite_category"
                ELSE waits'[t].number <= 1
          /\ UNCHANGED eventVars
       \/ /\ part \in {"in order", "in any order"} /\ EventNext
          /\ FewEnough'
          /\ UNCHANGED vars
    /\ UNCHANGED part

PartSpec == PartInit /\ [][PartNext]_<<part, vars, eventVars>>

Symmetry == Permutations(Prisons) \cup Permutations(Transactions)
=============================================================================
