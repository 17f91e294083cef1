-------------------------- MODULE ConditionsStages --------------------------
(***************************************************************************)
(* What the rest of a categorisation relies on in its open conditions part *)
(* (tasklist.html, cancelOpenConditions): it is asked for, gone through    *)
(* from its first page to its last, and taken back as a whole.             *)
(* CategoryDecision uses it in this form.                                  *)
(***************************************************************************)
VARIABLES
    requested,    \* openConditionsRequested
    conditions    \* openConditions: how far the answers have come

vars == <<requested, conditions>>

Init == ~requested /\ conditions = "NONE"

Require == requested' = TRUE /\ UNCHANGED conditions

Begin == /\ requested /\ conditions = "NONE"
         /\ conditions' = "STARTED" /\ UNCHANGED requested

Complete == /\ requested /\ conditions = "STARTED"
            /\ conditions' = "COMPLETED" /\ UNCHANGED requested

Cancel == requested' = FALSE /\ conditions' = "NONE"

Next == Require \/ Begin \/ Complete \/ Cancel

Spec == Init /\ [][Next]_vars
=============================================================================
