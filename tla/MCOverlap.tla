------------------------------ MODULE MCOverlap ------------------------------
(***************************************************************************)
(* CategorisationFlow for TLC, two requests at a time, either of which may *)
(* fail.  Not every handler is at work in every behaviour: only those of   *)
(* one of three mixes.                                                     *)
(***************************************************************************)
EXTENDS CategorisationFlow, TLC

Mixes == { {"submit", "approve", "cancel", "tasklist", "cancelReferral"},
           {"submit", "approve", "tasklist", "release", "cancelReferral"},
           {"save", "submit", "approve", "tasklist", "raiseReferral", "cancelReferral"} }

MixInit == atWork \in Mixes /\ faulty = TRUE /\ Init

MixSpec == MixInit /\ [][Next]_vars

Symmetry == Permutations(Requests)
=============================================================================
