----------------------------- MODULE MCDecisions -----------------------------
(***************************************************************************)
(* What is decided about a prisoner, for TLC, one part in a behaviour: the *)
(* category (CategoryDecision), the next review (NextReview), another      *)
(* category (LiteCategory), and the document in which most of it is kept   *)
(* (FormUpdate).  The other parts stay as one of their initial states.     *)
(***************************************************************************)
EXTENDS CategoryDecision, LiteCategory, FormUpdate, NextReview, TLC

CONSTANTS
    t,         \* a tab
    r1, r2,    \* requests
    u1, u2     \* users

VARIABLE part

partVars == <<part, vars, liteVars, formVars, dateVars>>

\* Bounds: one category and three assessments when the pages are fresh, two and
\* two when they are not.
LiteBounds ==
    IF fresh THEN \A s \in DOMAIN assessments' : assessments'[s].category = "U"
             ELSE Len(assessments') <= 2

\* Bounds: one request after another, or three in two places.
FormBounds == IF overlap THEN posts' <= 3 ELSE ~Active(r2)'

PartInit ==
    /\ part \in {"category", "review", "lite", "form"}
    /\ Init /\ LiteInit /\ FormInit /\ DateInit
    /\ part # "category" => kind = "man" /\ ~young /\ ~ageing
    /\ part # "review" => review = None /\ risk = "NEW"
    /\ part # "lite" => fresh
    /\ part # "form" => ~overlap

PartNext ==
    /\ \/ /\ part = "category" /\ Next
          /\ UNCHANGED <<liteVars, formVars, dateVars>>
       \/ /\ part = "review" /\ DateNext
          /\ UNCHANGED <<vars, liteVars, formVars>>
       \/ /\ part = "lite" /\ LiteNext /\ LiteBounds
          /\ UNCHANGED <<vars, formVars, dateVars>>
       \/ /\ part = "form" /\ FormNext /\ FormBounds
          /\ UNCHANGED <<vars, liteVars, dateVars>>
    /\ UNCHANGED part

PartSpec == PartInit /\ [][PartNext]_partVars

Symmetry == Permutations({u1, u2})
-----------------------------------------------------------------------------
\* The types of every part: what the pages and handlers store keeps the shape
\* that those after them read (form.js, recat.js, liteCategories.js).
TypesOK == TypeOK /\ LiteTypeOK /\ FormTypeOK /\ DateTypeOK
=============================================================================
