----------------------------- MODULE MCFormPages -----------------------------
(***************************************************************************)
(* The pages of both kinds of categorisation for TLC: a first one in one   *)
(* tab, a recategorisation in one tab, with a return by the supervisor,    *)
(* and a recategorisation in two.  And the home page that leads to them,   *)
(* with filters (HomeFilter), for two prisoners.                           *)
(***************************************************************************)
EXTENDS CategoriserPages, HomeFilter, TLC

CONSTANTS
    p1, p2,        \* prisoners
    c1, c2, c3     \* records of the probation service

vars == <<pageVars, filterVars>>

\* No categorisation is made: the page is the home page.
Home ==
    /\ catType = "none" /\ NotInitial /\ NotRecat
    /\ person = "none" /\ doc = {} /\ status = "none" /\ message = FALSE
    /\ tabs = <<>> /\ submitted = {} /\ returns = 0

\* Of two prisoners, the first has two records.
OffenderOf == [c \in {c1, c2, c3} |-> IF c = c3 THEN p2 ELSE p1]

\* Nothing is known of the first prisoner, or what the filter `overdue` reads.
Plain == [fits |-> {}, manual |-> FALSE, due |-> FALSE,
          recall |-> "none", recallDue |-> FALSE]
Reviewed == { e \in Entry : /\ e.fits \in {{}, SearchFilters}
                            /\ e.recall = "none" => ~e.recallDue }
Listed(e) == [p \in Prisoners |-> IF p = p1 THEN e ELSE Plain]

\* The filters are chosen so that each kind of call is made, alone and beside
\* another.
HomeInit ==
    /\ \/ /\ filters \in { {}, {"reviewsAssignedToMe"},
                           {"noAdjudicationsInTheLastThreeMonths", "lowRosh"} }
          /\ development = TRUE /\ entry = Listed(Plain)
       \/ /\ filters = {"overdue", "lowRiskOfEscape"}
          /\ \E e \in Reviewed : entry = Listed(e)
          /\ development \in BOOLEAN
    /\ FilterInit

NotHome == filters = {} /\ development = TRUE /\ entry = Listed(Plain) /\ FilterInit

OpenTabs == Cardinality(DOMAIN tabs)

\* Bounds: the age of a woman changes no more than a list of categories, and
\* risks and a life sentence bear on the category of grown men; a first
\* categorisation in one tab; in two tabs, who is referred at once, and who has
\* two kinds of higher reviews.
Few ==
    /\ catType = "INITIAL" =>
          /\ OpenTabs = 1
          /\ person.women => ~person.young
          /\ person.women \/ person.young => live \subseteq {"crime", "alert"}
    /\ catType = "RECAT" =>
          /\ OpenTabs # 0
          /\ OpenTabs = 2 => person.current \in {"D", "I"}

Init ==
    \/ PagesInit /\ Few /\ NotHome
    \/ Home /\ HomeInit

\* Bounds: nothing that was made in two tabs is sent back, and it is of a man's
\* closed category.
Next ==
    \/ /\ PagesNext /\ UNCHANGED filterVars
       /\ OpenTabs = 2 =>
             /\ returns' = 0
             /\ "decision" \in DOMAIN doc' => doc'["decision"]["category"] \in {"B", "C"}
    \/ catType = "none" /\ FilterNext /\ UNCHANGED pageVars

Spec == Init /\ [][Next]_vars

\* The two tabs are alike, and so are the two records of one prisoner.
Symmetry == Permutations(Tabs) \cup Permutations({c1, c2})
=============================================================================
