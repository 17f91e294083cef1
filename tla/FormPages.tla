------------------------------ MODULE FormPages ------------------------------
(***************************************************************************)
(* The pages of the forms: what each asks, what a browser can send back,   *)
(* which of it is accepted and which of it is kept.                        *)
(*                                                                         *)
(* A body is a function from the names of the inputs that were sent to     *)
(* their values; a radio with no answer sends nothing, a text box always   *)
(* sends its text, blank or not, also where the page has hidden it.        *)
(* `Fields' are the rules of a page's configuration, by field; a `Screen'  *)
(* is what the page has to fill in.                                        *)
(***************************************************************************)
EXTENDS Sequences, Functions

YesNo == {"Yes", "No"}
Texts == {"", "text"}

Required == <<"required">>
Optional == <<"optional">>
RequiredIf(field, answer) == <<"if", field, answer>>
RequiredWithout(field) == <<"without", field>>

Sent(body, field) == field \in DOMAIN body
Is(body, field, answer) == Sent(body, field) /\ body[field] = answer
Given(body, field) == Sent(body, field) /\ body[field] # ""

Keep(body, fields) == Restrict(body, DOMAIN body \cap fields)
-----------------------------------------------------------------------------
(* What becomes of a body. *)

FieldValid(rule, body, field) ==
    CASE rule[1] = "required" -> Given(body, field)
      [] rule[1] = "if"       -> Is(body, rule[2], rule[3]) => Given(body, field)
      [] rule[1] = "without"  -> Sent(body, rule[2]) \/ Given(body, field)
      [] OTHER                -> TRUE

\* fieldValidation.validate of the fields that the page expects.
Valid(fields, body) ==
    \A field \in DOMAIN fields : FieldValid(fields[field], body, field)

\* What an answer makes irrelevant, and the texts that count as unsent when
\* they are blank.
Irrelevant ==
    { <<"securityInputNeeded", "No", {"securityInputNeededText"}>>,
      <<"escapeOtherEvidence", "No", {"escapeOtherEvidenceText"}>>,
      <<"escapeCatB", "No", {"escapeCatBText"}>>,
      <<"highRiskOfViolence", "No", {"highRiskOfViolenceText"}>>,
      <<"seriousThreat", "No", {"seriousThreatText"}>>,
      <<"categoryAppropriate", "Yes", {"overriddenCategory", "overriddenCategoryText"}>>,
      <<"furtherCharges", "No", {"furtherChargesCatB", "furtherChargesText"}>>,
      <<"previousConvictions", "No", {"previousConvictionsText"}>>,
      <<"previousTerrorismOffences", "No", {"previousTerrorismOffencesText"}>> }
Blank ==
    { <<field, "", {field}>> : field \in {"otherInformationText", "justification",
                                         "overriddenCategory", "overriddenCategoryText"} }
InitialConditions == Irrelevant \cup Blank

RecatConditions ==
    { <<"securityNoteNeeded", "No", {"securityInputNeededText"}>>,
      <<"transfer", "Yes", {"transferText"}>>,
      <<"oasysRelevantInfo", "No", {"oasysInputText"}>>,
      <<"bcstRelevantInfo", "No", {"bcstInputText"}>> }

Dropped(conditions, body) ==
    UNION {c[3] : c \in {d \in conditions : Is(body, d[1], d[2])}}

\* A slip: what an answer makes irrelevant stays.
MutantCleared(conditions, body) == body

\* clearConditionalFields.
Cleared(conditions, body) == Keep(body, DOMAIN body \ Dropped(conditions, body))

\* A slip: all that was sent is kept.
MutantKept(fields, body) == body

\* buildCategorisationForm: a page keeps the fields of its configuration, and
\* nothing of what it held before.
Kept(fields, body) == Keep(body, DOMAIN fields)
-----------------------------------------------------------------------------
(* What a browser can send. *)

NoHidden == [f \in {} |-> ""]
Screen(choices, texts, hidden) ==
    [choices |-> choices, texts |-> texts, hidden |-> hidden]

Filled(choices) ==
    { a \in UNION {[q -> UNION Range(choices)] : q \in SUBSET DOMAIN choices} :
        \A q \in DOMAIN a : a[q] \in choices[q] }

\* The answers of f, and those of g to what f leaves open.
Beside(f, g) ==
    [q \in DOMAIN f \cup DOMAIN g |-> IF q \in DOMAIN f THEN f[q] ELSE g[q]]

\* Every form sends its token besides.
Bodies(screen) ==
    { Beside(Beside(a, t), Beside(screen.hidden, [_csrf |-> "token"])) :
        a \in Filled(screen.choices), t \in [screen.texts -> Texts] }
-----------------------------------------------------------------------------
(* The document and the tabs. *)

\* The document d with the answers of a page in the place of what it had.
Stored(d, page, answers) ==
    [p \in DOMAIN d \cup {page} |-> IF p = page THEN answers ELSE d[p]]

Without(d, pages) == Restrict(d, DOMAIN d \ pages)
=============================================================================
