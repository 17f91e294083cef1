------------------------ MODULE CategorisationStatus ------------------------
(***************************************************************************)
(* The statuses of a categorisation record and the transition table that   *)
(* guards them (server/utils/statusEnum.js), with the check every handler  *)
(* makes against that table (formService.validateStatusIfProvided).        *)
(*                                                                         *)
(* UNCATEGORISED and CANCELLED_RELEASE are in the enum but no statement of *)
(* the service ever writes them, so they are left out.                     *)
(***************************************************************************)

\* What the code reads as `undefined`: no visible record for the booking.
Undefined == "UNDEFINED"

\* The statuses of a categorisation that is under way (functionalHelpers.js,
\* inProgress; the same list is what a release deletes, formClient.js,
\* getPendingCategorisations).
InProgress == { "STARTED", "SECURITY_MANUAL", "SECURITY_AUTO",
                "SECURITY_FLAGGED", "SECURITY_BACK", "AWAITING_APPROVAL",
                "SUPERVISOR_BACK" }

Statuses == InProgress \cup { "APPROVED", "CANCELLED" }

\* statusEnum.js: the statuses from which each status may be entered.
Previous ==
    [ SECURITY_MANUAL   |-> { "STARTED", "SECURITY_AUTO", "SECURITY_FLAGGED",
                              "SECURITY_BACK", "SUPERVISOR_BACK" },
      SECURITY_AUTO     |-> { Undefined, "STARTED" },
      SECURITY_FLAGGED  |-> { Undefined, "STARTED", "SECURITY_AUTO" },
      SECURITY_BACK     |-> { "SECURITY_MANUAL", "SECURITY_AUTO",
                              "SECURITY_FLAGGED" },
      AWAITING_APPROVAL |-> { "STARTED", "SECURITY_BACK", "SUPERVISOR_BACK" },
      APPROVED          |-> { "AWAITING_APPROVAL" },
      STARTED           |-> { Undefined },
      SUPERVISOR_BACK   |-> { "AWAITING_APPROVAL" },
      CANCELLED         |-> InProgress ]

\* validateStatusIfProvided: a listed transition is allowed; a record already
\* in the proposed status answers false, so that the caller skips its write
\* and carries on; anything else throws.
Allowed(current, proposed) == current \in Previous[proposed]
Repeated(current, proposed) == ~Allowed(current, proposed) /\ current = proposed
Rejected(current, proposed) == ~Allowed(current, proposed) /\ current # proposed
=============================================================================
