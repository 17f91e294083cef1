# Offender categorisation: a TLA+ development

The repository is the web application with which prison staff give a prisoner a
security category. A categoriser opens a *tasklist*, fills in pages, sends the
form to security when that is called for, and submits it; a supervisor approves
it or sends it back; NOMIS, the prison system of record, holds an *assessment*
that mirrors it. This directory models that process, model-checks it with TLC
and proves part of it with TLAPS. Paths below are relative to the repository
unless they name a module.

Contents: [inventory](#inventory), [hazards](#what-is-hard),
[modules](#modules-and-the-code-they-model), [runs](#runs),
[bounds](#bounds-and-why-they-are-enough), [fairness](#fairness),
[proofs](#proofs), [findings](#findings),
[other disagreements](#other-disagreements-the-models-show),
[what is left out](#not-modelled), [plan](#plan).

## Inventory

| Component | State | Operations | Talks to | Should hold |
|---|---|---|---|---|
| Status table (`utils/statusEnum.js`) | none | transition check | every handler that proposes a status | rows move only along the table |
| Categorisation flow (`formService.js`, `formClient.js`, `routes/form.js`, `recat.js`, `tasklist*.js`) | table `form`: one row per categorisation of a booking, numbered by `sequence_no`; only the highest that is not cancelled (`sequenceClause`) is ever current | open, save, refer to security, submit, send back, approve, cancel, delete on release | the database through one transaction per request; NOMIS inside that transaction | one categorisation under way; an approval stamp means NOMIS approved; the row names its own assessment; the category approved is the one decided |
| Transactions (`db.js`) | open transactions, row locks | BEGIN, statements, COMMIT, ROLLBACK | PostgreSQL, READ COMMITTED | a failed handler leaves no rows changed; every request ends |
| Connection pool (`db.js`, `pg`) | connections, what waits for one | connect, query, release | every handler, the health check | no connection is lost; nobody waits for ever |
| NOMIS calls (`offendersService.js`, `nomisClientBuilder.js`) | assessments of the booking: pending, approved, inactive | create, update, approve, reject, set inactive | Prison API over HTTP | no two rows share an assessment; the pending one is the one the current row names |
| Security referral (`formService.js`, `routes/home.js`) | table `security_referral`: one row per prisoner, NEW, REFERRED, COMPLETED, CANCELLED | raise, take up, complete, give back, cancel, move, merge | tasklists, approval, cancellation, events | a new referral is not left beside a categorisation under way; a completed one was approved |
| Risk change (`formClient.js`, `riskChange.js`) | table `risk_change`: at most one NEW row per prisoner | raised by an event, reviewed by a recat tasklist or from its page, moved, merged | events, tasklists, NOMIS | a change to be reviewed brings the review forward |
| Lite categorisation (`routes/liteCategories.js`) | table `lite_category` | propose, approve | NOMIS, tasklists | two people; not under way at the same time as a form |
| Form document (`formService.js`, `routes/form.js`, `recat.js`) | column `form_response` | build, merge and clear fields, each time reading and writing it whole | every page | what excludes each other is never kept together; a submission is complete |
| Open conditions (`openConditions.js`, its configuration and views) | part of the document | request, answer pages, find unsuitable, cancel | decisions, tasklist | an open category stands only with them completed |
| Suggested category (`formService.js`) | `risk_profile` | merge, compute | risk services | follows from answers and facts |
| Next review date (`routes/nextReviewDate.js`) | part of the document; table `next_review_change_history` | change inside or outside a tasklist | NOMIS, risk change | a recorded change is one NOMIS took |
| Event consumer (`sqsService.js`) | SQS queue | release, merge, movement between prisons | formService, offendersService in a transaction | work follows the prisoner; repeating a message does no harm |
| Dead letter transfer (`eventUtils.js`, `src/jobs`) | dead letter queue | count, receive, resend, delete | SQS | no event is lost; a run ends |
| To do lists and history (`offendersService.js`, `routes/home.js`) | none: merged reads | which list a prisoner is on, buttons, P-Nomis marks, done lists, landing pages | NOMIS, database | work begun is on one list; the button offered matches the row (both with exceptions, [below](#other-disagreements-the-models-show)) |
| Home page filters (`filter/homeFilter.ts`, `getPomMap`, risks and needs) | answers kept in memory and in redis | filter the list of those due, ask three services in batches, two side by side | allocation manager, NOMIS, probation and risk services | a page lists exactly those who pass the filters chosen |
| Validation and views (`fieldValidation.js`, `views/`) | none | accept or refuse a body, drop what is hidden, show a page | every page | a page can be answered; nothing hidden is kept (but one text) |
| Statistics, authentication, users, audit, alert and Pathfinder clients | none of their own | read, compute, forward | | |

A web handler runs in one transaction (`asyncMiddlewareInDatabaseTransaction`),
reads the current row, checks a transition, writes the row and, in most of the
interesting cases, calls NOMIS before the transaction commits. A queue message
runs the same way. The database is the only state that handlers share, apart from
NOMIS, which no rollback undoes.

## What is hard

`PROJECT.json` lists every hazard at its line with the properties that would
catch it. They fall into six groups.

* *Stale reads.* `formService.update` writes back the status it read at the start
  of the request; the NOMIS sequence number a submission uses is read before the
  row is locked; the row an `UPDATE` finds through `sequenceClause` is fixed
  when the statement begins; pages check when they are fetched and not when they
  are posted; the to do lists compare NOMIS's answer with rows read later; the
  filters of the home page work with answers kept for hours.
* *Check then act.* Opening a row, raising a referral and creating a lite
  categorisation look first and write afterwards, with nothing locked between;
  the document is read and written whole.
* *Two systems, one transaction.* The row is stamped before NOMIS is asked to
  approve; an assessment is created before its number is recorded; a
  cancellation deactivates the assessment before it checks anything; answers of
  NOMIS may be lost.
* *Locks and connections.* A release deletes several rows one by one; each
  statement of a page picks the current row of `form` again; a
  recategorisation tasklist and the events lock several tables in different
  orders; to do lists ask the pool for a second connection.
* *Delivery.* A message may come twice, late or out of order; the dead letter
  job may stop at any step.
* *Long routes.* A supervisor decides, returns and decides again; open
  conditions are answered, gone back to and cancelled; a form is complete by one
  field of each page.

## Modules and the code they model

| Module | Models |
|---|---|
| `CategorisationStatus` | `statusEnum.js` and `validateStatusIfProvided`: statuses, the table `Previous`, and the three outcomes `Allowed` (go on), `Repeated` (already there: skip the write and go on), `Rejected` (throw) |
| `CategorisationLifecycle` | abstract: what the service promises about the rows of a booking with no requests, transactions or NOMIS in sight |
| `CategorisationFlow` | the handlers that change a categorisation's status, its approval and its NOMIS number, statement by statement, and NOMIS itself |
| `ToDoLists` | the lists, tabs and landing pages over the states of `CategorisationFlow` (which it EXTENDS) |
| `HomeFilter` | the filters of the home page: batches of calls, two services side by side, answers that are kept |
| `PrisonerEvents` | movements, releases and merges, told by a queue, over all four tables of one prisoner |
| `LockOrder` | the order in which every kind of transaction locks rows of the four tables |
| `ConnectionPool` | waiting for a connection, and the handlers that do not keep to theirs |
| `DeadLetters` | the consumer, the dead letter queue and the job that empties it |
| `CategoryDecision` | the category, on the routes of the four kinds of categorisation, to NOMIS and to the outcome shown |
| `OpenConditions` | the open conditions pages, answers, paths and cancellations |
| `ConditionsStages` | abstract: the stages of the open conditions that the rest of a categorisation sees |
| `NextReview` | the next review date in NOMIS, in the form and in its history |
| `LiteCategory` | proposals outside the process, and a form as far as it meets them |
| `FormUpdate` | requests that read, change and write the document |
| `FormPages` | bodies, validation, what is dropped and what is kept |
| `InitialPages`, `RecatPages` | the tasklist and pages of the two kinds of categorisation (both EXTEND `FormPages`) |
| `CategoriserPages` | a categorisation of either kind with its pages: it instantiates the two over common variables, and states their properties |
| `MC...` | what TLC runs; each plays one setting of one or more modules in a behaviour |
| `...Proofs` | the theorems |

### `CategorisationFlow`

State:

* `rows[s]`: the committed row of table `form` with `sequence_no` s: its
  `status`, `cat_type`, `nomis_sequence_no` (0: none) and whether `approved_by`
  and `approval_date` are set. `NoRow` is the absence of a row.
* `referral`, `riskChange`: the status of the prisoner's rows in
  `security_referral` and `risk_change`.
* `nomis[k]`: the status of assessment k of the booking in NOMIS.
* `approvedFor[k]`: a history variable: the row for which NOMIS approved k. No
  action reads it.
* `tx[r]`: the request r: which handler, where it is, the values it has read and
  still uses (`status`, `seq`), the rows it has written and so locked (`held`,
  with contents `work`), the row its statement waits for (`target`), the
  assessment it has created (`made`), what it wrote to `security_referral`, and
  the rows a release has yet to delete.

`View(r)` is what a READ COMMITTED statement of r sees: its own writes over what
is committed at that moment. `IsCurrent` is `sequenceClause`; `IsNext` the
`max(sequence_no) + 1` of `create`. A statement that updates the current row is
two steps when the row is locked: `Block` fixes the row and, when the lock is
free, the statement's own action updates *that* row, cancelled or approved as it
may be by then, or nothing if it is gone. `BreakDeadlock` is PostgreSQL ending a
transaction on a cycle of waits. `Abort` is any failure at any point.

| Handler | Steps |
|---|---|
| save a page: `formService.update` | `SaveForm`, `UpdateForm` |
| security input page, answered Yes | `SecurityInput`, `UpdateForm`, `Reread`, `Refer` |
| submit: `categoriserDecision`, `createOrUpdateCategorisation` | `Submit`, `Reread`, `Decide`, `NomisSubmit`, `RecordNomisSeq` |
| supervisor sends back | `SendBack`, `UpdateForm`, `Reread`, `Back`, `NomisReject` |
| supervisor approves: `supervisorApproval`, `createSupervisorApproval` | `Approve`, `Stamp`, `NomisApprove` |
| cancel | `Cancel`, `NomisInactivate`, `Reread`, `CancelRow` |
| tasklists | `Tasklist` / `TasklistRecat`, `Open` or `OpenFails`, `ReadReferral`, `LiteInProgress`, `Flag` |
| security raises or cancels a referral | `RaiseReferral`; `CancelReferral` (one statement, not awaited) |
| release of the prisoner | `Release`, `Delete` |
| all of them | `Block`, `Commit`, `BreakDeadlock`, `Abort` |

A check that fails before anything is written changes nothing, so the first step
of a handler exists only where the check passes. Later refusals roll back.

### `ToDoLists`

Adds the review reason of each row (`manual`), what is known of the prisoner
(sentenced, on remand, due, leaving before the next review, with the release to
come or past, under 21, another approved category, others uncategorised in the
prison; courts and time change some of it, `StandingChanges`) and `answer`, the
assessments as NOMIS gave them to the list that is being made: `AskNomis` takes them, rows are read later. The
lists and marks are operators (`OnUncategorised`, `OnRecategorise`,
`OnUnapproved`, `OnReferred`, `ButtonStatus`, `RecatPnomis`, ...), each named for
the function it stands for; `OnTab` says which of them a tab of the home pages
shows. A list of recategorisations has two parts (`DueRecat`): those NOMIS answers
with (`DueInNomis`) and the manual ones in progress, added from the table alone, of
which the code knows no assessment status (`ListedStatus`); from both it drops who
is on remand, and who leaves before the next review unless kept
(`KeptThoughLeaving`). The lists of security read the *last* row of a booking, cancelled or not
(`sequenceClauseIncludeCancelled`), or the rows that security has stamped
(`reviewed`). A tasklist is opened from a list, or early from the landing page
(`OpenedFrom`), whose offer (`CategoriserOffered`, `RecategoriserOffered`,
`SecurityOffered`) depends on the kind and status of the current row.

### `HomeFilter`

One page after another, by one user, of one list. `entry` is what prisoner search
and the list say of each prisoner; `mine`, `charged` and `low` what the three
services would answer if asked now; `poms` and `scores` the answers that are kept,
with the hours left; `page` the page being made.

| Code | Actions |
|---|---|
| `getPomMap`, `getPomByOffenderNo` (`offendersService.js`), its LRU cache | `Ask`, `PomAnswer` |
| `filterListOfPrisoners` until it asks further | `FirstFilters` |
| adjudications, in batches | `HearingsAnswer` |
| probation search, then risk summaries in batches, with redis | `Match`, `ScoreAnswer` |
| the rest of `filterListOfPrisoners` | `Show` |
| any call fails, a date cannot be read | `CallFails` |
| time passes; what a service would say changes | `Hour`, `Change` |

`Batches`, `Calls` and `Answered` are `Promise.all` over a slice: a batch begins
when all of the one before has been answered.

### `PrisonerEvents`, `DeadLetters`

`PrisonerEvents` has the rows of `form`, `lite_category`, `security_referral` and
`risk_change` with the number and prison each is kept under, NOMIS's own view of
the prisoner, and the queue. What happens in NOMIS (`Admitted`, `Released`,
`Merged`) sends a message; users act with the number and prison that NOMIS gives at
that moment; `Handle` takes a message, does the whole handler
(`HandleMoved`, `HandleMerged`, `HandleReleased`) and may leave the message
there. `DeadLetters` follows messages through queue, consumer, dead letter queue
and job: `Receive`, `Send` and `Delete` are separate steps of the job and
`JobStops` may come between them.

### `ConnectionPool`, `LockOrder`

`ConnectionPool` has the first-come queue of the pool, what holds each connection
and the stage of each request. A list queries outside its transaction (`Ask`), a
landing page has a branch that sends its statement late (`SendLate`), the
cancellation of a referral does not wait for its statement (`StatementFails`).
`LockOrder` gives each kind of transaction the tables it writes and their order
(`Tables`, `Place`), with what is committed of the rows of `form` (`stored`). Each
statement of a page picks its row of `form` afresh (`Picks` is `sequenceClause`,
`NewRow` the number of `create`); an event goes through the rows it finds
(`Finds`). A transaction waits for the row it wants (`Want`) and locks it when it
is free (`Lock`), though it may have been cancelled meanwhile, or finds it deleted
(`Gone`). It commits, or fails (`Fail`): a statement or call failed, its new
number was taken, or PostgreSQL made it the victim of a deadlock.

### The document: `CategoryDecision`, `OpenConditions`, `FormUpdate`, pages

The document is too large for one module, so each takes the parts its questions
are about. `CategoryDecision` has every field that bears on the category and one
action per POST, from the categoriser's decision to the supervisor's
`FurtherInformation`. In it the open conditions are three stages;
`OpenConditions` has their pages, with the questions, `clearConditionalFields`,
the refusing answers and the links, and is shown to implement those stages
(`ConditionsStages`). `FormUpdate` has a document of eleven parts, and requests
as sequences of changes, each a read and a write of the whole document in one
transaction. `InitialPages` and `RecatPages` have the pages as a browser sees
them: `Bodies` are what it can send for a `Screen`, `Cleared` what
`clearConditionalFields` leaves, `Valid` what validation accepts, `Kept` what
`buildCategorisationForm` stores; a tab holds links and inputs that were
rendered earlier.

`NextReview` follows the date in five places (NOMIS's active and pending
assessment, the form in progress, the approved one before it, the change
history); a tab keeps the page it was shown. The supervisor's check of a risk
change (`OnCheck`, `PostRiskChange`) is part of it, because of the review that it
brings forward. `LiteCategory` has the table, NOMIS's assessments,
pages in front of users and the other form's status.

### What is assumed of what lies outside

* *PostgreSQL*: READ COMMITTED, row locks until the end of the transaction, the
  unique constraint on `(booking_id, sequence_no)`, deadlocks detected, and a
  COMMIT after a failed statement that is a rollback.
* *NOMIS*: an approval carries no sequence number and NOMIS approves the latest
  pending assessment, refusing when there is none; a rejection names a number
  and leaves that assessment pending; an update changes no status; setting
  inactive acts on all that are pending. A merge may copy an older active
  assessment above a pending one. This is how the service uses it; NOMIS
  itself is not in the repository, and `map` marks these as external.
* *offender-categorisation-api*: takes the security review and moves the row from
  a security status to `SECURITY_BACK` in one statement of its own.
* *SQS*: gives a message to one reader, gives it again when it was not deleted,
  and moves it to the dead letter queue when it was received often enough.
* *pg*: serves what waits for a connection in order, and without a timeout.
* In `CategorisationFlow` writes to `security_referral` and `risk_change` take
  effect at the commit. Nobody sees them earlier; waiting for the locks on those
  two tables is in `LockOrder`.
* One release is handled at a time: the consumer awaits each message.
* Pages that save outside a transaction (supervisor review, change of category
  type) commit statement by statement; their effect on a row is that of
  `SaveForm`.

## Runs

Seven runs pass. A passing run plays, in each behaviour, *one* of several
settings, chosen in the initial state and kept in variables that never change:
the part that is played (`part`, `journey`), or, in the modelling modules
themselves, what may happen in this behaviour: which handlers are called
(`atWork`) and whether one may fail (`faulty`), whether the prisoner turns 21
(`ageing`), whether messages come again and out of order (`again`), whether
requests overlap (`overlap`), whether pages and answers are
fresh (`fresh`). A property that needs such a condition states it, `fresh => ...`,
so that the run, which EXTENDS the module, and the theorem speak of one
definition. The modules keep the parts of a conjunction as definitions of their
own, whose comments say more.

### `serial` (`MCCategorisationFlow`, `Flow_serial.cfg`)

One request at a time. `Settings`: *any* (every handler, each may fail at any
step), *quiet* (nothing fails, three rows), *inside* (nobody is released, three
rows, failures), *lists* (the to do lists are read between requests of pages).

| Property | Says |
|---|---|
| `OneInProgress` | a booking has one categorisation under way |
| `ApprovalInStep` | stamp and status APPROVED agree (`StampMatchesStatus`), and the assessment an approved row names is the one approved for it, although the approval sends no number (`StampedOwnAssessment`) |
| `ReferralInStep` | a new referral never waits beside a categorisation under way (`NewReferralNotHeld`); where nobody is released (`"release" \notin atWork`), one that was taken up is held by a categorisation under way (`ReferredIsHeld`; a release does break that) |
| `AwaitingIsPending` | where nothing fails (`~faulty`), what awaits approval names the assessment NOMIS would approve (a failure after NOMIS has answered does break that) |
| `ListsInStep` | *lists*, where nothing fails and nobody is released (`Undisturbed`): nobody is on two lists (`OneList`), work begun here is on one but for what is `Lost` (`InProgressListed`; a recategorisation of a prisoner who is on remand or leaves before the next review), none of it is marked as made in P-Nomis (`NothingPnomis`), the button matches the row but for a manual review `ShownAsNew` (`ButtonMatches`), done list and history tell the same and an assessment has one row in it (`HistoryMatches`), the landing page offers what the row allows (`LandingMatches`), and what was referred is with security until it is reviewed, and in its done list after (`ReferralFollowed`) |
| `LifecycleSpec` | every setting: the rows implement `CategorisationLifecycle` |

### `overlap` (`MCOverlap`, `Flow_overlap.cfg`)

Two requests at every statement, each of which may fail, with one of three mixes
of handlers in a behaviour: submit, approve, tasklist with cancel; the same with
release; and save, submit, approve, tasklist with referrals raised and
cancelled. A recorded number exists in NOMIS (`RecordedInNomis`) and is on one
row only (`SequencesDiffer`), so the unique constraint on it never bites; a
stamp means NOMIS accepted an approval for that row (`StampedWasApproved`), and a
completed referral means some approval was accepted (`CompletedWasApproved`),
although both are written before NOMIS is asked; `TypeOK`.

### `events` (`MCEvents`, `Events_told.cfg`)

Parts: *rows* (three transactions lock rows of one prisoner, who begins with no
row and has two at most), *merges* (of two prisoners), *in order* (`~again`) and
*in any order* (`again`) (the messages of `PrisonerEvents`, told once in order, or
again and out of order). `DeadlockOfPages`: pages of users deadlock without an
event only where all of them wait for rows of `form`, one with another row of
`form` in hand. (That does happen, in *rows*: a page that waits for row 2 while
another cancels it locks it all the same; its next statement picks row 1, which a
third page has locked before there was a row 2, and that page waits for row 2.)
`DeadlockOfOneEvent`: one event deadlocks only
where there is a recategorisation tasklist, or a page between two rows of `form` like
that; a page with a row that a release wants, waiting for one that it has, is such
a case. `FollowsPrisoner` (`~again`): work in progress is at the prison
NOMIS has the prisoner in, and nothing unapproved is left of who was released.
`MergeWhole`: after a merge nothing is left under the removed number and a
pending assessment is on top again, also when the merge is told twice.

### `liveness` (`MCLiveness`, `Liveness.cfg`)

Whatever waits. Parts: *pool*, *rows*, *letters*. `HeldByItsRequest`: a connection
belongs to the request that was given it and has not ended, whatever fails.
`StuckOnlyByLists`: the pool is stuck, every connection held by a transaction that
waits for another one, only when as many lists as there are connections wait for
queries of their rows; in *pool* there are, and it does get stuck.
`EveryRequestEnds`: every request that asks for a connection ends, unless the pool
is stuck for ever, and every request that waits for rows ends, as PostgreSQL breaks
the deadlock of a release with a page.
`EveryEventHandled`: an event that can be handled is handled in the end, and the
dead letter job ends although one event always fails (`JobEnds`).

### `conditions` (`OpenConditions`, `Conditions.cfg`)

All four kinds of categorisation, the pages in any order, with Back and Change.
`AnswersRuleOut`: an answer that rules open conditions out is never kept, and
they are ruled out only by an answer to a question that was shown.
`CompletedIsWhole`: when the last page is answered, so are all.
`ReferredKnowingly`: who does not leave pages half way submits what is not
recommended only after saying so. `StagesSpec`: refinement of `ConditionsStages`.

### `decisions` (`MCDecisions`, `Decisions.cfg`)

| Property | Part | Says |
|---|---|---|
| `TypesOK` | each | the types of all four modules |
| `CategoryInStep` | category | the category to be approved is the one NOMIS was sent (`AwaitingMatchesNomis`), the outcome shown the one approved (`ApprovedMatchesForm`), a security review belongs to its decision (`HigherReviewMatches`); the first only of a prisoner who does not turn 21 meanwhile |
| `OpenHasConditions` | category | an open category is submitted or approved with open conditions completed, also of one who turns 21 (all kinds but a woman's initial categorisation: see the findings) |
| `DateInStep` | review | the date is in the section of the form's own type; a recorded change is one NOMIS took |
| `ReviewedSoon` | review | a risk change that is to be reviewed brings the review forward |
| `FourEyesWhenFresh` | lite | nobody approves a proposal of their own |
| `LiteOrForm` | lite | with fresh pages a proposal and a form are never in progress together, a form's approval is of its own assessment, every listed proposal can be approved |
| `LiteApproved` | lite | a row is approved only if NOMIS approved it, also with stale pages and lost answers; with fresh ones, who is told that P-Nomis was first is told the truth |
| `AnswersKept` | form | when requests do not overlap, every request that succeeded has had all its effects, in order |
| `DocumentWhole` | form | also when requests overlap: of two answers that exclude each other one is kept; an open decision has its conditions asked for; the text of a changed category is only beside its decision |

### `pages` (`MCFormPages`, `Pages.cfg`)

`CategoriserPages` beside `HomeFilter`. Journeys: *initial* (one tab, a return,
a fact that changes), *recat* (one tab, with a return; or two tabs, for those
whose current category is D or I, who get another closed category and are not sent
back), *home* (the filters
of the home page). `SubmittedWhole`: a
submission has every page its tasklist asks for, complete. `NothingLeftOver`:
nothing is kept that a page had hidden, but for the text about other relevant
information of a recategorisation (`RecatHidden`), and no review whose decision
changed.
`Answerable`: every page shown can be answered so that it is saved.
`SuggestionFollows`: the suggested category follows from the answers and the
facts shown. `SecurityReviewed`: no recategorisation is submitted that
security has not reviewed. `ShownAreWanted` (*home*): a page that is made from
answers of four services, some of them kept, lists exactly those who pass every
filter chosen, of those whose answers have not changed for as long as they are
kept (`Settled` of `HomeFilter`, which also excepts two cases in which the code
has two readings of "overdue", see below). `PagesTypeOK`.

### Runs that find a violation

`stale_status`, `open_race`, `decision_unsuitable`, `lite_same_user`,
`recat_higher` show where the code does not do what it, its pages or its tests
say: see [findings](#findings).

Every property of a passing run has a mutant in `PROJECT.json`: the operators
`Mutant...`, each written before the operator it would replace, are slips of the
kind a change to the code could make, and TLC finds the property violated with
each.

### Bounds and why they are enough

* *Rows and assessments* (`MaxSeq`, `MaxNomis`). Two rows are needed for anything
  about a second categorisation: a cancelled or approved one with its successor.
  *quiet* and *inside*, where states are fewer, have three. Two assessments let
  an orphan and its successor exist together. Past the bound an insert or a
  creation fails, which the code may meet anyway.
* *Requests*. Two give every pairwise race. A cycle of waits between three
  is in `LockOrder`, which has three transactions and two rows a table. In *rows*
  there is one event at a time, a tasklist or a page that saves but not both, and no
  `lite_category`, which no other transaction at work writes; where prisoners are
  merged, two transactions at a time and one row a table. `BreakDeadlock` is
  written for any number and the theorems hold for any number of either.
* *Lists*. What sets a prisoner apart (age, remand, release date, sentence,
  another category: `Unlike`) is looked at one at a time, remand and release date
  once there has been a categorisation, as they bear on recategorisations only; all
  of it changes, and lists are read, between requests (`Between`). The theorems
  have all combinations, at any time.
* *Mixes of handlers* in `overlap` and `liveness`: those that touch the state the
  properties relate, or that lock more than one row; the theorems cover all
  handlers at once.
* *Failures*. `faulty` is FALSE where a property is about what the code does when
  nothing fails, and where failing would trivially end a request. One failure
  (`MaxFaults`) stops the consumer, the handler or the job once at any step;
  poison fails every time besides.
* *Events*: three things happen to a prisoner in order (with two rows, or a row and
  a referral), or two in any order: a message can be handled before, after and
  again after another one.
* *Pool*: two connections and two lists, with two rows between them: the smallest
  pool in which a list can wait for one query, for two, or with the other list for
  ever; a page with a late branch and an unawaited statement; a health check. Three
  of the four come (`MaxCome`).
* *Days* (`LastDay`, `Year`, `Soon`): two days, a year of two, and one business
  day for ten: dates before, at and after the limit.
* *Pages*: `Varied` pages are filled in in every way, the others with the shortest
  input that is accepted; a page's own rules do not depend on the others. One
  return by the supervisor reaches every page in every status.
* *Filters*: two prisoners, one of whom has two records of the probation service
  (one record is enough to be low risk), and the other one record; the filters
  that ask another service and `overdue`, in every combination that the journey's
  `HomeInit` chooses. With `Batch` 2 in place of the code's 15 and 50, three records
  take two batches. `PomHours` is 2 and `RiskHours` 1, so that an answer may be
  kept beside a younger one; the code's are four hours and 1000 times as many.
* *Posts* (`MaxPosts`): four in sequence; three with two overlapping, so that one
  ends and another begins while a third is under way.
* *Proposals* (`MaxSeq`, `Chosen` in `LiteCategory`): three assessments with one
  category, or two with two: who acts, or which category.

Symmetry is used for safety only, never in `liveness`. Deadlock is checked in
`serial`, `overlap` and `conditions`; the other runs end: a categorisation is approved, events have all happened, or a
bound is reached. (In `liveness` all requests may have ended, or the pool be
stuck; there `StuckOnlyByLists` and the liveness properties are what matters.)

### Fairness

* `CategorisationFlow`: `SF_vars(Step(r))` for each request: a request in flight
  that is able to go on again and again does go on. Calls to NOMIS have
  timeouts (`nomisClientBuilder.js`), a handler is one chain of awaits, and
  PostgreSQL hands a locked row to those waiting in turn and breaks deadlocks.
  Weak fairness would not do: while a request waits for a row, others may take
  and free it repeatedly, which enables and disables its step.
* `ConnectionPool`: weak fairness of the pool's grants, of queries, and of a handler
  that has what it waits for. The pool serves in order, so that weak fairness is
  enough.
* `DeadLetters`: the consumer gets to every message (strong: it takes one at a
  time), goes on with the one it has (weak), and the job, started every six
  hours, runs again and again (strong: dead letters come and go).

Nothing obliges users to call a handler, a handler to fail or succeed, or an event
to happen.

## Proofs

| Theorem | Says | Assumes |
|---|---|---|
| `CategorisationFlowProofs`: `TypeCorrect` | `Spec => []TypeOK` | rows and assessments are bounded by numbers above zero; any requests, any handlers, with or without failures |
| `RecordedNumbersExist` | `Spec => []RecordedInNomis` | the same |
| `RecordedNumbersDiffer` | `Spec => []SequencesDiffer` | the same |
| `StampsAreApproved` | `Spec => []StampedWasApproved` | the same |
| `CompletionsAreApproved` | `Spec => []CompletedWasApproved` | the same |
| `OneUnderWayAlways` | `Spec => []OneInProgress` | the same, and `OneAtATime` |
| `ApprovalsInStep` | `Spec => []ApprovalInStep` | the same |
| `ReferralsInStep` | `Spec => []ReferralInStep` | the same |
| `AwaitingStaysPending` | `Spec => []AwaitingIsPending` | the same |
| `ImplementsLifecycle` | `Spec => LifecycleSpec` | the same |
| `ListsAgree` | `ListSpec => []ListsConsistent` | the same |
| `WorkIsListed` | `ListSpec => []ListsInStep` | and `Crowded`, `~StalePages` |
| `ConnectionPoolProofs`: `PoolKeepsConnections` | `Spec => []HeldByItsRequest` | finite pool, any requests and failures |
| `PoolStuckOnlyByLists` | `Spec => []StuckOnlyByLists` | the same: any number of lists, more than connections too |
| `EventProofs`: `PagesDeadlockOnForm` | `Spec => []DeadlockOfPages` | any transactions, prisoners, rows and committed rows |
| `OneEventDeadlocks` | `Spec => []DeadlockOfOneEvent` | the same |
| `EventProofs`: `MergeLeavesNothing` | `EventSpec => []MergeWhole` | any prisons, any bounds on rows, referrals and events; messages in any order and any number of times |
| `TablesFollowPrisoner` | `EventSpec => []FollowsPrisoner` | the same |
| `CategoryProofs`: `ApprovedIsShown` | `Spec => []ApprovedMatchesForm` | any of the four routes, with or without a 21st birthday |
| `CategoryKeptInStep` | `Spec => []CategoryInStep` | the same |
| `OpenCategoriesHaveConditions` | `Spec => []OpenHasConditions` | the same |
| `CategoryProofs`: `TableFollowsNomis` | `LiteSpec => []LiteApproved` | any users, any bound; pages may be stale and answers lost |
| `ProposalOrForm` | `LiteSpec => []LiteOrForm` | the same |
| `NobodyApprovesTheirOwn` | `LiteSpec => []FourEyesWhenFresh` | the same |
| `FormProofs`: `TheDocumentIsWhole` | `FormSpec => []DocumentWhole` | any requests, any overlap, any bound on the posts |
| `NoAnswerIsLost` | `FormSpec => []AnswersKept` | the same |
| `FormProofs`: `DatesInStep` | `DateSpec => []DateInStep` | any days and any number of changes, failures included; and `OneTab` |
| `ReviewsComeSoon` | `DateSpec => ReviewedSoon` (an action property) | the same, with any number of tabs |
| `OpenConditionsProofs`: `AnswersDecide` | `Spec => []AnswersRuleOut` | nothing: the pages are fixed |
| `TheLastPageIsAll` | `Spec => []CompletedIsWhole` | nothing |
| `SubmittedKnowingly` | `Spec => []ReferredKnowingly` | nothing |
| `ImplementsStages` | `Spec => StagesSpec` | nothing |
| `HomeFilterProofs`: `FiltersTyped` | `FilterSpec => []FilterTypeOK` | any prisoners, records, batches and hours above zero; any filters |
| `FiltersShowTheWanted` | `FilterSpec => []ShownAreWanted` | the same |
| `PagesProofs`: `PagesTyped` | `PagesSpec => []PagesTypeOK` | any tabs, changes, varied pages and returns |
| `NothingHiddenIsLeft` | `PagesSpec => []NothingLeftOver` | the same |
| `SecurityIsAsked` | `PagesSpec => []SecurityReviewed` | the same |
| `PagesCanBeAnswered` | `PagesSpec => []Answerable` | the same, and `Settled` |
| `WholeIsSubmitted` | `PagesSpec => []SubmittedWhole` | the same, and `Settled` |
| `SuggestionIsFollowed` | `PagesSpec => []SuggestionFollows` | the same, `Settled` and `Lasting` |

Six hypotheses of theorems go beyond that: `OneAtATime` (`Requests` has one
element at most), `OneTab` of `NextReview` (so has its `Tabs`), of what may
change while a first categorisation is made, `Settled` of `PagesProofs` (no transfer between an
estate for men and one for women) and `Lasting` (no life sentence is lifted), and,
of `ToDoLists`, `Crowded` (NOMIS has others uncategorised in the prison) and
`~StalePages` (no page is answered that would now be refused). The
other conditions are in the properties themselves; in `CategoriserPages`, `OneTab`
is one of those. Each is one the property needs, as `overlap`, another setting
of a run or a finding shows: two overlapping tasklists do open two rows
(`open_race`), and a stamp and a status can be committed apart (`stale_status`);
a date page left open in another tab writes into the form that has come since,
whatever its type; a cancellation that fails leaves a row awaiting approval
without its assessment (`~faulty`); a woman's decision outlives the open
conditions it asked for (`kind # "woman"`, `decision_unsuitable`); a birthday
takes a category back without telling NOMIS (`~ageing`); from an old page a
proposer does approve the proposal (`fresh`, `lite_same_user`); requests that
overlap do overwrite each other's answers (`~overlap`); a list that NOMIS has
nobody for ends early, and a stale page takes work off it, which is why
`WorkIsListed` has two conditions that `ListsAgree` has not; the pages of the other
estate are not asked for again after a transfer, and the risk profile only ever
adds a life sentence (see [below](#other-disagreements-the-models-show)).

The constants are assumed to be as the modules declare (`MaxSeqAssumption`,
`LiteAssumption`, `FormAssumption`, `PoolAssumption`, ...): bounds are numbers, and
the names `"nobody"` and `"no request"` are not those of a user or a request.

### `CategorisationFlowProofs`

None of the four invariants is inductive, because a commit makes true at once
what a request has been preparing. `IInv` adds what the preparation may be:

* `Accounted(tx[r])`: the number on an uncommitted row is the committed one or
  that of the assessment the request created; a stamp on it has been accepted
  by NOMIS unless the request is just about to ask; an assessment created is in
  NOMIS, on no committed row, on one row of the request at most, and after it is
  written the request only commits; a referral to be completed belongs to an
  approval that is about to be asked for or was accepted.
* `Apart(tx[q], tx[r])`: two requests hold no row in common and have not created
  the same assessment. Locks make it so, and NOMIS numbering.
* `CreditIsApproved`: only approved assessments are credited to rows. An
  approved assessment never changes again, which is why an accepted approval
  outlives everything else that happens.

The proof of `IInv /\ [Next]_vars => IInv'` has a lemma for each kind of effect
rather than one per action: a step that changes only the request's own state
(`OwnStep`), one that writes a row (`WriteStep`, `StatusStep`), a rollback
(`RollbackStep`), a wait (`BlockStep`), the NOMIS calls (`CallStep`, `SubmitStep`,
`ApproveStep`, `InactivateStep`), a commit (`CommitStep`) and what happens outside
any request (`OutsideStep`). `NextIInv` has one case per action.

### `CategorisationFlowProofs`: requests that do not overlap

Between the read of a handler and its commit the properties are promises about
what the commit will do. `SerialInv` says that the committed table is sound
(`TableSound`, `ReferralSound`: what is under way is the current row, a stamped
row names the assessment approved for it, what NOMIS would approve next backs
the row under way), that NOMIS numbers densely, and, of the one request that is
not idle, `Prepared`: by handler and step, what it has read still holds and what
it has written makes the commit leave a sound table, one step of the life cycle
on (`Ready`, `Follows`). `NextSerial` has a lemma for every kind of step;
`LifecycleStep` maps `Follows` to a step of `CategorisationLifecycle`.
`OneInProgress` alone is not inductive: that a tasklist opens no second row
depends on what it read before it wrote.

### `CategorisationFlowProofs`: the to do lists

The lists compare two sources, and a request tells NOMIS before it commits, so
that the two agree only between requests. Two invariants, on top of `IInv` and
`SerialInv`, carry the agreement across a request:

* `ForeseenInv`, where nothing fails and nobody is released (`Undisturbed`): an
  assessment that is pending is that of a row under way which has been submitted
  (`Holds`), an approved one is that of an approved row (`Credits`), and what is
  pending is the younger (`PendingLast`, which makes the latest assessment, the
  one the lists look at, the pending one). Between the call and the commit the
  table is behind: `Foreseen` says of the request in flight that what it leaves
  makes up for it, and that it leaves either nothing new, a row opened while
  nothing was pending (`OpensRow`), or the row under way moved on (`MovesRow`).
* `ListInv`: what is under way is the last row, was opened from a list that still
  has the prisoner, or early (`FromItsList`), and a referral that it took up is
  with security or has been reviewed. A row is opened by a commit, from a list
  that was read before: that nothing was pending then (`OpensRow`) is what ties
  the category history of NOMIS to the approved rows (`CategorisedHere`).

`NextForeseen` and `NextListInv` go through the steps; `LatestIs` and
`CurrentUnderWay` say what the lookups of the lists return; `QuietLists` and
`BusyLists` draw the conclusions, while nothing is under way and while a row is.
`ListsConsistent` is `ListsInStep` but for `InProgressListed`, which alone needs
`Crowded` and `~StalePages`. Remand and release dates change at any time: they can
take work off a list (`Lost`), but nothing onto a second one or under another
button. A referral raised when a manual review began, of a prisoner NOMIS does not
list, is the one case in which the button is not that of the row (`ShownAsNew`); the
exceptions are in the properties, so that the theorems say them too.

### `ConnectionPoolProofs`

`HeldByItsRequest` is inductive together with `QueuedOnce` (who waits for a
transaction's connection waits once and has none) and `OnlyListsAsk` (only lists
query outside their transaction). From these `StuckOnlyByLists` follows by the
pigeonhole principle: in a stuck pool each connection is held by a request that
waits for queries, which is a list, and no list has two. Nothing bounds the lists
at work, and the theorem assumes nothing of their number.

### `EventProofs`

*Locks.* `LockInv` says that a transaction waits for the row it has got to in its
order and holds only rows that come before it, except among several rows of one
table. In a deadlock of pages, who waits for the last table waits for a
transaction that has nothing left to wait for, so nobody waits for it; then nobody
waits for the table before, and so on, until only `form` is left
(`PagesOnForm`): there a page may have one row and want another, and the one
that is waited for does. With one event, no recategorisation tasklist and no page
between two rows the same argument holds to the end: only the event could wait for
a row of the table it is at, and it does not wait for itself. Which row a statement
picks matters for what can happen and not for these two bounds, so that the
invariant says nothing of `stored`.

*Merges.* `MergeInv` follows the numbers through a merge: until NOMIS merges
them everything, the queue included, has the removed one (`BeforeMerge`); from
then on the merge has been handled or is still in the queue (`MergeTold`); once
it has been handled nothing has the removed number, and nothing can get it
again, because users work with the number NOMIS gives (`AfterMerge`). What is
pending in NOMIS belongs to what is under way (`AssessmentsOfRows`), so that the
two statuses a merge looks for are enough unless security is asked again after
a supervisor (`BackToSecurity`, which `MergeWhole` therefore excepts). None of
this needs an order of the messages.

*Movements and releases.* For messages told once and in order, `EventInv` says
what the queue will still do. `Ordered`: the merge separates messages about the
removed number from those about the surviving one. `Follows`: the last movement
in the queue is to where the prisoner is, and without one everything is there
already. `Leaves`: while the prisoner is outside, a release that is still in the
queue will delete what is under way, whatever is renumbered before it. Removing the first
message of the queue then either moves the tables or leaves a later message that
will. The rows that a release filters are a suffix of one row at most
(`OnlyCurrent`), which is what keeps a filtered sequence within the prover's
reach (`RowsWithout`).

### `CategoryProofs`: `CategoryDecision`

`ApprovedMatchesForm` needs `OverrideInStep`: the supervisor's category and the
flags that go with it are set and dropped together. `CategoryInStep` adds that a
decision is of the prisoner's age (`ProvisionalOfAge`) and that a security review
is of the form's own decision (`ReviewsInStep`). `OpenHasConditions` adds
`DecisionAsks`: a decision for an open category has its conditions asked for.

### `CategoryProofs`: `LiteCategory`

Stale pages leave `Shaped` (each row's number is of its own assessment, and a
stamp follows an accepted approval), from which `ApprovedInNomis` follows
without more. With fresh pages, `FreshInv` says that only the newest row can
wait, never beside a form (`Alone`); what waits is what NOMIS lists (`Listed`);
the form's own assessment is the one it would approve (`FormInNomis`,
`FormApprovesItsOwn`); and a page that has just been shown still tells the truth
(`ToldTruth`). The approval takes the largest pending number, which is why the
order of the numbers is part of the invariant.

### `FormProofs`: `FormUpdate`

A request reads the document and writes it back changed, several times, while
others do the same. `WholeInv` says of every document a request may hold that
it is whole but for what the changes still to come will mend (`Mended`): a
handler that breaks a rule between two of its writes mends it by the next one.
As a request writes back what it read, the committed document is always one
that some request has made whole. `KeptInv`, without overlap: after n of a
request's changes, the document it sees is what the first n changes make of
what the earlier requests left (`After`, a recursive function, of which only the
equation for n + 1 is used: no induction over data).

### `FormProofs`: `NextReview`

`OwnSection` speaks of the last form; the invariant also says it of the approved
form before it, which a cancellation brings back, and that a page that takes a
date is of the form it is for (`ConfirmsOwn`). With one tab a form changes only
when a page of the tasklist is posted, so that no such page is left behind.
Neither `RecordedIsTold` nor `ReviewedSoon` needs that: a record and the call it
records are of one step, and the only step that answers a risk change with a
review is the one that brings it forward.

### `HomeFilterProofs`

What makes a kept answer right is a sum: the hours an answer still has, and
those for which the truth has stood, exceed the life of an answer only when it
was asked for since (`PomsKept`, `ScoresKept`). An hour never makes the sum grow,
and a change of the truth, or a failure taken for an answer, resets it. So what
has stood for the life of an answer (`Lasted`) is what any kept answer tells.
`Answering` is the invariant of calls in batches, whatever is asked: each member
is in flight, to come or answered, nothing is to come when nothing is in flight,
and what was found agrees with the truth about those of whom it has lasted. It is
proved once for a call that begins (`CallsBegin`), an answer (`AnswerComes`) and a
truth that no longer lasts (`LessSure`), and used for the three services. Between
them, `CandidatesRight` says what the first filters have left; there the two
readings of `overdue` meet, and a recall without a date is ruled out by the error
it raises. The sets need not be finite.

### `OpenConditionsProofs`

`InOrder`: whatever is answered, and the page in the browser, comes after
answered pages only. It holds through Back and Change because these lead only
to answered pages, and it makes the last page stand for all. `Asked`: pages are
shown, and answers kept, only while open conditions are asked for. `Told`: who
does not leave half way gets from the pages to the tasklist only by the last
page, with nothing to confirm, or by the confirmation. `ClearedShown` is the
lemma about `clearConditionalFields` and the validation: what passes is answered
exactly where it was shown. The refinement of `ConditionsStages` follows: a post
begins, completes or takes back, or shows nothing.

### `PagesProofs`

What is submitted is the document, and what lets it be submitted is a link to
the review page that a tab got from a tasklist some time ago. So the invariants
speak of both: what every stored page is, and what a tab's screen and links
stand for.

*Stored pages.* A page is stored only as `clearConditionalFields` leaves it and
if it is valid. `PageSaved` and the lemmas about `Cleared`, `Kept` and `Valid`
show, page by page, that it is then whole and has no answer to a question that
its other answers hide, but for the text about other relevant information
(`RecatWholePage`, `InitialWholePage`). What a handler
adds to a page, or drops from others, keeps that.

*Recategorisations* (`RecatInv`). A tab that leads to the review page has seen a
form that was ready (`RecatReady`: its pages are there, and security has
reviewed it). Pages are replaced, and none that the tasklist asks for goes away, so it is ready still
(`RecatTabs`), whatever the other tabs do. `RecatSecurity`: a status beyond the
first that is not with security is that of a form it has reviewed. Only
`NoNeedlessReview` needs one tab: the higher review goes when the decision page
is saved, and a review page left open in another tab brings it back.

*First categorisations* (`InitialInv`). Here a page can make another one needed,
and a fact that changes does so with no page at all. In one tab a link is never older than
the last saved page, and facts that change are seen by a page before it stores
anything; `InitialTab` says that a tab leads to the review page only if the form
is whole for the estate of the prisoner, that the stored profile agrees with the
facts the tab has seen as to risk and a life sentence, and that the provisional
page shows the suggestion that follows. Only the profile of a life sentence that
is lifted, and pages of another estate, spoil that: `Lasting` and `Settled` (of
`PagesProofs`). For `Answerable` the
witness is given: for every page the input that is accepted, from the screen it
shows.

### Only model-checked

The conjunction `TypesOK` of `decisions`, which only its MC module has (each of
its four parts is a theorem: `TypeCorrect` and `LiteTypeCorrect` of
`CategoryProofs`, `FormTypeCorrect` and `DatesTyped` of `FormProofs`), and liveness
(`EveryRequestEnds`, `EveryEventHandled` with `JobEnds`). `FilterTypeOK` is proved
(`FiltersTyped`) and not run. Liveness under fairness and `ENABLED` are out of the
prover's reach, as is induction over data. No module uses RECURSIVE
operators, and folds and sequences are kept out of the modules with theorems
where they are not needed. The prover's translation is weak on empty strings;
an empty field is `"none"` where that changes nothing, and in `FormPages`, where
a field may be posted empty, the lemmas name the empty answer.

## Findings

* `stale_status` (`formService.js:124`). A page saved while the categorisation is
  approved writes back the status it had read: the row goes from APPROVED back
  to STARTED, which the table and `formService.test.js` exclude. The status check
  is skipped because no status is passed.
* `open_race` (`formService.js:303`). Two first visits of a tasklist open two
  categorisations when the first commits between the second's read and its
  insert. (If both compute the same sequence number, the unique constraint stops
  one.)
* `decision_unsuitable` (`formService.js:785`). A woman who is found unsuitable
  for open conditions keeps her open category: the cancellation forgets
  `recat.decision` and the provisional category, not `ratings.decision`. The
  tasklist is then complete and submits her as open.
* `lite_same_user` (`liteCategories.js:375`). The approval of a lite category
  checks who proposed it when the page is fetched; the POST approves whatever
  is latest by then, the same user's own proposal too.
* `recat_higher` (`tasklistRecat.html:33`). A recategorisation to a higher
  category goes to the supervisor without the higher security review its page
  says is needed.

## Other disagreements the models show

These are definitions of the modules that TLC finds violated with the setting
named, and that no run lists. Each is a limit of the code that is worth knowing.

| Property | With | What happens |
|---|---|---|
| `CategorisationFlow!NewReferralNotHeld` | two requests | a tasklist opens a categorisation between the check of `home.js:560` and the insert of the referral, which then stays NEW beside it until the tasklist is opened again |
| `CategorisationFlow!DatabaseNotEarlier` | two requests, failures | of two submissions that see no number both create an assessment and one fails after that (`offendersService.js:1490`): the row names the older one, which the to do list takes for a categorisation made in P-Nomis |
| `CategorisationFlow!ApprovedNeverDeleted` | two requests | a release deletes by id what it had listed as pending, approved meanwhile (`formService.js:905`) |
| `CategorisationFlow!AwaitingIsPending` without `~faulty` | failures | a cancellation has deactivated the assessment before it fails (`form.js:1108`) |
| `CategorisationFlow!ReferredIsHeld` | releases | a referral taken up by a row that a release deletes stays REFERRED for good |
| `CategoryDecision!AwaitingMatchesNomis` | `ageing` | an override chosen under 21 is kept in the form while the open category NOMIS is sent is suggested from today's age (`openConditions.js:407`) |
| `OpenConditions!NothingLeftBehind` | | the button of the "not suitable" page posts it as a page, which saves an empty `openConditions` entry after the cancellation |
| `ToDoLists!InProgressListed` | `Crowded = FALSE` | where NOMIS has nobody uncategorised the list ends early and omits manual reviews in progress |
| `ToDoLists!InProgressListed` | `StalePages = TRUE` | a review date posted from a stale page takes a categorisation in progress off the list |
| `ToDoLists!InProgressListed` without `~Lost` | | a recategorisation that is with the categoriser is on no list while its prisoner is on remand (`offendersService.js:808`), or when the supervisor has sent it back and the release date is past (735–740), or when it is only started and the release comes before the next review |
| `ToDoLists!ButtonMatches` without `ShownAsNew` | | a manual review in progress that NOMIS does not list has no `assessStatus` (`offendersService.js:869`, 893–901): with security its button is "Start" |
| `ToDoLists!NeverPnomis` | | a submission between NOMIS's answer and the read of the table marks work made here as made in P-Nomis |
| `PrisonerEvents!AtPrison`, `ReleasedHasNone` | `again` | an old movement told again puts work back to the former prison; a release handled before what it overtook deletes nothing |
| `PrisonerEvents!ReferralAtPrison` | | a movement moves a NEW referral only; one that is given back later is still at the former prison |
| `PrisonerEvents!PendingOnTop` | `BackToSecurity` | a merge restores the pending assessment for two statuses; a form sent back and referred again has one too (`offendersService.js:1740`) |
| `PrisonerEvents!ChosenOnce` | `again` | a merge told again chooses again between the two referrals |
| `PrisonerEvents!TasklistOpens` | | a merge puts a NEW referral under a prisoner whose form cannot be referred: its tasklist fails (`formService.js:857`) |
| `ConnectionPool!NotInAnothers` | failures | a landing page whose other branch failed has given its connection back; the late branch sends its statement inside whoever has it now |
| `ConnectionPool!AnsweredIsSaved` | failures | the unawaited statement fails, COMMIT rolls back without an error, and the page has said that it is done |
| no stuck pool (`~ConnectionPool!Stuck`) | as many lists as connections | every connection is held by a list that waits for another, nothing limits the lists at work, and the pool has no timeout |
| no deadlock of pages (`LockOrder!DeadlockOfPages` without its second case) | two rows of `form`, one cancelled meanwhile | two pages each have the row of `form` that the other wants, as each statement picks the current row again (`formClient.js:26`); PostgreSQL fails one |
| `LiteCategory!ToldTruth` | `~fresh` | NOMIS had approved, the answer was lost, and the retry takes the refusal for an approval in P-Nomis |
| `LiteCategory!OneInProgress` | `~fresh` | the page for a proposal is posted after a form was opened |
| `LiteCategory!OffersYoiClosed` | | an approval page shown again after an invalid answer no longer offers what depends on the existing category |
| `NextReview!SnapshotKept` | two tabs | a date page left open writes into the form after it was approved |
| `NextReview!OwnSection` | two tabs | the date page of an initial form, left open while that is approved, writes into the section of the ratings of the recategorisation opened since |
| `NextReview!StandaloneIdle` | two tabs | a page fetched before a categorisation began is posted after |
| `NextReview!ReturnsToTasklist` | | "Return" leads to the recategorisation tasklist, which refuses an initial categorisation |
| `NextReview!HistoryIsPrevious` | | the change history records the new date, not the one replaced |
| `FormUpdate!AnswersKept` without `~overlap` | overlap | two pages saved at the same time lose one |
| `InitialPages!AnswersAreTheirs` | an alert that comes later | the escape page had answered its hidden question with No before there was an alert |
| `InitialPages!SuggestionFollows` | a life sentence that changes, or two tabs | the risk profile only ever adds a life sentence; a tab shows an older profile |
| `InitialPages!SubmittedWhole` | a transfer between estates | the pages of the other estate are not asked for again |
| `CategoriserPages!NothingLeftOver` without its exception | | the text about other relevant information is kept when the answer becomes No, which hides it (`recat.js:274–289`, `riskAssessment.html:131–139`) |
| `RecatPages!OasysAnswered` | | an OASys date given earlier stays in the form after the user said there is no recent one |
| `HomeFilter!ShownAreWanted` | `Settled` without its second part | the filter `overdue` counts any recall, the mark on the list only one after the last assessment; and it drops manual reviews, which have no date |
| `HomeFilter!ShownAreWanted` | `Settled` without `Lasted` | a failure of the allocation manager is kept as "nobody's" for four hours |

Three more were met in reading, and no definition shows them. A recall for which
NOMIS has no prison period makes the whole filtered list an error page
(`CallFails` has it). `prisonerSearchApi.js` does not pass on
`postRecallReleaseDate`, so that the rule for fixed-term recalls of 28 days in
`offendersService.js:819` never applies. Answers of the risks and needs service
are meant to be kept for the four hours of the other cache, but the number is in
milliseconds and redis is told seconds (`risksAndNeedsApi.ts:62`).

## Not modelled

* *Statistics*: read-only SQL. *Authentication, users, audit*: who acts matters
  only in `LiteCategory`, where users are told apart; audit only sends messages.
  *Read-only adapters* (alerts, Pathfinder, health): their answers are free
  inputs.
* *Security review*: taken by offender-categorisation-api; the retry of its POST
  (`formApiClient.ts`) is left out, as the other side is not in the repository.
* *Texts, layout, formats, sorting and names*: no property is about
  them. A text counts as given or not. In the pages, decisions that ask for open
  conditions and the next review date have modules of their own and count as done.
* *Cat A history and the profile comparison of a risk change*: computed for
  display only.
* *Two people on one form* is in `CategorisationFlow` and `FormUpdate`;
  `CategoryDecision` takes the pages one at a time.

`PROJECT.json` gives each component's status and what is missing of it.

## Plan

Every safety property of a passing run is proved. What is left:

1. Liveness, should the prover learn it: `EveryRequestEnds` needs that a deadlock
   is always broken, `EveryEventHandled` that a message is told until it is
   handled.
2. `ListSpec` with requests that overlap: which parts of `ListsInStep` survive is
   not known.
