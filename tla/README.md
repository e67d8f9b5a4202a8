# HestivaOS: a TLA+ model of its operations

HestivaOS is the back office of a cleaning company: a NestJS API over PostgreSQL
(through Prisma), a Next.js web application for the office, and an installable
web client for Technicians in the field. It has little parallelism of its own;
what is hard about it is that several people, devices, providers and timers act
on the same rows, each with handlers that read, decide and write in several
steps. This directory models those rows and handlers, checks them with TLC, and
proves the main results with TLAPS.

Contents: [1 the system](#1-the-system), [2 the modules](#2-the-modules-and-the-code),
[3 what is abstracted](#3-abstractions), [4 the runs](#4-the-runs),
[5 fairness](#5-fairness), [6 the proofs](#6-the-proofs),
[7 divergences](#7-divergences-met-while-modelling),
[8 what is not modelled, and the plan](#8-not-modelled-and-the-plan).

## 1. The system

Everything goes through the API; components share the database and call one
another in process. Most writes with several rows are `Serializable`
transactions; single-row updates run under READ COMMITTED. PostgreSQL commits a
Serializable transaction as if alone or fails it, so the model takes such a
transaction as one step. **The hard part is everything outside of it**: reads
before a transaction, two transactions in one handler, unconditional updates,
calls to providers in between.

| Component (`src/apps/api/src/...`) | State | Operations | What makes it correct |
| --- | --- | --- | --- |
| **Work Order office** (`work-orders/work-orders.*`) | the row: status, crew, Job Leader, booking, start, completion, acknowledgement | create, generic edit, status, assignment, acknowledge, delete | the leader belongs to the crew; field facts and history are never rewritten; confirmed bookings change only under audit |
| **Material change** (`work-order-material-change.*`) | audit rows | preview, commit | a commit is the change that was previewed, and leaves an audit row |
| **Technician job** (`technician-jobs`, `execution-scopes`) | scope revisions, section outcomes, evidence | brief, start, outcome, evidence, complete | the scope of a started visit is frozen; a completion carries its evidence |
| **Completion correction** | corrections | authorize, record, resubmit | one correction at a time; no acknowledgement during it; the withdrawn one is kept |
| **Interruption, routing, replacement** | interruption, routing decisions, replacement, attention item | interrupt, route, create replacement | an interrupted visit is never completed; one replacement; management is reminded until it has acted |
| **Quote review and conversion** (`quotes/quote-review.*`, `quote-pricing-review.*`) | Quote, revisions, resolution | resolve matches, price, accept, decline | decided once, converted once, from the resolved revision |
| **Customer access and response** (`quote-customer-access.*`, `quote-customer-response.*`) | grants, response evidence | issue, revoke, resolve, respond | a customer decision has evidence; what the customer was told is so |
| **Quote delivery** (`quote-send-share.*`, `correspondence/*`) | delivery attempts, provider evidence | send, recover, manual outcome, webhook | no invented or rewritten outcome; the link is of the mailed revision; no second mail while one is uncertain |
| **Recurring agreements** (`recurring-service-agreements`) | agreement rows, generated visits, the timer of each process | create, edit, change status, generate, automatic resume | the right next date; one upcoming visit; a timer never overrides an operator; due agreements resume |
| **Access recovery** (`work-orders/*access*`) | recovery row and its message, encrypted credentials, readiness | initiate, deliver, link an answer, register, accept, reject, revoke, expire | a recovery that counts as sent was sent; a closed one has its evidence; a readiness of RECEIVED rests on a credential |
| **Message delivery** (`messaging/messaging.service.ts`, webhooks) | messages and their status events | send, retry, webhook, manual answer | unknown outcomes are not resent where the channel never tells |
| **Messaging Quote conversation** (`messaging/messaging-quote-*`) | control and Quote state of a conversation, each under a version; submission keys | deliver a message, take over, hand back, review, submit | one Quote per confirmation, of the facts shown; automation stops when a person takes over |
| **WhatsApp form** (`messaging/whatsapp-quote-flow-*`) | form sessions | offer, complete, expire, fall back | a form is captured once and leads to one thing |
| **Guided questions** (`messaging/messaging-quote-*-collector*`) | the draft of the conversation | ask, answer, correct a section | whatever is missing is asked; a corrected choice leaves nothing behind |
| **Pricing** (`quotes/*pricing*`, operating and profitability models) | none | pure functions | the margin; larger homes are not cheaper |
| **Technician's device** (`apps/web/app/technician`) | queued operations, cached jobs, evidence blobs | record, reconcile, clean up | nothing captured offline is lost, or shown as accepted when it is not |
| **Customers and linking** (`customers`, `messaging-customer-linking`) | customers, contacts, trusted identities, the Customer of a conversation | edit, retire, delete, link, trust, resolve | a conversation stays with its Customer, the one whose contact is trusted |
| **Needs Attention, incidents, user access** (`attention`, `users`) | attention items, incident, roles | reconcile, mark, assign, report, review, sign up, change access | who lists the items sees what is so; an administrator remains |
| **Correspondence** (`correspondence`) | template versions, records, attempts | version, publish, retire, materialize, attempt, outcome | one record of an event; a retry follows a failure only |
| Quote ingestion (`quotes/website-*`) | submission keys, daily counter | submit, replay | its contract and its Quote are modelled, its signature and photos are not |
| Employees, technicians, crews, shifts, properties, services, lists, templates, enquiries, scope mismatches | catalogue rows | validated edits | reference integrity, by the schema |
| Cleanup, launch reset, dashboard, monitoring, web pages | none of their own | reads, bulk deletes | - |

How they interact:

- An accepted Quote creates the Work Order, and for a recurring request the
  agreement; an agreement generates further Work Orders; a replacement visit is
  a Work Order of its own.
- An interruption opens an attention item; routing to CLOSE and the replacement
  resolve it. The periodic reconciliation does not manage that type.
- A correction withdraws the acknowledgement that correspondence waits for.
- Customer and office decide the same Quote: `respond()` ends in the same
  `accept()` and `decline()` as the Admin's buttons.
- A conversation, like the Website, ends in a Quote that is priced by the same
  functions; its Customer is found by the trusted identity behind it.
- An answer of the Customer to a request for access comes in by the webhook that
  feeds the conversation; registering it writes a credential of the Work Order.
- The device replays what the Technician recorded against the Technician
  endpoints, under operation ids of its own.
- The mail provider answers twice: in the response of the call, which may be
  lost, and by webhook events, which may be late, repeated and out of order.

The hazards, each at its line with the properties that watch it, are listed in
`PROJECT.json`.

## 2. The modules and the code

### One Work Order

| Module | Models | State |
| --- | --- | --- |
| `WorkOrder` | the rows all of these share | `job`, `revision`, `sections`, `corrections`, `changes`, `interruptedBy`, `route`, `replacements`, `attention` |
| `WorkOrderOffice` | `work-orders.service.ts`, its controller, material change | `request`: what an edit, an assignment or a preview in flight has read |
| `TechnicianJob` | `technician-jobs.service.ts`, `execution-scopes.service.ts` | `deviceScope`: the scope revision each device has in hand |
| `CompletionCorrection` | `work-order-completion-correction.service.ts` | - |
| `InterruptedVisit` | interruption, routing and replacement services | `routing`: what a routing request has checked |
| `WorkOrderSystem` | the five together, and the properties | - |
| `VisitTruth` | the abstract specification | `visit`, `review` |
| `WorkOrderSystem_proofs` | theorems | - |

One variable is one table (or the columns of it that matter), one action is one
transaction or one step of a handler between two points at which another
transaction may commit. The generic edit is thus two actions, its read and its
write (`findOne` at line 260, the update at line 314 of
`work-orders.service.ts`); an assignment is a transaction of three statements
under READ COMMITTED, and each statement is an action; routing is the
controller's look for a replacement and then the service's transaction.

`Overlap` chooses between the two readings of the API that matter: with
`Overlap = TRUE` anything commits between two steps of a handler, with
`Overlap = FALSE` one request is served at a time. Some promises of the decision
records hold only in the second reading (section 7).

`VisitTruth` is what the components promise management about one visit: it is
planned, gets under way, and is then completed or interrupted once and for good;
a completed visit is reviewed, and a correction sends it back to be reviewed
again. The refinement mapping (`Truth` in `WorkOrderSystem`) reads it off the
status column, `started_by` and the correction rows.

### One Quote

| Module | Models | State |
| --- | --- | --- |
| `Quote` | the rows: Quote, grants, responses; the guards and writes of `accept()` and `decline()` | `quote`, `grants`, `responses`, `offerExpired`, `lapsed`, `serviceActive` |
| `QuoteOffice` | Admin decisions, match resolution, pricing review, links | `pricing`: what a pricing review has read before the provider call |
| `CustomerResponse` | `respond()` step by step | `respond`, `told` |
| `QuoteDelivery` | `sendEmail()` step by step, provider, webhook, recovery, manual outcome | `attempts`, `provider`, `evidence`, `send`, `recover` |
| `QuoteSystem` | the composition and the properties | - |

A response is followed through its real stages: the link is resolved outside any
transaction, the evidence is committed, the status is read, preflight is asked,
the decision is tried, and after a conflict the Quote is read again. The process
may stop between any two.

### One set of agreements

`Recurrence` is `nextOccurrence()` over day numbers, with the months as a
constant, so that its results are about any calendar. `RecurringAgreement` has
the rows, the generated visits, the operators' requests between read and write,
and the runner of each process between the rows it has read and the one it
updates. `RecurringAgreement_proofs` holds the theorems about both.

### One conversation

| Module | Models | State |
| --- | --- | --- |
| `Conversation` | the live orchestrator, the versioned Quote state, takeover, submission in three commits | `control`, `conv`, `quotes`, `inbox`, `outbox`; `work`: what each delivery of a webhook has read |
| `QuoteForm` | the sessions of the WhatsApp form, `offer()` and the two transactions of a completion | `sessions`, `offer`, `filing`, `filed` |
| `ConversationSystem` | the two together, and the properties | - |
| `QuoteRequest` | the abstract specification | `facts`, `shown`, `confirmed`, `sent`, `quote` |

A delivery of a webhook is a sequence of steps: the message is stored, authority and
state are read, a prompt is sent, the state is written under the version and
the authority that were read. It may fail between any two, and then the provider
delivers the message again. While a form is open, ordinary messages are
answered with help and are no answers.

`QuoteRequest` is what the customer is promised: facts are shown, confirmed, and
one Quote is made of exactly those; what changes has to be shown and confirmed
again. `Request` in `ConversationSystem` reads it off the draft, the summary the
state points at, the confirming message, the key, and the Quotes made under any
key of the conversation.

### What is asked, and what it costs

| Module | Models | State |
| --- | --- | --- |
| `QuoteFacts` | the facts, the contract every channel must satisfy | - |
| `GuidedQuestions` | the questions of the six collectors: order, conditions, readings, and what a correction clears | - |
| `QuotePricing` | price lines, reasons for attention, cleaner-hours, cost, floor, the Admin repricing | - |
| `Questionnaire` | one customer who answers, corrects and confirms; the Website's form; the Admin review | `draft`, `asked`, `summary`, `quote` |
| `Questionnaire_proofs` | theorems about all four | - |

`Conversation` knows a draft by a few answers and cares for what overlaps;
`Questionnaire` has every question and one message at a time. In `Conversation`
every question is required; here optional ones are shown as the collectors do.

### The device

`FieldServer` is what the API makes of the operations one device sends, replays
included. `FieldDevice` is the page of a job, the three IndexedDB stores and the
reconciliations: each is a program that goes from one `await` to the next, and
several run at once, since the page starts one when it opens, when the browser
comes online and after most of what is recorded. Closing the app loses the page
and the reconciliations and keeps the stores; a request or its answer may be lost.

### The messaging desk

`MessageDelivery` is durable sending with PENDING, ACCEPTED and FAILED status
events, the provider behind it, the webhooks and the Messenger answer of an
administrator. `AccessCredentials` is the readiness of a Work Order and its
credentials. `AccessRecovery` composes them: the request that sends, the webhook
that reports and the webhook that brings the answer all write the status of the
recovery. A handler may die between any two steps (`MaxCrashes`).

### The office

`CustomerContacts`, `Attention` (with incidents and user access) and
`Correspondence` share no state; `MCOffice` puts them into one run.
`Office_proofs` holds the theorems about them.

A message of a conversation without a Customer reads the conversation, then the
identity, and links what a trusted one names. As an administrator who trusts an
identity links its conversation in the same transaction, the identity is trusted only
when that transaction fell between the two reads, and the link then finds the
conversation taken: in no reachable state does a message link anything of its own.

The `MC` modules define the constants, symmetries and bounds of the runs.
Several split a run into **views**: each view is a set of behaviours of the same
specification in which some operations rest, so that others can be combined at
full length. A view never changes what an action does.

## 3. Abstractions

The control of the mapped code is kept: its guards, early returns, refusals and
writes, in their order. The exceptions are refusals of badly formed input (an id that
is no UUID, a date that is none, a text that is too long), which change nothing, and
those that the list names beside the abstractions of data:

- A Serializable transaction is atomic; one under READ COMMITTED is a step for each
  statement where another can come between (`AssignCommit`, whose unique key refuses a
  crew that a rival has inserted again, and `Expire`). A transaction that fails and is retried
  by its caller is the action not taken.
- `updatedAt` is compared for equality only, so what a preview has read stands
  for it.
- The values the material booking fields take together are one member of
  `Bookings`; a preview and a commit name the same one.
- A retried operation id finds its own row and returns it: an operation id
  commits once, and the replay, which writes nothing, is left out.
- Evidence is present or absent for a section. Ids of evidence are fresh.
- The latest routing decision stands for the list of them; they are ordered by
  commit.
- Sections are instantiated anew by every scope revision.
- The Work Order, agreement, Customer and Property that an acceptance creates
  are one counter, `workOrders`; prices and line items are left out.
- `resolve()` reads several tables in sequence and is one step, as is the
  preflight; nothing it reads can become usable again once it is not.
- An idempotency key that belongs to another link only refuses the request.
- Confirmed facts that the contract of a Quote refuses are a set of drafts, `Invalid`:
  such a CONFIRM fails as often as it is delivered, until the facts are corrected.
- Offers and links expire once; whether the boundary belongs to them
  (`validUntil` is compared with `<` in one place and `<=` in another) is below
  the resolution of the model.
- A provider event is matched to its attempt by the signed tag, or by the
  reference of an accepted attempt.
- The WhatsApp composer issues a link as the e-mail does and sends nothing.
- A reply to a question is a word or its numbers; free text is empty or written
  (`""`, `"TEXT"`); dates, addresses and numbers in the right form are one each.
- An accepted answer is a patch of facts (`Fact`), merged over the draft (`Patched`);
  a fact of a nested object of the draft is a fact of its own. Names of Services
  and countries are written with underscores.
- The forms a visitor may submit are any drafts the contract accepts. The contract
  takes a floor for a house, or a pet's name without a pet, and so does the model;
  `FactsFitTheChoices` is about the Quotes of conversations.
- Amounts are cents and labour is counted in half hours: every workload and rate
  of the tables is a whole number then, and no float is involved. The codes of
  room counts and of scopes to review stand for several reasons of one kind.
- The states of a WhatsApp form draft are below the model: a form arrives filled.
- The look-up of the latest status before a status is appended is part of the step
  that appends it.
- Recording on the device is one step: it writes the store and then the page.
- A key, a code or an address is present or absent; a credential is its review
  status and its span of validity.
- A Work Order that needs attention is one of a set of states, chosen freely.
- Clocks are small: `now` of the messaging desk moves on by itself up to
  `MaxTime`, `Window` is the time in which an answer may be written.
- A date is a day number; a business date is read once per request.
- The rows of a pass are updated in any order, where the code takes the order of
  the query; operators' requests overlap a pass in every way.

## 4. The runs

Every action fires in the passing runs. `CHECK_DEADLOCK FALSE` is everywhere:
visits are closed, Quotes decided, and the days of a run end; the system really
may have nothing left to do.

| Run | States | Question | Why these bounds |
| --- | --- | --- | --- |
| `overlap` | 0.5 M | Do scope, evidence, acknowledgements and the reminder survive two corrections, two routings, two replacements and a stale edit, and is a confirmed booking changed by an audited commit only, or by an edit let in before it was confirmed? | two operation ids race for one completion or one replacement; two revisions let the scope move before the start; the controlled commits of `sequential` rest here, as nothing but they may change the booking of a confirmed Work Order |
| `sequential` | 4.1 M | With every operation enabled and one request at a time, is `VisitTruth` implemented? | two Technicians, so that the crew changes; one of each further operation |
| `quote` | 1.3 M | Do two customers' responses, a pricing review and an Admin decide and convert a Quote once, on evidence, and is what customers are told so? Are outcomes never guessed, and does nothing but a race of two sends put an attempt beside an uncertain one? | three views: decisions; deliveries, one send at a time, with pricing and decisions; two sends at once of a Quote as it stands. Two links, two revisions: the second revision outdates the first link; two attempts are what a race takes |
| `recurring` | 0.5 M | Is each generated visit the first date of its rule, is there one ahead at most, does a pass keep operators' decisions, does every due agreement resume? | four kinds of rule over four days with a month end, a fortnight's date and an end date among them; two agreements due on one day with a batch of one, a failing pass, a pass that crosses midnight |
| `conversation` | 0.3 M | Is a confirmed request one Quote of the facts shown, does a takeover stop what is under way, is what a form led to final? | six views: two deliveries at once of two messages with two changes of control; three messages in sequence, the least for a question, a change and a confirmation; facts that the contract refuses, and their correction; a form offered while a CONFIRM is under way; two forms, two offers; two completions |
| `questionnaire` | 25 k | Is whatever is missing asked for, do corrected facts fit, do prices keep their margin and grow with the home? | eight views vary the replies that matter together, among them every service, size and add-on, and correct a section each |
| `field_device` | 0.6 M | Is nothing recorded lost, does what is shown as acknowledged hold, do photos arrive? | three operations take a visit from start to completion; two reconciliations are what a race takes; one mishap at a time |
| `messaging_desk` | 0.6 M | Was what counts as sent taken by the provider, has each closed recovery an answer of its own, does a readiness of RECEIVED lose its last accepted credential only behind the back of an expiry, does the Customer have a message once? | seven views: statuses, late statuses, answers, two recoveries with two answers, credentials, a retry, Messenger; two handlers, one of which may die |
| `office` | 0.5 M | Does a conversation stay with its Customer; do no writes but the two of section 7 (`Misread`) leave a Customer with two primary contacts or a retired one; does an administrator remain; does a list show what is so but for an assignment written in between; is an event written of once? | four views; two Customers with two contacts and two requests; three users, of whom two may be administrators at once; two occurrences of an item; three attempts for two records |
| `late_status_edit` | violation | "the same visit must not subsequently be completed" after an interruption | one stale edit |
| `stranded_completion` | violation | "retry the same operation after queued outcomes" | one outcome that is queued after a pass has read the outcomes, and one completion |
| `overtaken_reply` | violation | The first answer is "surfaced as `RESPONSE_REQUIRES_REVIEW`" | one status, one answer |

Symmetry is used in safety runs only, over ids that no definition tells apart;
the runs with a liveness property (`recurring`, `conversation`, `field_device`)
and `messaging_desk`, one of whose properties is about whole behaviours, have none.
Of the two handlers of `messaging_desk` the first begins when both are free
(`FirstFree`), which only names them. Every property of a passing run has a mutant in `PROJECT.json`, a small
plausible change of the mapped code that breaks it. The type invariants state the
state space of each module and are theorems, and so are further invariants that need no run of their own
(section 6).

What bounds the counters: `MaxRevisions` the scope revisions, `MaxQuoteRevisions`
the Quote revisions, `MaxAttempts` the delivery attempts, `MaxFailures` the failed
passes and deliveries, `Days` the days, `NMessages`, `MaxTransfers` and `MaxReviews` the
messages, takeovers and review marks of a conversation, `NSessions` its forms,
`MaxOps`, `MaxPhotos`, `MaxEdits` and `MaxMishaps` what happens on and to a device,
`MaxTime`, `MaxCalls`, `MaxReplies` and `MaxCrashes` the messaging desk,
`MaxContacts`, `MaxOccurrences`, `MaxVersions` and `MaxRecords` the office. Each is a
guard of the one action that counts.

The bounds of `office` in `MCOffice` deserve a word: customers are individuals and
one of them has a history or a property, one request at a time edits a contact
while another links or deletes; at most two conditions of a Work Order hold, handled
by one user beside an administrator. A third condition would be a copy of
one of these: items do not know of each other. One list is under way beside one other
request; between its reconciliation and its read of the items, writes of two kinds
fall (an item, people, what the items are about), or of all.

`HeardOnce` of `messaging_desk` is about Messenger and about behaviours in which one
request at a time is served (`[]Alone => []TakenOnce`): two administrators who send the
same message at once both reach the provider, which the code does not prevent. A process
that dies after the call tells nobody of it, and one that cannot store an acceptance
records FAILED instead (`messaging.service.ts:87` to `:102`), so that each such mishap,
counted by `crashes`, may cost one more.

In the views of `conversation` the forms rest, except in "formed", "offers" and
"completions": in "formed" one CONFIRM is under way, fails once, and a form is offered
meanwhile. As two workers differ in name only, the first takes up a delivery unless it is
busy (`FirstIfFree`).

## 5. Fairness

The Work Order, Quote, messaging desk and office parts have none: every step is
somebody's request, a provider's event or a failure, and nobody has to take it.
Their properties are safety properties.

`RecurringAgreement` has weak fairness of each process's runner: beginning a
pass, updating a row and ending the pass. The code starts `setInterval` with 60
seconds at boot and a pass loops over its rows without waiting for anybody, so a
process that lives takes these steps. No fairness is assumed of operators, and
failures are bounded by `MaxFailures`: a database that always fails resumes
nothing. Days pass by no fairness either: `DueIsResumed` speaks of agreements that
are due already.

`Conversation` has weak fairness of the steps of each delivery, which is one
handler that runs on, and of the delivery of a message that is still unanswered:
Meta repeats a webhook until it is answered with success, and the code answers with
an error when a delivery fails. Customers need not write and persons need not act.
`ConfirmedIsSubmitted` excepts a person who steps in; facts that the contract refuses;
a CONFIRM another delivery of which is still sending a prompt: that one may answer the
webhook, so that nobody repeats it; and a form that is opened between a CONFIRM that
failed and its repetition: the repetition is answered with help and with success
(`whatsapp-quote-flow-inbound.service.ts:70`, `whatsapp-webhook.controller.ts:76`), so
that nobody submits what was confirmed.

`FieldDevice` has weak fairness of the reconciliations' steps taken together, and of
the app being opened or going online. Mishaps (lost requests and answers, closing) are
bounded by `MaxMishaps`: a device that never gets through sends nothing.
`PhotoArrives` excepts a Technician who is taken off the job, whom the API refuses.

## 6. The proofs

All theorems hold for every value of the constants under the named assumptions:
`None` and `Nobody` are nobody and no value, policies are given per section, bounds are
natural numbers, months follow one another, rules are valid, days are dates, users
are finitely many, `None` is no status of a Work Order (`NoneIsNoStatus`), refused facts
are complete drafts (`InvalidAreFacts`), and `ADMIN` and `TECHNICIAN` are roles. Some state what no run
lists: `LeaderIsAssigned`, `FieldTruthWrittenOnce`, `OneCorrectionOfTheCompletion`,
`OneReplacement`, `HistoryNotDeleted`, `CompletionIsFinal`, `ResolutionIsCurrent`,
`OutcomeWrittenOnce`, `LinkOfItsRevision`, `ResumeDateOnlyPaused`, the type
invariants, and what `SerialSafe`, `ReplacedStays`, `CancelledStaysCancelled`,
`OnlyOvertakenAnswersAreLost` and `EveryAnswerCounts` say (of a behaviour in which
requests do not overlap, or of how near a draft is). What is proved for all values of
the constants needs no run.

**`WorkOrderSystem_proofs`**, for both values of `Overlap`. `TypeCorrect` first; the
other invariants are proved relative to it, so that each is a few conjuncts:

- `StaffingInv` adds to `LeaderIsAssigned` that the leader an assignment is about to
  write belongs to the crew it is about to write; without that the last of its
  statements would break it. It yields `LeaderAlwaysAssigned`.
- `CorrectionInv` adds to `OneCorrectionOfTheCompletion` and
  `NoAckDuringCorrection` that an authorized correction keeps the acknowledgement
  that is current, or none; `AckWithdrawn`, `OneActiveCorrection` and `AckKept` follow.
- `EvidenceInv` says of every section, in a visit completed or not, that without
  an author it is pending and with one it has the evidence required, and of a
  completed visit that it was started and every section has an author;
  `CompletionEvidenced` follows. Completion checks outcomes only, so that the
  evidence has to be known before.
- `ReviewInv` adds to `ReviewedUntilHandled` that an interrupted visit is not
  routed to be closed, that routes and replacements need an interruption, and
  that any two replacements are one; `ReviewedExactly` and `ReplacedOnce` follow.
- `ScopeFrozen`: `FrozenScopeIsLatest` is inductive as it stands. `HistoryKept` and
  `FieldTruth` are properties of single steps and need the types only.
- `ConfirmedAudited` needs no hypothesis either: the booking of a Work Order that was
  confirmed all the while is changed by the step that leaves the audit row, by an edit
  that the controller let in before it was confirmed (`ConfirmedForGood` looks at what is
  under way), and by nobody else. An assignment and a continued edit are shown to leave
  the booking alone (`AssignmentFinishes`, `ContinuedHarmless`).

- One request at a time (`~Overlap`, a hypothesis of these theorems):
  `SerialInv` says that at most one handler is between two steps, that what it has
  read is still so, and what each status says of the start, the completion and the
  interruption (`StatusFits`). `InterruptedIsFinal` and `CompletedStays` (of
  `CompletionIsFinal`, which no run lists, as `VisitTruth` implies it)
  follow. `ReplacedStays` says that a visit with a replacement
  remains interrupted, where it was, with its routing: by `ReplacedInv` no routing
  that has passed the look for a replacement comes to a visit that has one, which is
  what overlap breaks (section 7). And **the refinement**: `VisitTruthImplemented` maps
  every transaction to a step of `VisitTruth` or to a stutter. The mapping, `Visit`
  and `Review`, needs `CorrectionInv` (a visit is reviewed again only by a correction),
  `ReviewInv` and `EvidenceInv` (what is deleted was never completed or interrupted).

**`QuoteSystem_proofs`**: the type invariant, for which a send in flight must be known
to hold a revision and then a link (`SendHolds`); and every property of the run. Three lemmas list all that any step
of any component does to the `quotes` row, to the answers and to the attempts
(`QuoteChanges`, `AnswerChanges`, `AttemptChanges`); a fourth says that issued links
are kept (`LinksAreKept`).

- `DecisionsAreFinal`, `AnswersComeInTime` and `OutcomesAreWrittenOnce` follow from
  these; `AlwaysConvertedOnce` and `ResolutionStaysCurrent` are inductive together.
- `AnswerInv` says what a request in flight knows (`RequestKnows`): its link was
  issued, and from the evidence on, the answer it acts on is the one on record.
  With it and the finality of decisions, `SelfServiceIsEvidenced` and
  `CustomersAreToldTheTruth` survive everything the office does between two
  transactions of the request.
- `OutcomeInv`: each send has an attempt to itself of which the provider knows
  nothing before the request (`SendsOwn`), and evidence is about processed
  messages; hence `OutcomesAreTrue`: what is ACCEPTED was taken, what is FAILED was
  answered with an error, which may have come after the mail was taken.
- `LinkInv` carries the revision of a link through the send: `LinksShowTheirRevision`.
- `OnlyRacesDouble`, for any number of senders at once: an attempt is committed beside an
  uncertain one of its revision only if that one was committed after the look of this
  send for such attempts. By `RaceInv` each send keeps how many attempts its look has
  seen, and any that is uncertain and of its revision came after it; nothing but
  the commit of an attempt makes one uncertain (`UncertainShrinks`).

**`RecurringAgreement_proofs`**, first part: `NextOccurrenceIsFirst` and `NullWhenNoneIsLeft`. The
decision record defines an occurrence without saying how to find it (`OnRule` in
`Recurrence`: the weekday; an even number of weeks from the first one; the day of
the month or the last of a shorter month). The theorems say that the arithmetic
of the code finds the first such date, for all three frequencies. The months are
any increasing sequence, so leap years need no case; that a date has one month
is proved from the well-foundedness of the natural numbers.

**`RecurringAgreement_proofs`**, second part: the type invariant, and the safety
properties. `ResumeInv` adds to `ResumeDateOnlyPaused` that a
status request in flight carries a resume date only with a pause, which is why
unconditional stale writes cannot break it: the three fields are written
together. `CancelledStaysCancelled` is what the stale status writes of section 7 leave
true: as long as at most one request at a time is changing the status of an agreement
(`[]OneChangeAtATime`, a hypothesis about the behaviour), a cancelled one stays
cancelled, whatever edits and the passes of all processes do. By `CancelInv` what
a request is about to write to a cancelled agreement cancels it; `StatusWrites` lists
what any step may do to a status, and a pass writes only a status it finds PAUSED.
`AtMostOneAhead` is inductive as it stands. `PassInThePast`, a pass
works with a date that has come, is what makes the condition of its update imply
that the row is due on the present day, also when the pass has crossed midnight;
`PassesKeepDecisions` rests on it.

**`Office_proofs`**, customers: two lemmas list all that any step does to the contacts
(`ContactChanges`: they stay, of the same Customer, unless an unprotected Customer
goes) and to the identity and the conversation (`LinkChanges`). `ConversationsStay`
follows from the second. For `TrustedIdentitiesOwn` the invariant is `IdentityOwns`:
a trusted identity has its conversation linked to the Customer of its contact, which
was not deleted; a link writes only where there is no Customer yet, and by the
invariant no identity is trusted there. `PrimaryIsSole` says which writes can bring a
Customer to two primary contacts, or to a retired one: those of a request that read
before its transaction what is no longer so, or makes a retired contact the primary
one (`Misread`). A step of anybody else keeps it, also where a contact that goes
hands the mark to the first that is left (`LeastPlace`: the first of some is one
of them, by the well-foundedness of the natural numbers). It needs `StandingInv`: a
Customer who is gone has no contacts, and a request holds a contact that exists.
Assumed: `None` is no Customer and no row of one (`NoneIsNoRow`).

**`Office_proofs`**, attention and access: the type invariant, for which an item that a request has read
must be known to exist (`HandledIsThere`: items are never removed); that an administrator
remains, which is inductive as it stands and needs finitely many users, so that more
than one of them means another one (`AnotherAdmin`); and that a list is true. The list
reads the items after its reconciliation has committed, so that anybody may write
between; `ItemsInv` carries what reconciliation made of each item (`ObservedIsTrue`,
`ReleasedIsTrue`) to the read, up to the writes that fell in between, which `since`
remembers: `ListsAreTrue` says which of them a list can be wrong about. Assumed: `ADMIN` and `TECHNICIAN` are roles,
and `Nobody` is a value of its own.

**`Office_proofs`**, correspondence: `WrittenInv` adds to `WrittenToOnce` that the version a request
has read was published (versions never become drafts again, `VersionsFollow`) and that
all attempts but the last have failed (`Retried`), for any number of versions,
records and attempts: a late outcome can only be that of the last one.

**`ConversationSystem_proofs`**, the conversation, for any number of questions,
messages, deliveries at once, failures, takeovers and review marks. What makes the
code right is that every write is conditional on the version that was read, so the
invariant `ConvInv` says what a version number vouches for. `Faithful`: facts carried
under a version are the draft, as long as that version or the summary made of it
stands. `HandOf`: what each delivery may rely on at its step. `StateTruth`,
`OutboxTruth`, `QuotesTruth`: a confirmation is of a summary that was sent, what was
sent showed the draft, and the only Quote is that of the reserved key. One lemma
(`Advances`) lists what any write does to the state: the version goes up, the draft
changes only with the summary withdrawn, and nothing changes once the key is
reserved; by another (`HandStays`) no write takes from a delivery what it relies on.
Then `TakeoverHolds` is a fact about steps, and **the refinement**
`RequestImplemented` maps each step to one of `QuoteRequest` or to a stutter; that
`Confirm` and `Submit` of the abstract specification are enabled when the code takes
them is what `ConvInv` is for. Assumed: there is a question, `None` is no answer,
no number and no draft (`NoneIsNoAnswer`), sections are sets of questions.

**`ConversationSystem_proofs`**, the form: `FitSession` says what a row of a session
may be (what was captured is completed; what was made is of what was captured) and
`FormInv` that a completion between its two transactions works with what the row has.
`FormOutcomeStays` follows: a second completion, a late expiry or an offer does
not rewrite what a form came to.

**`FieldDevice_proofs`**, for any number of reconciliations at once, photos,
operations and mishaps. `FieldTyped` first, for which each reconciliation must be known
to hold, between two awaits, what its step takes (`Handy`). `NothingTakenBack`: the API
never unsays what it told the device, whatever it does meanwhile. On it rests
`DeviceInv`: each photo the device let go of or shows as acknowledged is in the bucket
(`RowsSafe`), and a row, an acknowledgement or an answer that a reconciliation read
before an await is backed by the API (`InHand`), which the stale writes of other
reconciliations do not change, since what they write is backed too. `PhotosKept`,
`RecordsKept` and `AcknowledgementsBacked` are its parts.

**`AccessRecovery_proofs`**, the messaging desk, for any messages, recoveries,
requests and webhooks in progress, crashes and times. `TypesHold` includes that a
recovery under review names an answer (`AnswersKnown`).

- `SentIsTaken`: by `TakenInv` every word of an acceptance is the provider's: the one
  on record, the one a handler is about to write into the recovery, the one written.
- `ClosedIsEvident`: each closed recovery has an answer to itself. Two recoveries may
  wait on one conversation, so that it is not enough that there is an answer: by
  `EvidenceInv` the answers can be dealt out among the recoveries so that each one that
  is closed, or about to be, has one that became a candidate; the keys of
  messages stay apart (`KeysApart`), so that the next answer is nobody's yet.
- `ReceivedHasCredential`: no step takes the last accepted credential from a readiness
  of RECEIVED that credentials gave, except the write of an expiry all of whose remaining
  credentials were revoked after it had judged them (section 7). It needs that a pass
  under way knows which of the accepted ones it will leave. Accepted is not usable: that
  a span runs out is for the next expiry to notice.
- `OneAtATimeIsHeardOnce`: `HeardOnce` itself, for Messenger, with deaths of processes and
  acceptances that cannot be stored. `OnceInv`
  says where each acceptance is: on record, blocked for good by a second PENDING, about
  to be one of the two, or among the mishaps counted; `[]Alone` is a hypothesis about
  the behaviour, which the property states and the runs meet by a view.
- `OnlyOvertakenAnswersAreLost`: the other side of the finding `overtaken_reply`. If no
  answer comes while a request or a webhook has a status of its recovery still to
  write (`AnsweredInQuiet`), a recovery under review stays there until it is closed: by
  `ReviewInv` nobody who could write another status begins to while it is.

Assumed: `None` is no credential, recoveries are among the messages
(`RecoveriesAreMessages`), bounds are natural numbers.

**`Questionnaire_proofs`**, questions and prices, for any replies, any forms of the
Website, any scopes an Admin may name, every COIDA rate (in hundredths of a per
cent) and every distance (in whole km). The inductive invariant is `DraftFits`, and that a Quote was made of
valid facts, at the price of a submission or of a review (`QuoteInv`). `DraftFits` says
of each collector that its facts are of its menus and that a detail stands only with
the choice it belongs to: `NeverStuck` alone does not survive a step, as what a
collector need not ask again depends on what the others hold. It has one part
per collector (`HomeFits`, `CleaningFits`, `EventFits`, `PersonaliseFits`, `VisitFits`,
`FinalFits`) and two between them (`EventIsAsked`, `LaundryIsEligible`); one lemma per
collector says what an answer does to its part, one that no answer touches the
others' (`OthersKept`), and `CorrectionKeepsDraft` what the six sections clear. TLC
found `DraftFits` true on the instance of the run before it was proved.

- `AlwaysAQuestion`: the question asked is the first open one, and with none open
  (`NextIsOpen`) every group of facts is complete (`NothingOpenIsComplete`): the
  collectors ask for whatever the contract misses. `FactsFit` reads the invariant off.
- `EveryAnswerCounts`: an accepted answer brings the draft nearer to complete (`Nearer`:
  fewer facts are missing, or as many and fewer chosen add-ons lack their number), and
  every other step but a correction leaves it as it is. As facts are finitely many,
  no customer is asked in circles.
- `MarginIsKept`: what is charged is not below cost and least contribution
  (`PriceCoversMinimum`), and a contribution of a quarter of the cost, rounded up, is a
  fifth of the price (`ContributionKeepsMargin`), after every rounding.
- `BiggerCostsNoLess`: tables of prices and hours grow with the home (`FloorTables`,
  `EventTables`), and labour, consumables, contribution and the last rounding keep the
  order of what they are applied to.

Assumed: `None` is no value of a fact and no question (`NoneIsNoFact`,
`NoneIsNoQuestion`) and no choice of add-ons (`NoneIsNoAddOns`), forms give every fact a value or `None` (`FormsAreDrafts`), the rate and
the distance are natural numbers, or not known at all. That the tables of the
model are those of the code is nothing a prover could tell.

Only model-checked: the liveness properties `DueIsResumed`, `ConfirmedIsSubmitted`
and `PhotoArrives`, since liveness under fairness is out of the prover's reach. Every
other property of a passing run is stated by a theorem.

The proofs taught four things about the models. The guards of a `CASE` that overlap do
not mean "the first that is true" in TLA+, though TLC takes them so: a chain of early
returns in the code is written as `IF ... ELSE IF` throughout. A quantity that must be a
whole number has to be tested for being one, as the contract does, where
`>= 1` had been enough for TLC. `FactsFitTheChoices` had held of Website Quotes
only because the forms of the run were tidy. And `ClosedHasEvidence` had asked for one
answer where two recoveries may be closed: one answer would have done for both.

## 7. Divergences met while modelling

Three have a run of their own, `late_status_edit`, `stranded_completion` and
`overtaken_reply`; the findings in `PROJECT.json` quote the lines. The others are
behaviour the model reaches, and the reason why some property is stated
the way it is. Paths are under `src/apps/api/src/` unless they begin with `web/`
(`src/apps/web/`) or `docs/` (`src/docs/`).

The Work Order:

- `work-orders/work-orders.service.ts:193`. Two assignment requests under READ
  COMMITTED may merge: the crew is the union of what both inserted, the leader
  the later one's. The leader is still one of the crew (`LeaderIsAssigned`, proved), but a
  crew without a leader may survive an emptying request.
- `work-orders/work-orders.service.ts:314`. A stale edit also takes a `COMPLETED`
  Work Order back; `CompletionIsFinal` is therefore proved without overlap
  (`CompletedStays`).
- `work-orders/work-orders.controller.ts:166`. The guard against material edits of
  a confirmed Work Order is a read before `update()`; a confirmation in between
  lets an unaudited change through. `ConfirmedChangesAudited`, checked and proved with
  everything overlapping, admits these edits and no others.
- `technician-jobs/technician-jobs.service.ts:108`. Section outcomes are accepted
  after the completion and outside a correction. `CompletionIsEvidenced` is stated
  of whatever the outcomes are, and holds.
- `work-orders/work-orders.service.ts:261`. A Work Order may be closed while a
  correction is active; the correction can then be neither recorded nor
  resubmitted.
- `work-orders/work-order-interruptions.controller.ts:28`. Whether a replacement
  exists is checked before the transaction that routes: with one created in between,
  a replaced visit is routed to CLOSE, where the decision record says that it
  remains INTERRUPTED. Without overlap it does (`ReplacedStays`, proved).

The Quote:

- `quotes/quote-send-share.service.ts:181`. The look for an unreconciled attempt and
  the commit of a new one are apart: two send requests at once both send, where
  the documentation has the second blocked. `UncertainOnlyByRaces` says, and is proved
  for any number of sends, that nothing else brings a second mail beside an uncertain one.
- `correspondence/resend-email.transport.ts:78`. Every answer that is not a success is
  recorded as FAILED, also a 5xx that came after the provider had taken the mail, where
  `docs/RECOVERY_GUIDE.md:5` has a lost answer leave the attempt "uncertain, not failed".
  FAILED permits another send, so that the customer may have the mail twice.
  `OutcomeIsTrue` therefore says of FAILED that the provider answered with an error.
- `quotes/quote-send-share.service.ts:127` and `:253`. When the answer to a send is
  lost, nothing is known of it and its link is revoked, no new send of that revision
  is possible, though the documentation asks to prepare one.
- `quotes/quote-customer-response.service.ts:62`. The earlier answer is looked up
  by link. A customer whose acceptance is still pending gets a second link to the
  same revision and may decline on it; `AnswerRecordedInTime` is about one link.
- `quotes/quote-customer-response.service.ts:125`. A response reports PENDING from
  the status it read before; the Quote may have been declined meanwhile.
  `ToldTheTruth` is about CONVERTED and DECLINED.
- `quotes/quote-send-share.service.ts:156`. The WhatsApp composer issues a link
  while an e-mail attempt is uncertain, and supersedes the mailed one.
- `quotes/website-quote-pricing.ts:220`. Laundry is priced in a
  submission of the Website's schema 2.0 only; the same facts from a conversation are
  priced without it.

Agreements:

- `recurring-service-agreements/recurring-service-agreements.service.ts:75`. Two
  status requests may both read a paused agreement; a cancellation written
  first is undone by the resumption written second, against
  `docs/RECURRING_LIFECYCLE_REVIEW_V1.md`. Without two such requests it stands
  (`CancelledStaysCancelled`, proved).
- Same file, line 57. `update()` may move the end date before the automatic
  resume date, which `changeStatus()` refuses the other way round; and it computes
  a next service date for paused, cancelled and ended agreements too.
- Same file, line 113. The generator's reference counter has no limit of 9999,
  where the other two users of the counter have one.

Conversations and messages:

- `messaging/messaging-quote-live-orchestrator.service.ts:184`. A CONFIRM whose
  first delivery failed comes again after the facts were changed and shown
  anew, and confirms these. `ImplementsQuoteRequest` says that the Quote is of
  the facts last shown, not that the customer had seen them when writing CONFIRM.
- `messaging/messaging-quote-flow.ts:61`. Correcting a section clears its
  answers, and a summary is shown as soon as the contract is satisfied: an optional
  answer is lost without being asked for again.
- `messaging/messaging.service.ts:81`. A WhatsApp message that failed by webhook
  and is retried with an unknown outcome keeps FAILED as its latest status
  and may be sent without bound; ADR-0079:22 allows a retry of what is known to have
  failed. A process that dies after the provider call leaves one PENDING, which may
  be tried once more. Line 87: the acceptance is stored inside the `try` of the call, so
  that a failure to store it is recorded as FAILED, and the message may be sent again
  although the provider has it.
- `messaging/whatsapp-quote-flow-inbound.service.ts:70`. A form opened after a CONFIRM has
  failed swallows its repetition (section 5): what was confirmed waits for the customer's
  next message after the form.
- `work-orders/work-order-access-recovery.service.ts:54`. A process that dies between
  the candidate and CLOSED leaves the recovery open and its answer registered;
  registering it again is refused.
- `work-orders/work-order-temporary-access-credentials.service.ts:40`. Rejecting
  the only credential sets EXPIRED, where the documentation says `NEEDS_REVIEW`; a
  credential that becomes valid later counts as EXPIRED now and never sets RECEIVED again.
- Same file, line 39. `expire()` updates the credentials, reads what is left and writes the
  readiness under READ COMMITTED: a credential revoked after that read leaves a readiness
  of RECEIVED without any. `ReceivedIsBacked` names that write as the only one.

The device:

- `web/app/technician/components/job-brief.tsx:127` and `:131`. The list of jobs, or
  a fetch that was under way, puts a job completed on the device back to what the
  API still has: its page can be edited again.
- `web/app/technician/components/job-brief.tsx`. A second outcome of a section recorded
  before the first was answered expects the same version and is refused for
  good (ADR-0045:20); a photo may be RETRY_PENDING without a blob, and NEEDS_REVIEW may
  overwrite ACKNOWLEDGED. Nothing is lost by either (`PhotoNeverLost`,
  `NothingForgotten`).
- `web/app/technician/components/interruption-offline-store.ts` opens the same
  database as version 4 that the others open as version 5, which fails once they
  have. Interruptions recorded offline are therefore not modelled.

The office:

- `customers/customers.service.ts:377`. Whether a retiring contact was the
  primary one is read before the transaction, and a retired contact may be
  promoted and reactivated: a Customer may have two primary contacts, or none, against
  the tests at `customers/customers.service.spec.ts:297` and `:310`. `PrimaryStaysSole`
  says that these two writes are the only ways there.
- `customers/customers.service.ts:454`. A property added between the count and the
  delete goes with the Customer, by cascade.
- `attention/attention.service.ts:459`. A mark or an assignment read before an item was
  resolved and reopened is written to the new occurrence, which ADR-0053:39 has
  start without either; no property of a run is about it.
- `attention/attention.service.ts:416`. `list()` reads the items after its reconciliation
  has committed (line 401): an assignment, written in between by a request that had
  checked its user before, puts an owner in the list who may not have the item any more.
  `ListedIsTrue` excepts that assignment.
- `correspondence/correspondence.service.ts:173`. A record may be made of a version that
  retired meanwhile, where `docs/CORRESPONDENCE_FOUNDATION_V1.md` says "Only a
  currently PUBLISHED" one. `WrittenToOnce` asks for one that was published.
- `correspondence/correspondence-work-order-events.service.ts:269`. The completion
  letter of an acknowledgement that a correction has withdrawn is still returned.

## 8. Not modelled, and the plan

The components marked `not_modelled` in `PROJECT.json` say why: plain records with
validated edits, user interface, object storage, bulk deletion. Of the components
that are partly modelled, these operations are left out:

- **Technician's device**: corrections of a completed visit and photos of incidents
  recorded offline, and interruptions (section 7).
- **Quote ingestion**: the signature of a Website request, stored photos, the replay of a
  submission and the daily counter, which stops at 9999.
- **Messaging**: signature checks and media of webhooks; profile look-ups.
- **User access**: reconciliation of a changed login, and tokens.
- **Technician job**: replays of an operation id (they write nothing) and scope mismatches.
- **Conversion**: the rows an accepted Quote creates, beyond how many.

What is left of the plan is proof: more of what is between the components, where two
of them write one row, and the type of the office's requests in finer detail.
