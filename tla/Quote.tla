------------------------------- MODULE Quote -------------------------------
(***************************************************************************)
(* The database rows of one Quote, shared by every component that reads or *)
(* writes it: the quotes row, the customer access grants that bind a       *)
(* bearer link to one revision, and the customer's response evidence; with *)
(* the guards and effects of the decisions the review service takes.       *)
(*                                                                         *)
(* A Serializable transaction is one atomic step.  Time passes by          *)
(* expiring the offer or a grant; nothing un-expires.                      *)
(***************************************************************************)
EXTENDS Naturals, FiniteSets

CONSTANTS
  Admins,             \* users who review and decide Quotes
  Grants,             \* ids of customer access grants
  MaxQuoteRevisions,  \* bound on the revisions of the Quote
  Nobody              \* SQL NULL

Customer == "CUSTOMER_SELF_SERVICE"   \* the reserved system actor

Actors == Admins \cup {Customer}

ASSUME NobodyIsNoActor == Nobody \notin Actors
ASSUME CustomerIsNoAdmin == Customer \notin Admins
ASSUME QuoteRevisionsBounded == MaxQuoteRevisions \in Nat \ {0}

-----------------------------------------------------------------------------
(* Rows *)

Open     == {"SUBMITTED", "NEEDS_ATTENTION"}
Decided  == {"ACCEPTED", "DECLINED"}
Answers  == {"CUSTOMER_ACCEPTED", "CUSTOMER_DECLINED"}

VARIABLES
  quote,          \* the quotes row
  grants,         \* the quote_customer_access_grants rows, by id
  responses,      \* the quote_customer_responses row of each grant
  offerExpired,   \* validUntil has passed
  lapsed,         \* the grants whose expires_at has passed
  serviceActive   \* the canonical Services the revision names are active

quoteRows == <<quote, grants, responses, offerExpired, lapsed, serviceActive>>

QuoteRow ==
  [status           : Open \cup Decided,
   revision         : 1..MaxQuoteRevisions,      \* currentRevisionNumber
   resolved         : 0..MaxQuoteRevisions,      \* resolutionRevisionNumber
   acceptedRevision : 0..MaxQuoteRevisions,      \* 0 stands for NULL
   decidedBy        : Actors \cup {Nobody},      \* accepted- or declinedByUserId
   workOrders       : Nat]                       \* Work Orders created from it

Grant ==
  [state    : {"ABSENT", "ACTIVE", "SUPERSEDED", "REVOKED"},
   revision : 0..MaxQuoteRevisions]

QuoteTypeOK ==
  /\ quote \in QuoteRow
  /\ grants \in [Grants -> Grant]
  /\ responses \in [Grants -> Answers \cup {"NONE"}]
  /\ offerExpired \in BOOLEAN
  /\ lapsed \subseteq Grants
  /\ serviceActive \in BOOLEAN

\* A Quote as ingestion leaves it: priced, or needing an Admin's attention.
QuoteInit ==
  /\ \E status \in Open :
       quote = [status |-> status, revision |-> 1, resolved |-> 0,
                acceptedRevision |-> 0, decidedBy |-> Nobody, workOrders |-> 0]
  /\ grants = [g \in Grants |-> [state |-> "ABSENT", revision |-> 0]]
  /\ responses = [g \in Grants |-> "NONE"]
  /\ offerExpired = FALSE
  /\ lapsed = {}
  /\ serviceActive \in BOOLEAN

-----------------------------------------------------------------------------
(* Decisions *)

\* What preflight can see: it does not look at the Services.
Eligible(expected) ==
  /\ quote.revision = expected
  /\ quote.status = "SUBMITTED"
  /\ ~offerExpired
  /\ quote.resolved = expected

\* accept() converts the Quote.
Acceptable(expected) == Eligible(expected) /\ serviceActive

\* accept() finds its work already done.
AlreadyAccepted(expected) ==
  /\ quote.revision = expected
  /\ quote.status = "ACCEPTED"
  /\ quote.acceptedRevision = expected

\* The row after accept(), together with the Work Order it creates.
AcceptedBy(actor) ==
  [quote EXCEPT !.status = "ACCEPTED", !.decidedBy = actor,
                !.acceptedRevision = quote.revision,
                !.workOrders = quote.workOrders + 1]

\* Mutant of Declinable: only a decline is looked for.
DeclinableUnlessDeclined(expected) ==
  quote.revision = expected /\ quote.status # "DECLINED"

\* decline() changes the Quote.
Declinable(expected) == quote.revision = expected /\ quote.status \in Open

\* decline() finds its work already done, by the same actor.
AlreadyDeclined(expected, actor) ==
  /\ quote.revision = expected
  /\ quote.status = "DECLINED"
  /\ quote.decidedBy = actor

DeclinedBy(actor) == [quote EXCEPT !.status = "DECLINED", !.decidedBy = actor]

-----------------------------------------------------------------------------
(* Grants *)

\* The grant still carries the offer: it is neither revoked, superseded nor
\* expired, and its revision is the current one.
Usable(g) ==
  /\ grants[g].state = "ACTIVE"
  /\ g \notin lapsed
  /\ ~offerExpired
  /\ grants[g].revision = quote.revision

\* The current revision may be offered to the customer.
Offerable(expected) ==
  /\ quote.status = "SUBMITTED"
  /\ quote.revision = expected
  /\ ~offerExpired

\* issue(): grant g replaces the grant that is active now, if there is one.
Issued(g) ==
  [h \in Grants |->
     IF h = g THEN [state |-> "ACTIVE", revision |-> quote.revision]
     ELSE IF grants[h].state = "ACTIVE" THEN [grants[h] EXCEPT !.state = "SUPERSEDED"]
     ELSE grants[h]]

=============================================================================
