---------------------------- MODULE QuoteOffice ----------------------------
(***************************************************************************)
(* What the office does with a Quote: match resolution, acceptance,        *)
(* decline, pricing review, issuing and revoking customer access; and what *)
(* happens around it: time passes and Services are switched on and off.    *)
(*                                                                         *)
(* The pricing review reads the Quote and asks the cost provider before    *)
(* its transaction, so it is a handler of two steps.                       *)
(***************************************************************************)
EXTENDS Quote

CONSTANT Pricers   \* pricing reviews the API may be serving at once

VARIABLE pricing   \* the revision each pricing review has read, 0 for none

PricingTypeOK == pricing \in [Pricers -> 0..(MaxQuoteRevisions - 1)]

PricingInit == pricing = [p \in Pricers |-> 0]

-----------------------------------------------------------------------------
\* recordResolution: once, whatever the status.
RecordResolution ==
  /\ quote.resolved = 0
  /\ quote' = [quote EXCEPT !.resolved = quote.revision]
  /\ UNCHANGED <<grants, responses, offerExpired, lapsed, serviceActive, pricing>>

\* accept, by an Admin who has the current revision in front of him.
Accept(actor) ==
  /\ Acceptable(quote.revision)
  /\ quote' = AcceptedBy(actor)
  /\ UNCHANGED <<grants, responses, offerExpired, lapsed, serviceActive, pricing>>

\* decline
Decline(actor) ==
  /\ Declinable(quote.revision)
  /\ quote' = DeclinedBy(actor)
  /\ UNCHANGED <<grants, responses, offerExpired, lapsed, serviceActive, pricing>>

\* review, up to the answer of the cost provider.
PricingRead(p) ==
  /\ pricing[p] = 0
  /\ quote.status \in Open
  /\ quote.revision < MaxQuoteRevisions
  /\ pricing' = [pricing EXCEPT ![p] = quote.revision]
  /\ UNCHANGED quoteRows

\* Mutant of Repriceable: the transaction checks the revision only.
RepriceableByRevision(expected) == quote.revision = expected

Repriceable(expected) == quote.revision = expected /\ quote.status \in Open

\* A resolution of the revision that is replaced becomes one of the new one.
CarriedResolution ==
  IF quote.resolved = quote.revision THEN quote.revision + 1 ELSE quote.resolved

\* The transaction of review(): a new revision, priced or still incomplete.
PricingCommit(p) ==
  \E status \in Open :
    /\ pricing[p] # 0
    /\ Repriceable(pricing[p])
    /\ quote' = [quote EXCEPT !.revision = quote.revision + 1, !.status = status,
                              !.resolved = CarriedResolution]
    /\ pricing' = [pricing EXCEPT ![p] = 0]
    /\ UNCHANGED <<grants, responses, offerExpired, lapsed, serviceActive>>

PricingRefused(p) ==
  /\ pricing[p] # 0
  /\ ~Repriceable(pricing[p])
  /\ pricing' = [pricing EXCEPT ![p] = 0]
  /\ UNCHANGED quoteRows

\* issue, for the access endpoint or the WhatsApp composer.
IssueGrant(g) ==
  /\ grants[g].state = "ABSENT"
  /\ Offerable(quote.revision)
  /\ grants' = Issued(g)
  /\ UNCHANGED <<quote, responses, offerExpired, lapsed, serviceActive, pricing>>

\* revoke: the active grant, when it is one of the current revision.
Revoke ==
  \E g \in Grants :
    /\ grants[g].state = "ACTIVE"
    /\ grants[g].revision = quote.revision
    /\ grants' = [grants EXCEPT ![g].state = "REVOKED"]
    /\ UNCHANGED <<quote, responses, offerExpired, lapsed, serviceActive, pricing>>

-----------------------------------------------------------------------------
\* A grant expires at validUntil at the latest.
TimePasses ==
  /\ \/ \E g \in Grants \ lapsed :
          /\ grants[g].state # "ABSENT"
          /\ lapsed' = lapsed \cup {g}
          /\ UNCHANGED offerExpired
     \/ /\ ~offerExpired
        /\ offerExpired' = TRUE
        /\ lapsed' = {g \in Grants : g \in lapsed \/ grants[g].state # "ABSENT"}
  /\ UNCHANGED <<quote, grants, responses, serviceActive, pricing>>

\* The Services component switches a Service on or off.
SwitchService ==
  /\ serviceActive' = ~serviceActive
  /\ UNCHANGED <<quote, grants, responses, offerExpired, lapsed, pricing>>

QuoteOfficeStep ==
  \/ RecordResolution
  \/ \E a \in Admins : Accept(a) \/ Decline(a)
  \/ \E p \in Pricers : PricingRead(p) \/ PricingCommit(p) \/ PricingRefused(p)
  \/ \E g \in Grants : IssueGrant(g)
  \/ Revoke
  \/ TimePasses
  \/ SwitchService

=============================================================================
