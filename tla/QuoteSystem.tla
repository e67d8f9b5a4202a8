---------------------------- MODULE QuoteSystem ----------------------------
(***************************************************************************)
(* One Quote with everybody who acts on it: the office, the customer who   *)
(* holds a link, and the delivery of that link by e-mail.                  *)
(***************************************************************************)
EXTENDS QuoteOffice, CustomerResponse, QuoteDelivery

quoteVars == <<quoteRows, pricing, respond, told, deliveryRows, send, recover>>

QuoteSystemTypeOK ==
  QuoteTypeOK /\ PricingTypeOK /\ ResponseTypeOK /\ DeliveryTypeOK

Init == QuoteInit /\ PricingInit /\ ResponseInit /\ DeliveryInit

Next ==
  \/ QuoteOfficeStep /\ UNCHANGED <<respond, told, deliveryRows, send, recover>>
  \/ ResponseStep /\ UNCHANGED <<pricing, deliveryRows, send, recover>>
  \/ DeliveryStep /\ UNCHANGED <<pricing, respond, told>>

Spec == Init /\ [][Next]_quoteVars

-----------------------------------------------------------------------------
(* The decision *)

\* A decision is taken once: neither a second decision, nor a pricing review
\* that was under way, changes the status, the revision or the actor of a
\* decided Quote.
DecisionIsFinal ==
  [][quote.status \in Decided =>
       quote' = [quote EXCEPT !.resolved = quote'.resolved]]_quoteVars

\* An accepted Quote has exactly one Work Order, created from the accepted
\* revision, which is the current one and the one whose matches were resolved;
\* any other Quote has none.
ConvertedOnce ==
  IF quote.status = "ACCEPTED"
    THEN /\ quote.workOrders = 1
         /\ quote.acceptedRevision = quote.revision
         /\ quote.resolved = quote.revision
    ELSE quote.workOrders = 0 /\ quote.acceptedRevision = 0

\* A resolution is recorded once and follows the revisions: it never points at
\* an old one, which could neither be accepted nor resolved again.
ResolutionIsCurrent == quote.resolved \in {0, quote.revision}

\* When the system itself decided, the customer's evidence for that decision
\* exists, given on a link to the very revision that was decided.
CustomerDecisionEvidenced ==
  quote.decidedBy = Customer =>
    \E g \in Grants :
      /\ grants[g].revision = quote.revision
      /\ responses[g] = IF quote.status = "ACCEPTED" THEN "CUSTOMER_ACCEPTED"
                                                     ELSE "CUSTOMER_DECLINED"

\* What the customer was told is so: told CONVERTED, the revision the link
\* shows was accepted; told DECLINED, the Quote was declined.
ToldTheTruth ==
  \A g \in Grants :
    /\ told[g] = "CONVERTED" =>
         quote.status = "ACCEPTED" /\ quote.acceptedRevision = grants[g].revision
    /\ told[g] = "DECLINED" => quote.status = "DECLINED"

\* An answer is recorded through a live link to the current revision, while
\* the Quote is open, and is never replaced by another answer on that link.
AnswerRecordedInTime ==
  [][\A g \in Grants :
       responses'[g] # responses[g] =>
         /\ responses[g] = "NONE"
         /\ quote.status \in Open
         /\ grants[g].state = "ACTIVE" /\ g \notin lapsed /\ ~offerExpired
         /\ grants[g].revision = quote.revision]_quoteVars

-----------------------------------------------------------------------------
(* The delivery *)

\* RECOVERY_GUIDE.md:5, a lost answer leaves an attempt "uncertain, not failed": an
\* outcome in the provider's name is never a guess.  ACCEPTED, the provider has taken
\* the mail; FAILED, it has answered with an error, which may be one after taking it.
OutcomeIsTrue ==
  \A a \in DOMAIN attempts :
    attempts[a].source = "provider" =>
      provider[a] \in (IF attempts[a].outcome = "ACCEPTED" THEN TookMail
                                                         ELSE {"rejected", "faulted"})

\* The answer, its recovery and an Admin may all settle one attempt: the first
\* outcome stays.
OutcomeWrittenOnce ==
  [][\A a \in DOMAIN attempts :
       attempts[a].outcome # "PENDING" => attempts'[a] = attempts[a]]_quoteVars

\* The link in an e-mail shows the revision the e-mail is about.
LinkOfItsRevision ==
  \A a \in DOMAIN attempts : grants[attempts[a].grant].revision = attempts[a].revision

\* The look for an uncertain attempt and the commit of a new one are apart, so that two
\* sends may both go ahead.  Nothing else doubles one: an attempt is committed beside an
\* uncertain one of its revision only if that one came after its look, whatever is lost,
\* settled, issued and revised in between (assertNoUnreconciledEmailAttempt).
UncertainOnlyByRaces ==
  [][\A s \in Senders : SendAttempt(s) =>
       \A a \in Uncertain(send[s].expected) : a > send[s].attempt]_quoteVars

=============================================================================
