------------------------- MODULE ConversationSystem -------------------------
(***************************************************************************)
(* A conversation with both ways of asking for a Quote: the questions of   *)
(* the collector and the WhatsApp form.  While a form is open, ordinary    *)
(* messages are help, and no answers.                                      *)
(***************************************************************************)
EXTENDS QuoteForm

systemVars == <<convVars, formVars>>

Init == ConversationInit /\ FormInit

\* The form owns the message: the collector does not see it.
Own(w) ==
  /\ work[w] # Idle /\ work[w].step = "received"
  /\ FormActive
  /\ sessions' = Expired(sessions)
  /\ Answer(w)
  /\ UNCHANGED <<control, conv, quotes, outbox, failures, reviews, offer, filing, filed>>

CollectorStep(w) == DeliveryStep(w) /\ (FormActive => work[w].step # "received")

FailCompletion(d) ==
  /\ failures < MaxFailures /\ failures' = failures + 1
  /\ FailFiling(d)
  /\ UNCHANGED <<control, conv, quotes, inbox, outbox, work, reviews>>

Next ==
  \/ \E w \in Workers : Own(w)
  \/ /\ \/ \E w \in Workers, m \in Messages : Deliver(w, m)
        \/ \E w \in Workers : CollectorStep(w) \/ Fail(w)
        \/ StatusAccepted \/ Transfer
        \/ \E required \in BOOLEAN : SetHumanReview(required)
     /\ UNCHANGED formVars
  \/ FormStep /\ UNCHANGED convVars
  \/ \E d \in Filings : FailCompletion(d)

\* The provider repeats what was not answered, and handlers go on until they
\* end or fail.
Fairness ==
  /\ \A w \in Workers : WF_systemVars(Own(w) \/ (CollectorStep(w) /\ UNCHANGED formVars))
  /\ \A m \in Messages :
       WF_systemVars(/\ inbox[m].status = "UNANSWERED"
                     /\ \E w \in Workers : Deliver(w, m)
                     /\ UNCHANGED formVars)

Spec == Init /\ [][Next]_systemVars /\ Fairness

-----------------------------------------------------------------------------
(* The collector *)

\* What the customer was shown: the text of the summary the state points at.
Shown ==
  IF conv.summary = None THEN None
  ELSE (CHOOSE sent \in Summaries : sent.version = conv.summary).facts

Made == {m \in Messages : quotes[m] # None}

Submitted ==
  IF Made = {} THEN None
  ELSE IF Cardinality(Made) = 1 THEN quotes[CHOOSE m \in Made : TRUE]
  ELSE "several"

Request == INSTANCE QuoteRequest WITH
  Facts     <- Draft,
  facts     <- conv.draft,
  shown     <- Shown,
  confirmed <- conv.confirmation # None,
  sent      <- conv.key # None,
  quote     <- Submitted

\* The conversation keeps the promise of QuoteRequest, although webhooks come
\* twice and at once, deliveries stop between the reservation of the key, the
\* Quote and its link, and persons take the conversation over: one Quote, of
\* the very facts the summary showed.
ImplementsQuoteRequest == Request!Spec

\* Only a delivery that was taken up under the authority that still stands
\* changes the request: a takeover stops the deliveries that are under way,
\* and handing back does not revive them.
TakeoverStopsDeliveries ==
  [][conv' # conv /\ reviews' = reviews =>
       /\ control.state = "AUTOMATION"
       /\ \E w \in Workers :
            work'[w] # work[w] /\ work[w].authority = control.version]_systemVars

Sending(m) == \E w \in Workers : work[w] # Idle /\ work[w].step = "send" /\ work[w].message = m

\* A confirmed request becomes a Quote unless a person steps in or a form is
\* opened: a delivery that fails is repeated, and the next one goes on where it
\* stopped.  Excepted is a CONFIRM that another delivery of it, still sending a
\* prompt, may answer, and facts that the contract refuses for good.
ConfirmedIsSubmitted ==
  \A m \in Messages :
    /\ conv.confirmation = m /\ conv.draft \notin Invalid
    /\ inbox[m].status = "UNANSWERED" /\ ~Sending(m)
    ~> conv.quote = m \/ control.version > 0 \/ reviews > 0 \/ FormActive

-----------------------------------------------------------------------------
(* The form *)

\* A form is captured once, and what came of it stays: one Quote of the facts
\* captured, or a human review, never both.
FormOutcomeIsFinal ==
  [][\A s \in Sessions :
       LET was == sessions[s]  is == sessions'[s]
       IN  /\ was.evidence # None => is.evidence = was.evidence
           /\ was.made # None => is.made = was.made
           /\ is.made \in {None, is.evidence}
           /\ is.quote => is.made # None /\ ~is.held]_systemVars

=============================================================================
