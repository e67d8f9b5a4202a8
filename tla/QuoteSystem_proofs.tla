------------------------ MODULE QuoteSystem_proofs ------------------------
(***************************************************************************)
(* Proofs about QuoteSystem, for every number of Admins, links, revisions, *)
(* delivery attempts and requests in flight.                               *)
(***************************************************************************)
EXTENDS QuoteSystem, FiniteSetTheorems, TLAPS

-----------------------------------------------------------------------------
(* Type correctness *)

LEMMA QuoteInitTypeOK == Init => QuoteSystemTypeOK
<1> SUFFICES ASSUME Init PROVE QuoteSystemTypeOK
  OBVIOUS
<1>1. quote \in QuoteRow
  BY QuoteRevisionsBounded DEF Init, QuoteInit, QuoteRow, Open
<1>2. grants \in [Grants -> Grant] /\ responses \in [Grants -> Answers \cup {"NONE"}]
  BY QuoteRevisionsBounded DEF Init, QuoteInit, Grant
<1>3. QuoteTypeOK
  BY <1>1, <1>2 DEF Init, QuoteInit, QuoteTypeOK
<1>4. PricingTypeOK
  BY QuoteRevisionsBounded DEF Init, PricingInit, PricingTypeOK
<1>5. ResponseTypeOK
  BY DEF Init, ResponseInit, ResponseTypeOK, Waiting, RespondPhases, Told
<1>6. DeliveryTypeOK
  <2>1. attempts \in Seq(Attempt) /\ Len(attempts) <= MaxAttempts
    BY AttemptsBounded DEF Init, DeliveryInit
  <2>2. NotSending \in SendState
    BY QuoteRevisionsBounded, AttemptsBounded DEF NotSending, SendState
  <2> QED BY <2>1, <2>2, AttemptsBounded DEF Init, DeliveryInit, DeliveryTypeOK
<1> QED BY <1>3, <1>4, <1>5, <1>6 DEF QuoteSystemTypeOK

LEMMA QuoteFrame ==
  ASSUME QuoteTypeOK, UNCHANGED quoteRows
  PROVE  QuoteTypeOK'
  BY DEF QuoteTypeOK, quoteRows

LEMMA DecidedRows ==
  ASSUME QuoteTypeOK, NEW actor \in Actors
  PROVE  AcceptedBy(actor) \in QuoteRow /\ DeclinedBy(actor) \in QuoteRow
<1>1. quote \in QuoteRow /\ quote.revision \in 0..MaxQuoteRevisions /\ quote.workOrders + 1 \in Nat
  BY QuoteRevisionsBounded DEF QuoteTypeOK, QuoteRow
<1>2. AcceptedBy(actor) \in QuoteRow
  BY <1>1 DEF QuoteRow, AcceptedBy, Decided
<1>3. DeclinedBy(actor) \in QuoteRow
  BY <1>1 DEF QuoteRow, DeclinedBy, Decided
<1> QED BY <1>2, <1>3

LEMMA IssuedGrants ==
  ASSUME QuoteTypeOK, NEW g \in Grants
  PROVE  Issued(g) \in [Grants -> Grant]
  BY DEF QuoteTypeOK, QuoteRow, Grant, Issued

LEMMA OfficeStepTypeOK ==
  ASSUME QuoteTypeOK, PricingTypeOK, QuoteOfficeStep
  PROVE  QuoteTypeOK' /\ PricingTypeOK'
<1>1. ASSUME RecordResolution
      PROVE  QuoteTypeOK' /\ PricingTypeOK'
  BY <1>1 DEF RecordResolution, QuoteTypeOK, QuoteRow, PricingTypeOK
<1>2. ASSUME NEW a \in Admins, Accept(a) \/ Decline(a)
      PROVE  QuoteTypeOK' /\ PricingTypeOK'
  BY <1>2, DecidedRows DEF Accept, Decline, Actors, QuoteTypeOK, PricingTypeOK
<1>3. ASSUME NEW p \in Pricers, PricingRead(p) \/ PricingRefused(p)
      PROVE  QuoteTypeOK' /\ PricingTypeOK'
  <2>1. quote.revision < MaxQuoteRevisions =>
          {0, quote.revision} \subseteq 0..(MaxQuoteRevisions - 1)
    BY QuoteRevisionsBounded DEF QuoteTypeOK, QuoteRow
  <2>2. 0 \in 0..(MaxQuoteRevisions - 1)
    BY QuoteRevisionsBounded
  <2> QED BY <1>3, <2>1, <2>2, QuoteFrame DEF PricingRead, PricingRefused, PricingTypeOK
<1>4. ASSUME NEW p \in Pricers, PricingCommit(p)
      PROVE  QuoteTypeOK' /\ PricingTypeOK'
  <2>1. PICK status \in Open :
          quote' = [quote EXCEPT !.revision = quote.revision + 1, !.status = status,
                                 !.resolved = CarriedResolution]
    BY <1>4 DEF PricingCommit
  <2>2. quote.revision + 1 \in 1..MaxQuoteRevisions
    BY <1>4, QuoteRevisionsBounded DEF PricingCommit, Repriceable, PricingTypeOK, QuoteTypeOK, QuoteRow
  <2>3. CarriedResolution \in 0..MaxQuoteRevisions
    BY <2>2, QuoteRevisionsBounded DEF CarriedResolution, QuoteTypeOK, QuoteRow
  <2>4. quote' \in QuoteRow
    BY <2>1, <2>2, <2>3 DEF QuoteTypeOK, QuoteRow
  <2>5. 0 \in 0..(MaxQuoteRevisions - 1)
    BY QuoteRevisionsBounded
  <2> QED BY <1>4, <2>4, <2>5 DEF PricingCommit, QuoteTypeOK, PricingTypeOK
<1>5. ASSUME NEW g \in Grants, IssueGrant(g)
      PROVE  QuoteTypeOK' /\ PricingTypeOK'
  BY <1>5, IssuedGrants DEF IssueGrant, QuoteTypeOK, PricingTypeOK
<1>6. ASSUME Revoke
      PROVE  QuoteTypeOK' /\ PricingTypeOK'
  BY <1>6 DEF Revoke, QuoteTypeOK, Grant, PricingTypeOK
<1>7. ASSUME TimePasses \/ SwitchService
      PROVE  QuoteTypeOK' /\ PricingTypeOK'
  BY <1>7 DEF TimePasses, SwitchService, QuoteTypeOK, PricingTypeOK
<1> QED BY <1>1, <1>2, <1>3, <1>4, <1>5, <1>6, <1>7 DEF QuoteOfficeStep

ResponseStates ==
  [Responders ->
     [phase : RespondPhases, grant : Grants \cup {Nobody}, answer : Answers \cup {"NONE"}]]

LEMMA ResponseStepTypeOK ==
  ASSUME QuoteTypeOK, ResponseTypeOK, ResponseStep
  PROVE  QuoteTypeOK' /\ ResponseTypeOK'
<1>1. PICK r \in Responders :
        \/ Resolve(r) \/ Record(r) \/ RecordRefused(r) \/ ReadStatus(r)
        \/ CustomerDecline(r) \/ Preflight(r) \/ CustomerAccept(r) \/ AfterConflict(r)
        \/ Stop(r)
  BY DEF ResponseStep
<1>2. /\ \A phase \in RespondPhases : Go(r, phase) => respond' \in ResponseStates
      /\ GiveUp(r) => respond' \in ResponseStates
  BY DEF Go, GiveUp, Waiting, ResponseTypeOK, ResponseStates, RespondPhases
<1>3. CASE Resolve(r)
  BY <1>3, QuoteFrame DEF Resolve, ResponseTypeOK, RespondPhases
<1>4. CASE Record(r)
  <2>1. ResponseTypeOK'
    BY <1>2, <1>4 DEF Record, ResponseTypeOK, ResponseStates, RespondPhases
  <2>2. responses' \in [Grants -> Answers \cup {"NONE"}]
    BY <1>4 DEF Record, QuoteTypeOK, ResponseTypeOK
  <2> QED BY <1>4, <2>1, <2>2 DEF Record, QuoteTypeOK
<1>5. CASE CustomerDecline(r) \/ CustomerAccept(r)
  <2>1. ResponseTypeOK'
    BY <1>2, <1>5 DEF CustomerDecline, CustomerAccept, Tell, ResponseTypeOK, ResponseStates,
                      RespondPhases, Told
  <2>2. quote' \in QuoteRow
    BY <1>5, DecidedRows DEF CustomerDecline, CustomerAccept, Actors, QuoteTypeOK
  <2> QED BY <1>5, <2>1, <2>2 DEF CustomerDecline, CustomerAccept, QuoteTypeOK
<1>6. CASE RecordRefused(r) \/ ReadStatus(r) \/ Preflight(r) \/ AfterConflict(r) \/ Stop(r)
  <2>1. ResponseTypeOK'
    BY <1>2, <1>6 DEF RecordRefused, ReadStatus, Preflight, AfterConflict, Stop, Tell,
                      ResponseTypeOK, ResponseStates, RespondPhases, Told
  <2> QED BY <1>6, <2>1, QuoteFrame DEF RecordRefused, ReadStatus, Preflight, AfterConflict, Stop
<1> QED BY <1>1, <1>3, <1>4, <1>5, <1>6

LEMMA NotSendingIsSendState == NotSending \in SendState
  BY QuoteRevisionsBounded, AttemptsBounded DEF NotSending, SendState

\* What a send in flight holds: a revision from the check on, a link from the
\* issue on.
SendHolds ==
  \A s \in Senders :
    /\ send[s].phase # "idle" => send[s].expected # 0
    /\ send[s].phase = "linked" => send[s].grant # Nobody

LEMMA DeliveryStepTypeOK ==
  ASSUME QuoteTypeOK, DeliveryTypeOK, SendHolds, DeliveryStep
  PROVE  QuoteTypeOK' /\ DeliveryTypeOK' /\ SendHolds'
<1>1. ASSUME NEW s \in Senders, NEW row \in SendState,
             send' = [send EXCEPT ![s] = row],
             row.phase # "idle" => row.expected # 0,
             row.phase = "linked" => row.grant # Nobody
      PROVE  send' \in [Senders -> SendState] /\ SendHolds'
  BY <1>1 DEF DeliveryTypeOK, SendHolds
<1>2. ASSUME NEW s \in Senders, SendCheck(s)
      PROVE  QuoteTypeOK' /\ DeliveryTypeOK' /\ SendHolds'
  <2> DEFINE row == [send[s] EXCEPT !.phase = "checked", !.expected = quote.revision,
                               !.attempt = Len(attempts)]
  <2>1. /\ send[s] \in SendState /\ quote.revision \in 0..MaxQuoteRevisions
        /\ quote.revision # 0 /\ Len(attempts) \in 0..MaxAttempts
    BY QuoteRevisionsBounded, AttemptsBounded DEF QuoteTypeOK, QuoteRow, DeliveryTypeOK
  <2>2. send' = [send EXCEPT ![s] = row]
    BY <1>2 DEF SendCheck, DeliveryTypeOK, SendState
  <2>3. row \in SendState /\ row.phase = "checked" /\ row.expected = quote.revision
    BY <2>1 DEF SendState
  <2> HIDE DEF row
  <2>4. send' \in [Senders -> SendState] /\ SendHolds'
    BY <1>1, <2>1, <2>2, <2>3
  <2> QED BY <1>2, <2>4, QuoteFrame DEF SendCheck, deliveryRows, DeliveryTypeOK
<1>3. ASSUME NEW s \in Senders, SendLink(s)
      PROVE  QuoteTypeOK' /\ DeliveryTypeOK' /\ SendHolds'
  <2>1. CASE send' = [send EXCEPT ![s] = NotSending]
    <3>1. send' \in [Senders -> SendState] /\ SendHolds'
      BY <1>1, <2>1, NotSendingIsSendState DEF NotSending
    <3>2. grants' \in [Grants -> Grant]
      BY <1>3, IssuedGrants DEF SendLink, QuoteTypeOK
    <3> QED BY <1>3, <3>1, <3>2 DEF SendLink, deliveryRows, QuoteTypeOK, DeliveryTypeOK
  <2>2. ASSUME NEW g \in Grants, grants' = Issued(g),
               send' = [send EXCEPT ![s].phase = "linked", ![s].grant = g]
        PROVE  QuoteTypeOK' /\ DeliveryTypeOK' /\ SendHolds'
    <3> DEFINE row == [send[s] EXCEPT !.phase = "linked", !.grant = g]
    <3>1. send[s] \in SendState /\ send[s].expected # 0
      BY <1>3 DEF SendLink, SendHolds, DeliveryTypeOK
    <3>2. send' = [send EXCEPT ![s] = row]
      BY <2>2 DEF DeliveryTypeOK, SendState
    <3>3. /\ row \in SendState /\ row.phase = "linked" /\ row.grant = g
          /\ row.expected = send[s].expected
      BY <3>1 DEF SendState
    <3> HIDE DEF row
    <3>4. send' \in [Senders -> SendState] /\ SendHolds'
      BY <1>1, <3>1, <3>2, <3>3, NobodyIsNoGrant
    <3> QED BY <1>3, <2>2, <3>4, IssuedGrants DEF SendLink, deliveryRows, QuoteTypeOK, DeliveryTypeOK
  <2> QED BY <1>3, <2>1, <2>2 DEF SendLink
<1>4. ASSUME NEW s \in Senders, SendAttempt(s)
      PROVE  QuoteTypeOK' /\ DeliveryTypeOK' /\ SendHolds'
  <2> DEFINE index == Len(attempts) + 1
             row == [send[s] EXCEPT !.phase = "attempted", !.attempt = index]
             attempt == [revision |-> send[s].expected, grant |-> send[s].grant,
                         outcome |-> "PENDING", source |-> "none"]
  <2>1. /\ send[s] \in SendState
        /\ send[s].expected \in 1..MaxQuoteRevisions /\ send[s].grant \in Grants
        /\ send[s].expected # 0 /\ Len(attempts) + 1 \in 1..MaxAttempts
    <3>1. send[s] \in SendState /\ Len(attempts) \in Nat /\ Len(attempts) < MaxAttempts
      BY <1>4 DEF SendAttempt, DeliveryTypeOK
    <3>2. send[s].expected # 0 /\ send[s].grant # Nobody
      BY <1>4 DEF SendAttempt, SendHolds
    <3> QED BY <3>1, <3>2, QuoteRevisionsBounded, AttemptsBounded DEF SendState
  <2>2. send' = [send EXCEPT ![s] = row]
    BY <1>4 DEF SendAttempt, DeliveryTypeOK, SendState
  <2>3. row \in SendState /\ row.phase = "attempted" /\ row.expected = send[s].expected
    <3>1. index \in 0..MaxAttempts
      BY <2>1, AttemptsBounded
    <3> HIDE DEF index
    <3> QED BY <2>1, <3>1 DEF SendState
  <2>4. attempt \in Attempt
    BY <2>1 DEF Attempt, Outcome
  <2>5. attempts' = Append(attempts, attempt)
    BY <1>4 DEF SendAttempt
  <2> HIDE DEF row, attempt, index
  <2>6. send' \in [Senders -> SendState] /\ SendHolds'
    BY <1>1, <2>1, <2>2, <2>3
  <2>7. attempts' \in Seq(Attempt) /\ Len(attempts') = Len(attempts) + 1
    BY <2>4, <2>5 DEF DeliveryTypeOK
  <2> QED BY <1>4, <2>1, <2>6, <2>7, QuoteFrame DEF SendAttempt, DeliveryTypeOK
<1>5. ASSUME NEW s \in Senders, SendMail(s)
      PROVE  QuoteTypeOK' /\ DeliveryTypeOK' /\ SendHolds'
  <2> DEFINE row == [send[s] EXCEPT !.phase = "mailed"]
  <2>1. send[s] \in SendState /\ send[s].expected # 0
    BY <1>5 DEF SendMail, SendHolds, DeliveryTypeOK
  <2>2. send' = [send EXCEPT ![s] = row]
    BY <1>5 DEF SendMail, DeliveryTypeOK, SendState
  <2>3. row \in SendState /\ row.phase = "mailed" /\ row.expected = send[s].expected
    BY <2>1 DEF SendState
  <2> HIDE DEF row
  <2>4. send' \in [Senders -> SendState] /\ SendHolds'
    BY <1>1, <2>1, <2>2, <2>3
  <2> QED BY <1>5, <2>4, QuoteFrame DEF SendMail, TookMail, DeliveryTypeOK
<1>6. ASSUME NEW a, NEW outcome \in Outcome, NEW source \in {"provider", "admin"},
             Settle(a, outcome, source)
      PROVE  attempts' \in Seq(Attempt) /\ Len(attempts') = Len(attempts)
  <2>1. CASE ~Settleable(a)
    BY <1>6, <2>1 DEF Settle, DeliveryTypeOK
  <2>2. CASE Settleable(a)
    <3>1. attempts[a] \in Attempt /\ a \in 1..Len(attempts)
      BY <2>2 DEF Settleable, DeliveryTypeOK
    <3>2. [attempts[a] EXCEPT !.outcome = outcome, !.source = source] \in Attempt
      BY <3>1 DEF Attempt
    <3>3. attempts' = [attempts EXCEPT ![a] =
                        [attempts[a] EXCEPT !.outcome = outcome, !.source = source]]
      BY <1>6, <2>2, <3>1 DEF Settle, DeliveryTypeOK
    <3> QED BY <3>1, <3>2, <3>3 DEF DeliveryTypeOK
  <2> QED BY <2>1, <2>2
<1>7. ASSUME NEW s \in Senders, SendOutcome(s) \/ SendStops(s)
      PROVE  QuoteTypeOK' /\ DeliveryTypeOK' /\ SendHolds'
  <2>1. send' \in [Senders -> SendState] /\ SendHolds'
    BY <1>1, <1>7, NotSendingIsSendState DEF SendOutcome, SendStops, NotSending
  <2>2. attempts' \in Seq(Attempt) /\ Len(attempts') = Len(attempts)
    BY <1>6, <1>7 DEF SendOutcome, SendStops, Answered, Outcome, deliveryRows, DeliveryTypeOK
  <2> QED BY <1>7, <2>1, <2>2, QuoteFrame DEF SendOutcome, SendStops, deliveryRows, DeliveryTypeOK
<1>8. ASSUME NEW a \in 1..MaxAttempts, Ingest(a)
      PROVE  QuoteTypeOK' /\ DeliveryTypeOK' /\ SendHolds'
  BY <1>8, QuoteFrame DEF Ingest, DeliveryTypeOK, SendHolds
<1>9. ASSUME NEW c \in Recoverers, RecoverRead(c) \/ RecoverRecord(c)
      PROVE  QuoteTypeOK' /\ DeliveryTypeOK' /\ SendHolds'
  <2>1. attempts' \in Seq(Attempt) /\ Len(attempts') = Len(attempts)
    BY <1>6, <1>9 DEF RecoverRead, RecoverRecord, Outcome, deliveryRows, DeliveryTypeOK
  <2>2. recover' \in [Recoverers -> 0..MaxAttempts]
    <3>1. CASE RecoverRecord(c)
      BY <3>1, AttemptsBounded DEF RecoverRecord, DeliveryTypeOK
    <3>2. CASE RecoverRead(c)
      <4>1. PICK a \in evidence : recover' = [recover EXCEPT ![c] = a]
        BY <3>2 DEF RecoverRead
      <4>2. a \in 0..MaxAttempts
        BY AttemptsBounded DEF DeliveryTypeOK
      <4> QED BY <4>1, <4>2 DEF DeliveryTypeOK
    <3> QED BY <1>9, <3>1, <3>2
  <2> QED BY <1>9, <2>1, <2>2, QuoteFrame
          DEF RecoverRead, RecoverRecord, deliveryRows, DeliveryTypeOK, SendHolds
<1>10. ASSUME RecordManually
       PROVE  QuoteTypeOK' /\ DeliveryTypeOK' /\ SendHolds'
  <2>1. attempts' \in Seq(Attempt) /\ Len(attempts') = Len(attempts)
    BY <1>6, <1>10 DEF RecordManually
  <2> QED BY <1>10, <2>1, QuoteFrame DEF RecordManually, DeliveryTypeOK, SendHolds
<1> QED BY <1>2, <1>3, <1>4, <1>5, <1>7, <1>8, <1>9, <1>10 DEF DeliveryStep

QuoteInvTypeOK == QuoteSystemTypeOK /\ SendHolds

LEMMA QuoteStepTypeOK ==
  ASSUME QuoteInvTypeOK, [Next]_quoteVars
  PROVE  QuoteInvTypeOK'
<1> USE DEF QuoteInvTypeOK, QuoteSystemTypeOK
<1>1. ASSUME QuoteOfficeStep, UNCHANGED <<respond, told, deliveryRows, send, recover>>
      PROVE  QuoteInvTypeOK'
  BY <1>1, OfficeStepTypeOK DEF ResponseTypeOK, DeliveryTypeOK, deliveryRows, SendHolds
<1>2. ASSUME ResponseStep, UNCHANGED <<pricing, deliveryRows, send, recover>>
      PROVE  QuoteInvTypeOK'
  BY <1>2, ResponseStepTypeOK DEF PricingTypeOK, DeliveryTypeOK, deliveryRows, SendHolds
<1>3. ASSUME DeliveryStep, UNCHANGED <<pricing, respond, told>>
      PROVE  QuoteInvTypeOK'
  BY <1>3, DeliveryStepTypeOK DEF PricingTypeOK, ResponseTypeOK
<1>4. ASSUME UNCHANGED quoteVars
      PROVE  QuoteInvTypeOK'
  BY <1>4, QuoteFrame DEF quoteVars, deliveryRows, PricingTypeOK, ResponseTypeOK, DeliveryTypeOK,
                          SendHolds
<1> QED BY <1>1, <1>2, <1>3, <1>4 DEF Next

LEMMA QuoteAlwaysTyped == Spec => []QuoteInvTypeOK
<1>1. Init => QuoteInvTypeOK
  BY QuoteInitTypeOK DEF Init, DeliveryInit, NotSending, SendHolds, QuoteInvTypeOK
<1> QED BY <1>1, QuoteStepTypeOK, PTL DEF Spec

\* Every row and every request in flight keeps its type.
THEOREM QuoteTypeCorrect == Spec => []QuoteSystemTypeOK
<1>1. QuoteInvTypeOK => QuoteSystemTypeOK
  BY DEF QuoteInvTypeOK
<1> QED BY <1>1, QuoteAlwaysTyped, PTL

-----------------------------------------------------------------------------
(* The decision *)

Repriced(status) ==
  [quote EXCEPT !.revision = quote.revision + 1, !.status = status,
                !.resolved = CarriedResolution]

\* All that any step does to the quotes row.
LEMMA QuoteChanges ==
  ASSUME QuoteInvTypeOK, [Next]_quoteVars
  PROVE  \/ UNCHANGED quote
         \/ quote.resolved = 0 /\ quote' = [quote EXCEPT !.resolved = quote.revision]
         \/ Acceptable(quote.revision) /\ \E actor \in Actors : quote' = AcceptedBy(actor)
         \/ Declinable(quote.revision) /\ \E actor \in Actors : quote' = DeclinedBy(actor)
         \/ quote.status \in Open /\ \E status \in Open : quote' = Repriced(status)
<1>1. CASE QuoteOfficeStep
  BY <1>1 DEF QuoteOfficeStep, RecordResolution, Accept, Decline, PricingRead, PricingCommit,
     PricingRefused, Repriceable, Repriced, IssueGrant, Revoke, TimePasses, SwitchService,
     quoteRows, Actors
<1>2. CASE ResponseStep
  <2>1. ASSUME NEW r \in Responders, CustomerDecline(r)
        PROVE  \/ UNCHANGED quote
               \/ Declinable(quote.revision) /\ quote' = DeclinedBy(Customer)
    BY <2>1 DEF CustomerDecline, Declinable
  <2>2. ASSUME NEW r \in Responders, CustomerAccept(r)
        PROVE  \/ UNCHANGED quote
               \/ Acceptable(quote.revision) /\ quote' = AcceptedBy(Customer)
    BY <2>2 DEF CustomerAccept, Acceptable, Eligible
  <2> QED BY <1>2, <2>1, <2>2 DEF ResponseStep, Resolve, Record, RecordRefused, ReadStatus,
          Preflight, AfterConflict, Stop, quoteRows, Actors
<1>3. CASE DeliveryStep
  BY <1>3 DEF DeliveryStep, SendCheck, SendLink, SendAttempt, SendMail, SendOutcome, SendStops,
     Ingest, RecoverRead, RecoverRecord, RecordManually, quoteRows
<1>4. CASE UNCHANGED quoteVars
  BY <1>4 DEF quoteVars, quoteRows
<1> QED BY <1>1, <1>2, <1>3, <1>4 DEF Next

LEMMA DecisionStep ==
  ASSUME QuoteInvTypeOK, [Next]_quoteVars, quote.status \in Decided
  PROVE  quote' = [quote EXCEPT !.resolved = quote'.resolved]
<1>1. quote \in QuoteRow /\ quote.status \notin Open
  BY DEF QuoteInvTypeOK, QuoteSystemTypeOK, QuoteTypeOK, Open, Decided
<1>2. \/ UNCHANGED quote
      \/ quote' = [quote EXCEPT !.resolved = quote.revision]
  BY <1>1, QuoteChanges DEF Acceptable, Eligible, Declinable, Open
<1> QED BY <1>1, <1>2 DEF QuoteRow

\* Whoever decides first, Admin or customer, decides for good: a later decision
\* or a pricing review that was under way changes nothing but the resolution.
THEOREM DecisionsAreFinal == Spec => DecisionIsFinal
<1>1. QuoteInvTypeOK /\ [Next]_quoteVars =>
        [quote.status \in Decided =>
           quote' = [quote EXCEPT !.resolved = quote'.resolved]]_quoteVars
  BY DecisionStep
<1> QED BY <1>1, QuoteAlwaysTyped, PTL DEF Spec, DecisionIsFinal

ConversionInv == ConvertedOnce /\ ResolutionIsCurrent

LEMMA ConversionStep ==
  ASSUME QuoteInvTypeOK, ConversionInv, [Next]_quoteVars
  PROVE  ConversionInv'
<1> USE DEF ConversionInv, ConvertedOnce, ResolutionIsCurrent
<1>0. quote \in QuoteRow /\ quote.revision # 0
  BY QuoteRevisionsBounded DEF QuoteInvTypeOK, QuoteSystemTypeOK, QuoteTypeOK, QuoteRow
<1>1. CASE UNCHANGED quote
  BY <1>1
<1>2. CASE quote.resolved = 0 /\ quote' = [quote EXCEPT !.resolved = quote.revision]
  <2>1. quote.status # "ACCEPTED"
    BY <1>0, <1>2
  <2> QED BY <1>0, <1>2, <2>1 DEF QuoteRow
<1>3. ASSUME NEW actor \in Actors, Acceptable(quote.revision), quote' = AcceptedBy(actor)
      PROVE  ConversionInv'
  BY <1>0, <1>3 DEF Acceptable, Eligible, AcceptedBy, QuoteRow
<1>4. ASSUME NEW actor \in Actors, Declinable(quote.revision), quote' = DeclinedBy(actor)
      PROVE  ConversionInv'
  BY <1>0, <1>4 DEF Declinable, DeclinedBy, Open, QuoteRow
<1>5. ASSUME NEW status \in Open, quote.status \in Open, quote' = Repriced(status)
      PROVE  ConversionInv'
  BY <1>0, <1>5 DEF Repriced, CarriedResolution, Open, QuoteRow
<1> QED BY <1>1, <1>2, <1>3, <1>4, <1>5, QuoteChanges

LEMMA AlwaysConversionInv == Spec => []ConversionInv
<1>1. Init => ConversionInv
  BY DEF Init, QuoteInit, Open, ConversionInv, ConvertedOnce, ResolutionIsCurrent
<1> QED BY <1>1, ConversionStep, QuoteAlwaysTyped, PTL DEF Spec

\* An accepted Quote has one Work Order, of the revision that was accepted and
\* resolved, whoever accepted it and however often acceptance is asked for.
THEOREM AlwaysConvertedOnce == Spec => []ConvertedOnce
<1>1. ConversionInv => ConvertedOnce
  BY DEF ConversionInv
<1> QED BY <1>1, AlwaysConversionInv, PTL

\* The one resolution of a Quote never falls behind its revisions.
THEOREM ResolutionStaysCurrent == Spec => []ResolutionIsCurrent
<1>1. ConversionInv => ResolutionIsCurrent
  BY DEF ConversionInv
<1> QED BY <1>1, AlwaysConversionInv, PTL

-----------------------------------------------------------------------------
(* The customer's answer *)

\* An issued link exists for good and shows the revision it was issued for.
LEMMA LinksAreKept ==
  ASSUME QuoteInvTypeOK, [Next]_quoteVars,
         NEW g \in Grants, grants[g].state # "ABSENT"
  PROVE  grants'[g].state # "ABSENT" /\ grants'[g].revision = grants[g].revision
<1> DEFINE Kept == grants'[g].state # "ABSENT" /\ grants'[g].revision = grants[g].revision
<1>0. grants \in [Grants -> Grant]
  BY DEF QuoteInvTypeOK, QuoteSystemTypeOK, QuoteTypeOK
<1>1. CASE UNCHANGED grants
  BY <1>1
<1>2. ASSUME NEW h \in Grants, grants[h].state = "ABSENT", grants' = Issued(h)
      PROVE  Kept
  BY <1>0, <1>2 DEF Issued, Grant
<1>3. ASSUME NEW h \in Grants, grants' = [grants EXCEPT ![h].state = "REVOKED"]
      PROVE  Kept
  BY <1>0, <1>3 DEF Grant
<1>4. \/ UNCHANGED grants
      \/ \E h \in Grants : grants[h].state = "ABSENT" /\ grants' = Issued(h)
      \/ \E h \in Grants : grants' = [grants EXCEPT ![h].state = "REVOKED"]
  <2>1. CASE QuoteOfficeStep
    BY <2>1 DEF QuoteOfficeStep, RecordResolution, Accept, Decline, PricingRead, PricingCommit,
       PricingRefused, IssueGrant, Revoke, TimePasses, SwitchService, quoteRows
  <2>2. CASE ResponseStep
    BY <2>2 DEF ResponseStep, Resolve, Record, RecordRefused, ReadStatus, CustomerDecline,
       Preflight, CustomerAccept, AfterConflict, Stop, quoteRows
  <2>3. CASE DeliveryStep
    BY <2>3 DEF DeliveryStep, SendCheck, SendLink, SendAttempt, SendMail, SendOutcome, SendStops,
       Ingest, RecoverRead, RecoverRecord, RecordManually, quoteRows
  <2>4. CASE UNCHANGED quoteVars
    BY <2>4 DEF quoteVars, quoteRows
  <2> QED BY <2>1, <2>2, <2>3, <2>4 DEF Next
<1> QED BY <1>1, <1>2, <1>3, <1>4

\* All that any step does to the answers.
LEMMA AnswerChanges ==
  ASSUME QuoteInvTypeOK, [Next]_quoteVars
  PROVE  \/ UNCHANGED responses
         \/ \E r \in Responders :
              /\ StillUsable(GrantOf(r)) /\ Answerable(GrantOf(r), respond[r].answer)
              /\ responses' = [responses EXCEPT ![GrantOf(r)] = respond[r].answer]
<1>1. CASE QuoteOfficeStep
  BY <1>1 DEF QuoteOfficeStep, RecordResolution, Accept, Decline, PricingRead, PricingCommit,
     PricingRefused, IssueGrant, Revoke, TimePasses, SwitchService, quoteRows
<1>2. CASE ResponseStep
  BY <1>2 DEF ResponseStep, Resolve, Record, RecordRefused, ReadStatus, CustomerDecline,
     Preflight, CustomerAccept, AfterConflict, Stop, quoteRows
<1>3. CASE DeliveryStep
  BY <1>3 DEF DeliveryStep, SendCheck, SendLink, SendAttempt, SendMail, SendOutcome, SendStops,
     Ingest, RecoverRead, RecoverRecord, RecordManually, quoteRows
<1>4. CASE UNCHANGED quoteVars
  BY <1>4 DEF quoteVars, quoteRows
<1> QED BY <1>1, <1>2, <1>3, <1>4 DEF Next

LEMMA AnswerStep ==
  ASSUME QuoteInvTypeOK, [Next]_quoteVars,
         NEW g \in Grants, responses'[g] # responses[g]
  PROVE  /\ responses[g] = "NONE"
         /\ quote.status \in Open
         /\ grants[g].state = "ACTIVE" /\ g \notin lapsed /\ ~offerExpired
         /\ grants[g].revision = quote.revision
<1>1. PICK r \in Responders :
        /\ StillUsable(GrantOf(r)) /\ Answerable(GrantOf(r), respond[r].answer)
        /\ responses' = [responses EXCEPT ![GrantOf(r)] = respond[r].answer]
  BY AnswerChanges
<1>2. responses \in [Grants -> Answers \cup {"NONE"}]
  BY DEF QuoteInvTypeOK, QuoteSystemTypeOK, QuoteTypeOK
<1>3. GrantOf(r) = g /\ responses'[g] = respond[r].answer
  BY <1>1, <1>2
<1>4. responses[g] = "NONE" /\ quote.status \in Open
  BY <1>1, <1>3 DEF Answerable, Open
<1> QED BY <1>1, <1>3, <1>4 DEF StillUsable, Usable

\* An answer counts only if given on a live link to the current revision of an
\* open Quote, and then it is the answer of that link for good, although
\* requests overlap the office's work and one another.
THEOREM AnswersComeInTime == Spec => AnswerRecordedInTime
<1>1. QuoteInvTypeOK /\ [Next]_quoteVars =>
        [\A g \in Grants :
           responses'[g] # responses[g] =>
             /\ responses[g] = "NONE"
             /\ quote.status \in Open
             /\ grants[g].state = "ACTIVE" /\ g \notin lapsed /\ ~offerExpired
             /\ grants[g].revision = quote.revision]_quoteVars
  BY AnswerStep
<1> QED BY <1>1, QuoteAlwaysTyped, PTL DEF Spec, AnswerRecordedInTime

Acting == {"checking", "accepting", "conflicted", "replaying"}

\* What a request in flight knows: its link was issued, and once the answer is
\* recorded, the answer it acts on is the one on record.
RequestKnows(r) ==
  respond[r].phase # "idle" =>
    /\ GrantOf(r) \in Grants
    /\ grants[GrantOf(r)].state # "ABSENT"
    /\ respond[r].answer \in Answers
    /\ respond[r].phase # "resolved" => responses[GrantOf(r)] = respond[r].answer
    /\ respond[r].phase = "declining" => respond[r].answer = "CUSTOMER_DECLINED"
    /\ respond[r].phase \in Acting => respond[r].answer = "CUSTOMER_ACCEPTED"

RequestsKnow == \A r \in Responders : RequestKnows(r)

\* Every answer and everything that was told belongs to an issued link.
OnIssuedLinks ==
  \A g \in Grants : responses[g] # "NONE" \/ told[g] # "NONE" => grants[g].state # "ABSENT"

\* A recorded answer stays as it is.
LEMMA AnswersStay ==
  ASSUME QuoteInvTypeOK, [Next]_quoteVars, NEW g \in Grants, responses[g] # "NONE"
  PROVE  responses'[g] = responses[g]
  BY AnswerStep

LEMMA KnowledgeStays ==
  ASSUME QuoteInvTypeOK, [Next]_quoteVars,
         NEW r \in Responders, RequestKnows(r), respond'[r] = respond[r]
  PROVE  RequestKnows(r)'
<1>1. CASE respond[r].phase = "idle"
  BY <1>1 DEF RequestKnows
<1>2. CASE respond[r].phase # "idle"
  <2>1. GrantOf(r) \in Grants /\ GrantOf(r)' = GrantOf(r)
    BY <1>2 DEF RequestKnows, GrantOf
  <2>2. grants'[GrantOf(r)].state # "ABSENT"
    BY <1>2, <2>1, LinksAreKept DEF RequestKnows
  <2>3. respond[r].phase # "resolved" => responses'[GrantOf(r)] = respond[r].answer
    BY <1>2, <2>1, AnswersStay DEF RequestKnows, Answers
  <2> QED BY <1>2, <2>1, <2>2, <2>3 DEF RequestKnows
<1> QED BY <1>1, <1>2

\* The request goes on to phase next with the answer it has.
LEMMA KnowledgeGoesOn ==
  ASSUME QuoteInvTypeOK, [Next]_quoteVars,
         NEW r \in Responders, RequestKnows(r), respond[r].phase # "idle",
         NEW next \in RespondPhases \ {"idle", "resolved"}, Go(r, next),
         responses'[GrantOf(r)] = respond[r].answer,
         next = "declining" => respond[r].answer = "CUSTOMER_DECLINED",
         next \in Acting => respond[r].answer = "CUSTOMER_ACCEPTED"
  PROVE  RequestKnows(r)'
<1>1. respond'[r].phase = next /\ GrantOf(r)' = GrantOf(r) /\ respond'[r].answer = respond[r].answer
  BY DEF Go, GrantOf, QuoteInvTypeOK, QuoteSystemTypeOK, ResponseTypeOK
<1>2. GrantOf(r) \in Grants /\ grants'[GrantOf(r)].state # "ABSENT"
  BY LinksAreKept DEF RequestKnows
<1> QED BY <1>1, <1>2 DEF RequestKnows

LEMMA KnowledgeEnds ==
  ASSUME QuoteInvTypeOK, NEW r \in Responders, GiveUp(r)
  PROVE  RequestKnows(r)'
  BY DEF GiveUp, Waiting, RequestKnows, QuoteInvTypeOK, QuoteSystemTypeOK, ResponseTypeOK

LEMMA RequestsKnowStep ==
  ASSUME QuoteInvTypeOK, RequestsKnow, [Next]_quoteVars
  PROVE  RequestsKnow'
<1>0. respond \in ResponseStates
  BY DEF QuoteInvTypeOK, QuoteSystemTypeOK, ResponseTypeOK, ResponseStates
<1>1. CASE UNCHANGED respond
  BY <1>1, KnowledgeStays DEF RequestsKnow
<1>2. ASSUME NEW r \in Responders,
             \/ Resolve(r) \/ Record(r) \/ RecordRefused(r) \/ ReadStatus(r)
             \/ CustomerDecline(r) \/ Preflight(r) \/ CustomerAccept(r) \/ AfterConflict(r)
             \/ Stop(r)
      PROVE  RequestsKnow'
  <2>1. \A q \in Responders \ {r} : respond'[q] = respond[q]
    BY <1>0, <1>2 DEF Resolve, Record, RecordRefused, ReadStatus, CustomerDecline, Preflight,
       CustomerAccept, AfterConflict, Stop, Go, GiveUp, Tell, ResponseStates
  <2>2. RequestKnows(r)'
    <3>1. CASE GiveUp(r)
      BY <3>1, KnowledgeEnds
    <3>2. CASE Resolve(r)
      BY <1>0, <3>2 DEF Resolve, Resolvable, Usable, RequestKnows, GrantOf, ResponseStates,
         quoteRows, Acting
    <3>3. CASE Record(r)
      <4>1. GrantOf(r) \in Grants /\ respond[r].phase # "idle"
        BY <3>3 DEF Record, RequestsKnow, RequestKnows
      <4>2. responses'[GrantOf(r)] = respond[r].answer
        BY <3>3, <4>1 DEF Record, QuoteInvTypeOK, QuoteSystemTypeOK, QuoteTypeOK
      <4> QED BY <3>3, <4>1, <4>2, KnowledgeGoesOn
              DEF Record, RequestsKnow, RespondPhases, Acting
    <3>4. ASSUME respond[r].phase \notin {"idle", "resolved"},
                 NEW next \in RespondPhases \ {"idle", "resolved"}, Go(r, next),
                 UNCHANGED responses,
                 next = "declining" => respond[r].answer = "CUSTOMER_DECLINED",
                 next \in Acting => respond[r].answer = "CUSTOMER_ACCEPTED"
          PROVE  RequestKnows(r)'
      BY <3>4, KnowledgeGoesOn DEF RequestsKnow, RequestKnows
    <3>5. CASE ReadStatus(r) /\ ~GiveUp(r)
      <4>1. respond[r].answer \in Answers
        BY <3>5 DEF ReadStatus, RequestsKnow, RequestKnows
      <4> QED BY <3>4, <3>5, <4>1 DEF ReadStatus, Tell, quoteRows, RespondPhases, Acting, Answers
    <3>6. CASE (Preflight(r) \/ CustomerAccept(r) \/ AfterConflict(r)) /\ ~GiveUp(r)
      <4>1. respond[r].answer = "CUSTOMER_ACCEPTED"
        BY <3>6 DEF Preflight, CustomerAccept, AfterConflict, RequestsKnow, RequestKnows, Acting
      <4> QED BY <3>4, <3>6, <4>1 DEF Preflight, CustomerAccept, AfterConflict, Tell,
              quoteRows, RespondPhases, Acting
    <3> QED BY <1>2, <3>1, <3>2, <3>3, <3>5, <3>6
            DEF RecordRefused, CustomerDecline, Stop, Tell
  <2> QED BY <2>1, <2>2, KnowledgeStays DEF RequestsKnow
<1> QED BY <1>1, <1>2 DEF Next, ResponseStep, quoteVars

\* What a request that tells its customer something finds, or does, as it does.
LEMMA Telling ==
  ASSUME QuoteInvTypeOK, RequestsKnow, [Next]_quoteVars,
         NEW g \in Grants, told'[g] # told[g]
  PROVE  /\ grants[g].state # "ABSENT" /\ grants'[g].state # "ABSENT"
         /\ told'[g] = "CONVERTED" =>
              quote'.status = "ACCEPTED" /\ quote'.acceptedRevision = grants[g].revision
         /\ told'[g] = "DECLINED" => quote'.status = "DECLINED"
<1>0. /\ told \in [Grants -> Told] /\ quote \in QuoteRow
  BY DEF QuoteInvTypeOK, QuoteSystemTypeOK, QuoteTypeOK, ResponseTypeOK
<1>1. PICK r \in Responders :
        \/ ReadStatus(r) \/ CustomerDecline(r) \/ Preflight(r)
        \/ CustomerAccept(r) \/ AfterConflict(r)
  <2>1. ResponseStep
    BY DEF Next, quoteVars
  <2> QED BY <2>1 DEF ResponseStep, Resolve, Record, RecordRefused, Stop
<1>2. respond[r].phase # "idle"
  BY <1>1 DEF ReadStatus, CustomerDecline, Preflight, CustomerAccept, AfterConflict
<1>3. PICK state \in Told : Tell(r, state)
  BY <1>1 DEF ReadStatus, CustomerDecline, Preflight, CustomerAccept, AfterConflict, Told
<1>4. g = GrantOf(r) /\ told'[g] = state
  BY <1>0, <1>3 DEF Tell
<1>5. grants[g].state # "ABSENT" /\ grants'[g].state # "ABSENT"
  BY <1>2, <1>4, LinksAreKept DEF RequestsKnow, RequestKnows
<1>6. CASE ReadStatus(r) \/ Preflight(r) \/ AfterConflict(r)
  <2>1. /\ UNCHANGED quote
        /\ \/ Tell(r, "DECLINED") /\ quote.status = "DECLINED"
           \/ Tell(r, "PENDING_INTERNAL_COMPLETION")
           \/ UNCHANGED told
    BY <1>6 DEF ReadStatus, Preflight, AfterConflict, quoteRows
  <2> QED BY <1>0, <1>4, <1>5, <2>1 DEF Tell
<1>7. CASE CustomerDecline(r)
  <2>1. /\ Tell(r, "DECLINED") \/ UNCHANGED told
        /\ \/ quote' = DeclinedBy(Customer)
           \/ UNCHANGED quote /\ quote.status = "DECLINED"
           \/ UNCHANGED told
    BY <1>7 DEF CustomerDecline, AlreadyDeclined
  <2> QED BY <1>0, <1>4, <1>5, <2>1 DEF Tell, DeclinedBy, QuoteRow
<1>8. CASE CustomerAccept(r)
  <2>1. /\ Tell(r, "CONVERTED") \/ UNCHANGED told
        /\ \/ quote' = AcceptedBy(Customer) /\ quote.revision = ExpectedBy(r)
           \/ /\ UNCHANGED quote /\ quote.status = "ACCEPTED"
              /\ quote.acceptedRevision = ExpectedBy(r)
           \/ UNCHANGED told
    BY <1>8 DEF CustomerAccept, Acceptable, Eligible, Recovered, AlreadyAccepted
  <2> QED BY <1>0, <1>4, <1>5, <2>1 DEF Tell, AcceptedBy, QuoteRow, ExpectedBy
<1> QED BY <1>1, <1>6, <1>7, <1>8

LEMMA OnIssuedLinksStep ==
  ASSUME QuoteInvTypeOK, RequestsKnow, OnIssuedLinks, [Next]_quoteVars
  PROVE  OnIssuedLinks'
<1>1. ASSUME NEW g \in Grants, responses'[g] # "NONE" \/ told'[g] # "NONE"
      PROVE  grants'[g].state # "ABSENT"
  <2>1. CASE told'[g] # told[g]
    BY <2>1, Telling
  <2>2. CASE responses'[g] # responses[g]
    BY <2>2, AnswerStep, LinksAreKept
  <2>3. CASE told'[g] = told[g] /\ responses'[g] = responses[g]
    BY <1>1, <2>3, LinksAreKept DEF OnIssuedLinks
  <2> QED BY <2>1, <2>2, <2>3
<1> QED BY <1>1 DEF OnIssuedLinks

LEMMA ToldStep ==
  ASSUME QuoteInvTypeOK, RequestsKnow, OnIssuedLinks, ToldTheTruth, [Next]_quoteVars
  PROVE  ToldTheTruth'
<1>1. ASSUME NEW g \in Grants
      PROVE  /\ told'[g] = "CONVERTED" =>
                  quote'.status = "ACCEPTED" /\ quote'.acceptedRevision = grants'[g].revision
             /\ told'[g] = "DECLINED" => quote'.status = "DECLINED"
  <2>1. CASE told'[g] # told[g]
    BY <2>1, Telling, LinksAreKept
  <2>2. CASE told'[g] = told[g] /\ told[g] \in {"CONVERTED", "DECLINED"}
    <3>1. grants'[g].revision = grants[g].revision
      BY <2>2, LinksAreKept DEF OnIssuedLinks
    <3>2. quote.status \in Decided /\ quote \in QuoteRow
      BY <2>2 DEF ToldTheTruth, Decided, QuoteInvTypeOK, QuoteSystemTypeOK, QuoteTypeOK
    <3>3. quote'.status = quote.status /\ quote'.acceptedRevision = quote.acceptedRevision
      BY <3>2, DecisionStep DEF QuoteRow
    <3> QED BY <2>2, <3>1, <3>3 DEF ToldTheTruth
  <2> QED BY <2>1, <2>2
<1> QED BY <1>1 DEF ToldTheTruth

EvidencedInv ==
  /\ quote.decidedBy = Customer => quote.status \in Decided
  /\ CustomerDecisionEvidenced

LEMMA EvidencedStep ==
  ASSUME QuoteInvTypeOK, RequestsKnow, OnIssuedLinks, EvidencedInv, [Next]_quoteVars
  PROVE  EvidencedInv'
<1>0. quote \in QuoteRow
  BY DEF QuoteInvTypeOK, QuoteSystemTypeOK, QuoteTypeOK
<1>1. CASE quote.decidedBy = Customer
  <2>1. quote' = [quote EXCEPT !.resolved = quote'.resolved] /\ quote.status \in Decided
    BY <1>1, DecisionStep DEF EvidencedInv
  <2>2. /\ quote'.status = quote.status /\ quote'.revision = quote.revision
        /\ quote'.decidedBy = quote.decidedBy
    BY <1>0, <2>1 DEF QuoteRow
  <2>3. PICK g \in Grants :
          /\ grants[g].revision = quote.revision
          /\ responses[g] = IF quote.status = "ACCEPTED" THEN "CUSTOMER_ACCEPTED"
                                                         ELSE "CUSTOMER_DECLINED"
    BY <1>1 DEF EvidencedInv, CustomerDecisionEvidenced
  <2>4. grants'[g].revision = grants[g].revision /\ responses'[g] = responses[g]
    BY <2>3, LinksAreKept, AnswersStay DEF OnIssuedLinks
  <2> QED BY <2>1, <2>2, <2>3, <2>4 DEF EvidencedInv, CustomerDecisionEvidenced
<1>2. CASE quote.decidedBy # Customer /\ quote'.decidedBy = Customer
  <2>1. PICK r \in Responders : CustomerDecline(r) \/ CustomerAccept(r)
    <3>1. ~QuoteOfficeStep
      BY <1>0, <1>2, CustomerIsNoAdmin
         DEF QuoteOfficeStep, RecordResolution, Accept, Decline, AcceptedBy, DeclinedBy,
             PricingRead, PricingCommit, PricingRefused, IssueGrant, Revoke, TimePasses,
             SwitchService, quoteRows, QuoteRow
    <3>2. ~DeliveryStep
      BY <1>2 DEF DeliveryStep, SendCheck, SendLink, SendAttempt, SendMail, SendOutcome,
         SendStops, Ingest, RecoverRead, RecoverRecord, RecordManually, quoteRows
    <3>3. ResponseStep
      BY <1>2, <3>1, <3>2 DEF Next, quoteVars, quoteRows
    <3> QED BY <1>2, <3>3 DEF ResponseStep, Resolve, Record, RecordRefused, ReadStatus,
            Preflight, AfterConflict, Stop, quoteRows
  <2>2. /\ GrantOf(r) \in Grants
        /\ responses[GrantOf(r)] = respond[r].answer
        /\ CustomerDecline(r) => respond[r].answer = "CUSTOMER_DECLINED"
        /\ CustomerAccept(r) => respond[r].answer = "CUSTOMER_ACCEPTED"
    BY <2>1 DEF CustomerDecline, CustomerAccept, RequestsKnow, RequestKnows, Acting
  <2>3. UNCHANGED <<grants, responses>>
    BY <2>1 DEF CustomerDecline, CustomerAccept
  <2>4. CASE CustomerDecline(r)
    <3>1. quote.revision = ExpectedBy(r) /\ quote' = DeclinedBy(Customer)
      BY <1>2, <2>4 DEF CustomerDecline, Declinable
    <3>2. quote'.status = "DECLINED" /\ quote'.revision = grants[GrantOf(r)].revision
      BY <1>0, <3>1 DEF DeclinedBy, ExpectedBy, QuoteRow
    <3> QED BY <2>2, <2>3, <2>4, <3>2 DEF EvidencedInv, CustomerDecisionEvidenced, Decided
  <2>5. CASE CustomerAccept(r)
    <3>1. quote.revision = ExpectedBy(r) /\ quote' = AcceptedBy(Customer)
      BY <1>2, <2>5 DEF CustomerAccept, Acceptable, Eligible
    <3>2. quote'.status = "ACCEPTED" /\ quote'.revision = grants[GrantOf(r)].revision
      BY <1>0, <3>1 DEF AcceptedBy, ExpectedBy, QuoteRow
    <3> QED BY <2>2, <2>3, <2>5, <3>2 DEF EvidencedInv, CustomerDecisionEvidenced, Decided
  <2> QED BY <2>1, <2>4, <2>5
<1>3. CASE quote'.decidedBy # Customer
  BY <1>3 DEF EvidencedInv, CustomerDecisionEvidenced
<1> QED BY <1>1, <1>2, <1>3

AnswerInv ==
  RequestsKnow /\ OnIssuedLinks /\ ToldTheTruth /\ EvidencedInv

LEMMA AlwaysAnswerInv == Spec => []AnswerInv
<1>1. Init => AnswerInv
  BY NobodyIsNoActor DEF Init, QuoteInit, ResponseInit, Waiting, AnswerInv, RequestsKnow,
     RequestKnows, OnIssuedLinks, ToldTheTruth, EvidencedInv, CustomerDecisionEvidenced, Actors
<1>2. QuoteInvTypeOK /\ AnswerInv /\ [Next]_quoteVars => AnswerInv'
  BY RequestsKnowStep, OnIssuedLinksStep, ToldStep, EvidencedStep DEF AnswerInv
<1> QED BY <1>1, <1>2, QuoteAlwaysTyped, PTL DEF Spec

\* A decision in the system's name has the customer's evidence behind it, on a
\* link to the revision that was decided.
THEOREM SelfServiceIsEvidenced == Spec => []CustomerDecisionEvidenced
<1>1. AnswerInv => CustomerDecisionEvidenced
  BY DEF AnswerInv, EvidencedInv
<1> QED BY <1>1, AlwaysAnswerInv, PTL

\* Whatever a customer was told, by a request that may have raced the office,
\* its own repetition or another link, is so and stays so.
THEOREM CustomersAreToldTheTruth == Spec => []ToldTheTruth
<1>1. AnswerInv => ToldTheTruth
  BY DEF AnswerInv
<1> QED BY <1>1, AlwaysAnswerInv, PTL

-----------------------------------------------------------------------------
(* The delivery *)

\* All that any step does to the attempts.
LEMMA AttemptChanges ==
  ASSUME QuoteInvTypeOK, [Next]_quoteVars
  PROVE  \/ UNCHANGED attempts
         \/ \E s \in Senders : SendAttempt(s) \/ SendOutcome(s)
         \/ \E c \in Recoverers : RecoverRecord(c)
         \/ RecordManually
<1>1. CASE DeliveryStep
  BY <1>1 DEF DeliveryStep, SendCheck, SendLink, SendMail, SendStops, Ingest, RecoverRead,
     deliveryRows
<1>2. CASE UNCHANGED deliveryRows \/ UNCHANGED quoteVars
  BY <1>2 DEF deliveryRows, quoteVars
<1> QED BY <1>1, <1>2 DEF Next

LEMMA Settled ==
  ASSUME QuoteInvTypeOK, NEW a, NEW outcome \in Outcome, NEW source \in {"provider", "admin"},
         Settle(a, outcome, source)
  PROVE  /\ DOMAIN attempts' = DOMAIN attempts
         /\ \A b \in DOMAIN attempts :
              /\ attempts'[b].revision = attempts[b].revision
              /\ attempts'[b].grant = attempts[b].grant
              /\ \/ attempts'[b] = attempts[b]
                 \/ /\ b = a /\ attempts[b].outcome = "PENDING"
                    /\ attempts'[b].outcome = outcome /\ attempts'[b].source = source
<1>0. attempts \in Seq(Attempt)
  BY DEF QuoteInvTypeOK, QuoteSystemTypeOK, DeliveryTypeOK
<1>1. CASE ~Settleable(a)
  BY <1>1 DEF Settle
<1>2. CASE Settleable(a)
  <2>1. /\ attempts' = [attempts EXCEPT ![a] =
                          [attempts[a] EXCEPT !.outcome = outcome, !.source = source]]
        /\ a \in DOMAIN attempts /\ attempts[a].outcome = "PENDING"
    BY <1>0, <1>2 DEF Settle, Settleable
  <2>2. attempts[a] \in Attempt
    BY <1>0, <2>1
  <2> QED BY <1>0, <2>1, <2>2 DEF Attempt
<1> QED BY <1>1, <1>2

LEMMA OutcomeStep ==
  ASSUME QuoteInvTypeOK, [Next]_quoteVars,
         NEW a \in DOMAIN attempts, attempts[a].outcome # "PENDING"
  PROVE  attempts'[a] = attempts[a]
<1>1. CASE UNCHANGED attempts
  BY <1>1
<1>2. ASSUME NEW s \in Senders, SendAttempt(s)
      PROVE  attempts'[a] = attempts[a]
  BY <1>2 DEF SendAttempt, QuoteInvTypeOK, QuoteSystemTypeOK, DeliveryTypeOK
<1>3. ASSUME NEW b, NEW outcome \in Outcome, NEW source \in {"provider", "admin"},
             Settle(b, outcome, source)
      PROVE  attempts'[a] = attempts[a]
  BY <1>3, Settled
<1>4. ASSUME NEW s \in Senders, SendOutcome(s)
      PROVE  attempts'[a] = attempts[a]
  BY <1>3, <1>4 DEF SendOutcome, Answered, Outcome
<1>5. ASSUME NEW c \in Recoverers, RecoverRecord(c)
      PROVE  attempts'[a] = attempts[a]
  BY <1>3, <1>5 DEF RecoverRecord, Outcome
<1>6. ASSUME RecordManually
      PROVE  attempts'[a] = attempts[a]
  BY <1>3, <1>6 DEF RecordManually
<1> QED BY <1>1, <1>2, <1>4, <1>5, <1>6, AttemptChanges

\* The first outcome of an attempt stays, whichever of the provider's answer,
\* the recovery and the Admin comes first.
THEOREM OutcomesAreWrittenOnce == Spec => OutcomeWrittenOnce
<1>1. QuoteInvTypeOK /\ [Next]_quoteVars =>
        [\A a \in DOMAIN attempts :
           attempts[a].outcome # "PENDING" => attempts'[a] = attempts[a]]_quoteVars
  BY OutcomeStep
<1> QED BY <1>1, QuoteAlwaysTyped, PTL DEF Spec, OutcomeWrittenOnce

\* The link a send has issued, and the link of an attempt, show their revision.
LinkInv ==
  /\ \A s \in Senders : send[s].phase = "linked" =>
       /\ grants[send[s].grant].state # "ABSENT"
       /\ grants[send[s].grant].revision = send[s].expected
  /\ \A a \in DOMAIN attempts : grants[attempts[a].grant].state # "ABSENT"
  /\ LinkOfItsRevision

LEMMA LinkStep ==
  ASSUME QuoteInvTypeOK, LinkInv, [Next]_quoteVars
  PROVE  LinkInv'
<1>0. /\ attempts \in Seq(Attempt) /\ send \in [Senders -> SendState]
      /\ grants \in [Grants -> Grant]
  BY DEF QuoteInvTypeOK, QuoteSystemTypeOK, DeliveryTypeOK, QuoteTypeOK
<1>1. ASSUME NEW s \in Senders, send'[s].phase = "linked"
      PROVE  /\ grants'[send'[s].grant].state # "ABSENT"
             /\ grants'[send'[s].grant].revision = send'[s].expected
  <2>1. CASE send'[s] = send[s]
    <3>1. send[s].grant \in Grants
      BY <1>0, <1>1, <2>1 DEF QuoteInvTypeOK, SendHolds, SendState
    <3> QED BY <1>1, <2>1, <3>1, LinksAreKept DEF LinkInv
  <2>2. CASE SendLink(s)
    <3>1. PICK g \in Grants :
            /\ LinkOffered(send[s].expected)
            /\ grants' = Issued(g)
            /\ send' = [send EXCEPT ![s].phase = "linked", ![s].grant = g]
      BY <1>0, <1>1, <2>2 DEF SendLink, NotSending
    <3>2. send'[s].grant = g /\ send'[s].expected = send[s].expected
      BY <1>0, <3>1 DEF SendState
    <3>3. grants'[g].state = "ACTIVE" /\ grants'[g].revision = quote.revision
      BY <3>1 DEF Issued
    <3> QED BY <3>1, <3>2, <3>3 DEF LinkOffered, Offerable
  <2>3. send'[s] = send[s] \/ SendLink(s)
    <3>1. ASSUME NEW r \in Senders,
                 \/ SendCheck(r) \/ SendLink(r) \/ SendAttempt(r)
                 \/ SendMail(r) \/ SendOutcome(r) \/ SendStops(r)
          PROVE  send'[s] = send[s] \/ SendLink(s)
      <4>1. CASE r # s
        BY <1>0, <3>1, <4>1 DEF SendCheck, SendLink, SendAttempt, SendMail, SendOutcome, SendStops,
           SendState
      <4>2. CASE r = s
        BY <1>0, <1>1, <3>1, <4>2 DEF SendCheck, SendAttempt, SendMail, SendOutcome, SendStops,
           SendState, NotSending
      <4> QED BY <4>1, <4>2
    <3>2. CASE DeliveryStep
      BY <3>1, <3>2 DEF DeliveryStep, Ingest, RecoverRead, RecoverRecord, RecordManually
    <3>3. CASE UNCHANGED send
      BY <3>3
    <3> QED BY <3>2, <3>3 DEF Next, quoteVars
  <2> QED BY <2>1, <2>2, <2>3
<1>2. ASSUME NEW a \in DOMAIN attempts'
      PROVE  /\ grants'[attempts'[a].grant].state # "ABSENT"
             /\ grants'[attempts'[a].grant].revision = attempts'[a].revision
  <2>1. CASE /\ a \in DOMAIN attempts
             /\ attempts'[a].grant = attempts[a].grant
             /\ attempts'[a].revision = attempts[a].revision
    <3>1. attempts[a] \in Attempt
      BY <1>0, <2>1
    <3>2. attempts[a].grant \in Grants
      BY <3>1 DEF Attempt
    <3>3. /\ grants[attempts[a].grant].state # "ABSENT"
          /\ grants[attempts[a].grant].revision = attempts[a].revision
      BY <2>1 DEF LinkInv, LinkOfItsRevision
    <3> QED BY <2>1, <3>2, <3>3, LinksAreKept
  <2>2. ASSUME NEW s \in Senders, SendAttempt(s), a \notin DOMAIN attempts
        PROVE  /\ grants'[attempts'[a].grant].state # "ABSENT"
               /\ grants'[attempts'[a].grant].revision = attempts'[a].revision
    <3>1. /\ attempts'[a].grant = send[s].grant /\ attempts'[a].revision = send[s].expected
      BY <1>0, <1>2, <2>2 DEF SendAttempt
    <3> QED BY <2>2, <3>1 DEF SendAttempt, LinkInv, quoteRows
  <2>3. ASSUME NEW s \in Senders, SendAttempt(s), a \in DOMAIN attempts
        PROVE  attempts'[a] = attempts[a]
    BY <1>0, <2>3 DEF SendAttempt
  <2>4. ASSUME NEW b, NEW outcome \in Outcome, NEW source \in {"provider", "admin"},
               Settle(b, outcome, source)
        PROVE  /\ a \in DOMAIN attempts
               /\ attempts'[a].grant = attempts[a].grant
               /\ attempts'[a].revision = attempts[a].revision
    BY <1>2, <2>4, Settled
  <2>5. ASSUME NEW s \in Senders, SendOutcome(s)
        PROVE  /\ a \in DOMAIN attempts
               /\ attempts'[a].grant = attempts[a].grant
               /\ attempts'[a].revision = attempts[a].revision
    <3>1. UNCHANGED attempts \/ \E outcome \in Outcome :
            Settle(send[s].attempt, outcome, "provider")
      BY <2>5 DEF SendOutcome, Answered, Outcome
    <3> QED BY <1>2, <2>4, <3>1
  <2>6. ASSUME (\E c \in Recoverers : RecoverRecord(c)) \/ RecordManually
        PROVE  /\ a \in DOMAIN attempts
               /\ attempts'[a].grant = attempts[a].grant
               /\ attempts'[a].revision = attempts[a].revision
    BY <2>4, <2>6 DEF RecoverRecord, RecordManually, Outcome
  <2> QED BY <1>2, <2>1, <2>2, <2>3, <2>5, <2>6, AttemptChanges
<1> QED BY <1>1, <1>2 DEF LinkInv, LinkOfItsRevision

\* A customer who opens the e-mail about a revision sees that revision or none,
\* although the Quote may be repriced between any two steps of the send.
THEOREM LinksShowTheirRevision == Spec => []LinkOfItsRevision
<1>1. Init => LinkInv
  BY DEF Init, DeliveryInit, NotSending, LinkInv, LinkOfItsRevision
<1>2. LinkInv => LinkOfItsRevision
  BY DEF LinkInv
<1> QED BY <1>1, <1>2, LinkStep, QuoteAlwaysTyped, PTL DEF Spec

Mailing == {"attempted", "mailed"}

\* Every send has an attempt to itself, about which the provider knows nothing
\* before the request is made.
SendsOwn ==
  /\ \A s \in Senders : send[s].phase \in Mailing => send[s].attempt \in DOMAIN attempts
  /\ \A s \in Senders : send[s].phase = "attempted" => provider[send[s].attempt] = "unseen"
  /\ \A s, t \in Senders :
       send[s].phase \in Mailing /\ send[t].phase \in Mailing
         /\ send[s].attempt = send[t].attempt => s = t
  /\ \A a \in 1..MaxAttempts : a \notin DOMAIN attempts => provider[a] = "unseen"

LEMMA AttemptsGrow ==
  ASSUME QuoteInvTypeOK, [Next]_quoteVars
  PROVE  DOMAIN attempts \subseteq DOMAIN attempts'
<1>0. attempts \in Seq(Attempt)
  BY DEF QuoteInvTypeOK, QuoteSystemTypeOK, DeliveryTypeOK
<1>1. ASSUME NEW s \in Senders, SendAttempt(s)
      PROVE  DOMAIN attempts \subseteq DOMAIN attempts'
  BY <1>0, <1>1 DEF SendAttempt
<1>2. ASSUME NEW b, NEW outcome \in Outcome, NEW source \in {"provider", "admin"},
             Settle(b, outcome, source)
      PROVE  DOMAIN attempts \subseteq DOMAIN attempts'
  BY <1>2, Settled
<1>3. ASSUME \/ \E s \in Senders : SendOutcome(s)
             \/ \E c \in Recoverers : RecoverRecord(c)
             \/ RecordManually
      PROVE  DOMAIN attempts \subseteq DOMAIN attempts'
  BY <1>2, <1>3 DEF SendOutcome, RecoverRecord, RecordManually, Answered, Outcome
<1> QED BY <1>1, <1>3, AttemptChanges

LEMMA SendsOwnStep ==
  ASSUME QuoteInvTypeOK, SendsOwn, [Next]_quoteVars
  PROVE  SendsOwn'
<1>0. /\ attempts \in Seq(Attempt) /\ send \in [Senders -> SendState]
      /\ provider \in [1..MaxAttempts -> {"unseen", "processed", "faulted", "rejected"}]
      /\ Len(attempts) <= MaxAttempts /\ Len(attempts) \in Nat /\ MaxAttempts \in Nat
      /\ DOMAIN attempts = 1..Len(attempts)
  BY AttemptsBounded DEF QuoteInvTypeOK, QuoteSystemTypeOK, DeliveryTypeOK
<1>1. ASSUME UNCHANGED provider,
             \A s \in Senders : send'[s].phase \in Mailing => send'[s] = send[s]
      PROVE  SendsOwn'
  BY <1>1, AttemptsGrow DEF SendsOwn, Mailing
<1>2. ASSUME NEW s \in Senders, SendAttempt(s)
      PROVE  SendsOwn'
  <2>1. /\ send'[s].phase = "attempted" /\ send'[s].attempt = Len(attempts) + 1
        /\ \A t \in Senders \ {s} : send'[t] = send[t]
        /\ DOMAIN attempts' = 1..(Len(attempts) + 1)
        /\ Len(attempts) + 1 \in 1..MaxAttempts
        /\ UNCHANGED provider
    BY <1>0, <1>2 DEF SendAttempt, SendState
  <2>2. Len(attempts) + 1 \notin DOMAIN attempts /\ DOMAIN attempts \subseteq DOMAIN attempts'
        /\ Len(attempts) + 1 \in DOMAIN attempts'
    BY <1>0, <2>1
  <2>3. provider'[Len(attempts) + 1] = "unseen"
    BY <2>1, <2>2 DEF SendsOwn
  <2>4. \A t \in Senders \ {s} :
          send[t].phase \in Mailing => send[t].attempt # Len(attempts) + 1
    BY <2>2 DEF SendsOwn
  <2> QED BY <2>1, <2>2, <2>3, <2>4 DEF SendsOwn
<1>3. ASSUME NEW s \in Senders, SendMail(s)
      PROVE  SendsOwn'
  <2>1. PICK fate : provider' = [provider EXCEPT ![send[s].attempt] = fate]
    BY <1>3 DEF SendMail
  <2>2. /\ send'[s].phase = "mailed" /\ send'[s].attempt = send[s].attempt
        /\ \A t \in Senders \ {s} : send'[t] = send[t]
        /\ send[s].phase = "attempted"
        /\ UNCHANGED attempts
    BY <1>0, <1>3 DEF SendMail, SendState
  <2>3. send[s].attempt \in DOMAIN attempts
    BY <2>2 DEF SendsOwn, Mailing
  <2>4. \A a \in 1..MaxAttempts : a # send[s].attempt => provider'[a] = provider[a]
    BY <1>0, <2>1
  <2>5. \A t \in Senders \ {s} : send[t].phase \in Mailing =>
          send[t].attempt # send[s].attempt /\ send[t].attempt \in 1..MaxAttempts
    BY <1>0, <2>2 DEF SendsOwn, Mailing
  <2>6. \A t \in Senders :
          send'[t].phase \in Mailing => send[t].phase \in Mailing /\ send'[t].attempt = send[t].attempt
    BY <2>2 DEF Mailing
  <2>7. /\ \A t \in Senders : send'[t].phase \in Mailing => send'[t].attempt \in DOMAIN attempts'
        /\ \A t, u \in Senders :
             send'[t].phase \in Mailing /\ send'[u].phase \in Mailing
               /\ send'[t].attempt = send'[u].attempt => t = u
    BY <2>2, <2>6 DEF SendsOwn
  <2>8. ASSUME NEW t \in Senders, send'[t].phase = "attempted"
        PROVE  provider'[send'[t].attempt] = "unseen"
    <3>1. t # s /\ send'[t] = send[t] /\ send[t].phase \in Mailing
      BY <2>2, <2>8 DEF Mailing
    <3>2. provider'[send[t].attempt] = provider[send[t].attempt]
      BY <2>4, <2>5, <3>1
    <3> QED BY <2>8, <3>1, <3>2 DEF SendsOwn
  <2>9. ASSUME NEW a \in 1..MaxAttempts, a \notin DOMAIN attempts'
        PROVE  provider'[a] = "unseen"
    BY <2>2, <2>3, <2>4, <2>9 DEF SendsOwn
  <2> QED BY <2>7, <2>8, <2>9 DEF SendsOwn
<1>4. ASSUME NEW s \in Senders, SendCheck(s) \/ SendLink(s) \/ SendOutcome(s) \/ SendStops(s)
      PROVE  SendsOwn'
  <2>1. \A t \in Senders : send'[t].phase \in Mailing => send'[t] = send[t]
    BY <1>0, <1>4 DEF SendCheck, SendLink, SendOutcome, SendStops, NotSending, SendState, Mailing
  <2>2. UNCHANGED provider
    BY <1>4 DEF SendCheck, SendLink, SendOutcome, SendStops, deliveryRows
  <2> QED BY <1>1, <2>1, <2>2
<1>5. ASSUME UNCHANGED <<send, provider>>
      PROVE  SendsOwn'
  BY <1>1, <1>5
<1> QED BY <1>2, <1>3, <1>4, <1>5
        DEF Next, DeliveryStep, Ingest, RecoverRead, RecoverRecord, RecordManually, quoteVars,
            deliveryRows

\* What happened at the provider does not change.
LEMMA ProviderStep ==
  ASSUME QuoteInvTypeOK, SendsOwn, [Next]_quoteVars,
         NEW a \in 1..MaxAttempts, provider[a] # "unseen"
  PROVE  provider'[a] = provider[a]
<1>1. CASE UNCHANGED provider
  BY <1>1
<1>2. ASSUME NEW s \in Senders, SendMail(s)
      PROVE  provider'[a] = provider[a]
  BY <1>2 DEF SendMail, SendsOwn, QuoteInvTypeOK, QuoteSystemTypeOK, DeliveryTypeOK
<1> QED BY <1>1, <1>2 DEF Next, DeliveryStep, SendCheck, SendLink, SendAttempt, SendOutcome,
        SendStops, Ingest, RecoverRead, RecoverRecord, RecordManually, quoteVars, deliveryRows

\* Evidence, and a recovery that has found it, are about mails the provider has taken.
ProcessedInv ==
  /\ \A a \in evidence : provider[a] \in TookMail
  /\ \A c \in Recoverers : recover[c] # 0 => recover[c] \in evidence

LEMMA ProcessedStep ==
  ASSUME QuoteInvTypeOK, SendsOwn, ProcessedInv, [Next]_quoteVars
  PROVE  ProcessedInv'
<1>0. evidence \subseteq 1..MaxAttempts /\ recover \in [Recoverers -> 0..MaxAttempts]
  BY DEF QuoteInvTypeOK, QuoteSystemTypeOK, DeliveryTypeOK
<1>1. ASSUME NEW a \in evidence
      PROVE  provider'[a] \in TookMail
  BY <1>0, ProviderStep DEF ProcessedInv, TookMail
<1>2. ASSUME NEW a \in 1..MaxAttempts, Ingest(a)
      PROVE  ProcessedInv'
  BY <1>2 DEF Ingest, ProcessedInv
<1>3. ASSUME NEW c \in Recoverers, RecoverRead(c) \/ RecoverRecord(c)
      PROVE  ProcessedInv'
  <2>1. UNCHANGED evidence
    BY <1>3 DEF RecoverRead, RecoverRecord, deliveryRows
  <2>2. \A d \in Recoverers : recover'[d] = recover[d] \/ recover'[d] \in evidence \cup {0}
    BY <1>0, <1>3 DEF RecoverRead, RecoverRecord
  <2> QED BY <1>1, <2>1, <2>2 DEF ProcessedInv
<1>4. ASSUME UNCHANGED <<evidence, recover>>
      PROVE  ProcessedInv'
  BY <1>1, <1>4 DEF ProcessedInv
<1> QED BY <1>2, <1>3, <1>4
        DEF Next, DeliveryStep, SendCheck, SendLink, SendAttempt, SendMail, SendOutcome,
            SendStops, RecordManually, quoteVars, deliveryRows

OutcomeInv == SendsOwn /\ ProcessedInv /\ OutcomeIsTrue

LEMMA TrueStep ==
  ASSUME QuoteInvTypeOK, OutcomeInv, [Next]_quoteVars
  PROVE  OutcomeIsTrue'
<1>0. /\ attempts \in Seq(Attempt) /\ Len(attempts) <= MaxAttempts /\ MaxAttempts \in Nat
      /\ send \in [Senders -> SendState]
  BY AttemptsBounded DEF QuoteInvTypeOK, QuoteSystemTypeOK, DeliveryTypeOK
<1> DEFINE True(a) == attempts'[a].source = "provider" =>
      provider'[a] \in (IF attempts'[a].outcome = "ACCEPTED" THEN TookMail
                                                         ELSE {"rejected", "faulted"})
<1>1. ASSUME NEW a \in DOMAIN attempts, attempts'[a] = attempts[a]
      PROVE  True(a)
  <2>1. a \in 1..MaxAttempts
    BY <1>0
  <2> QED BY <1>1, <2>1, ProviderStep DEF OutcomeInv, OutcomeIsTrue, TookMail
<1>2. CASE UNCHANGED attempts
  BY <1>1, <1>2 DEF OutcomeIsTrue
<1>3. ASSUME NEW s \in Senders, SendAttempt(s)
      PROVE  OutcomeIsTrue'
  <2>1. ASSUME NEW a \in DOMAIN attempts'
        PROVE  \/ a \in DOMAIN attempts /\ attempts'[a] = attempts[a]
               \/ attempts'[a].source = "none"
    BY <1>0, <1>3, <2>1 DEF SendAttempt
  <2> QED BY <1>1, <2>1 DEF OutcomeIsTrue
<1>4. ASSUME NEW b, NEW outcome \in Outcome, NEW source \in {"provider", "admin"},
             Settle(b, outcome, source), UNCHANGED provider,
             source = "provider" =>
               provider[b] \in (IF outcome = "ACCEPTED" THEN TookMail ELSE {"rejected", "faulted"})
      PROVE  OutcomeIsTrue'
  <2>1. ASSUME NEW a \in DOMAIN attempts'
        PROVE  True(a)
    <3>1. /\ a \in DOMAIN attempts
          /\ \/ attempts'[a] = attempts[a]
             \/ /\ a = b
                /\ attempts'[a].outcome = outcome /\ attempts'[a].source = source
      BY <1>4, <2>1, Settled
    <3> QED BY <1>1, <1>4, <3>1
  <2> QED BY <2>1 DEF OutcomeIsTrue
<1>5. ASSUME NEW s \in Senders, SendOutcome(s)
      PROVE  OutcomeIsTrue'
  <2>1. PICK outcome \in Answered(send[s].attempt) :
          Settle(send[s].attempt, outcome, "provider")
    BY <1>5 DEF SendOutcome
  <2>2. /\ outcome \in Outcome
        /\ provider[send[s].attempt] \in
             (IF outcome = "ACCEPTED" THEN TookMail ELSE {"rejected", "faulted"})
    BY <2>1 DEF Answered, Outcome, TookMail
  <2>3. UNCHANGED provider
    BY <1>5 DEF SendOutcome
  <2> QED BY <1>4, <2>1, <2>2, <2>3
<1>6. ASSUME NEW c \in Recoverers, RecoverRecord(c)
      PROVE  OutcomeIsTrue'
  <2>1. provider[recover[c]] \in TookMail
    BY <1>6 DEF RecoverRecord, OutcomeInv, ProcessedInv
  <2> QED BY <1>4, <1>6, <2>1 DEF RecoverRecord, Outcome
<1>7. ASSUME RecordManually
      PROVE  OutcomeIsTrue'
  BY <1>4, <1>7 DEF RecordManually
<1> QED BY <1>2, <1>3, <1>5, <1>6, <1>7, AttemptChanges

\* An outcome in the provider's name rests on what the provider did or answered: no
\* lost answer is taken for a rejection, and no acceptance is invented.
THEOREM OutcomesAreTrue == Spec => []OutcomeIsTrue
<1>1. Init => OutcomeInv
  BY DEF Init, DeliveryInit, NotSending, OutcomeInv, SendsOwn, Mailing, ProcessedInv, OutcomeIsTrue
<1>2. QuoteInvTypeOK /\ OutcomeInv /\ [Next]_quoteVars => OutcomeInv'
  BY SendsOwnStep, ProcessedStep, TrueStep DEF OutcomeInv
<1>3. OutcomeInv => OutcomeIsTrue
  BY DEF OutcomeInv
<1> QED BY <1>1, <1>2, <1>3, QuoteAlwaysTyped, PTL DEF Spec

\* Before its attempt exists, a send knows of all uncertain attempts of its revision but
\* those that came after its look.
RaceInv ==
  \A s \in Senders : send[s].phase \in {"checked", "linked"} =>
    /\ send[s].attempt <= Len(attempts)
    /\ \A a \in Uncertain(send[s].expected) : a > send[s].attempt

LEMMA UncertainShrinks ==
  ASSUME QuoteInvTypeOK, [Next]_quoteVars, NEW revision,
         \A s \in Senders : ~SendAttempt(s)
  PROVE  Uncertain(revision)' \subseteq Uncertain(revision)
<1>1. CASE UNCHANGED attempts
  BY <1>1 DEF Uncertain
<1>2. ASSUME NEW b, NEW outcome \in Outcome, NEW source \in {"provider", "admin"},
             Settle(b, outcome, source)
      PROVE  Uncertain(revision)' \subseteq Uncertain(revision)
  BY <1>2, Settled DEF Uncertain
<1>3. ASSUME \/ \E s \in Senders : SendOutcome(s)
             \/ \E c \in Recoverers : RecoverRecord(c)
             \/ RecordManually
      PROVE  Uncertain(revision)' \subseteq Uncertain(revision)
  BY <1>2, <1>3 DEF SendOutcome, RecoverRecord, RecordManually, Answered, Outcome
<1> QED BY <1>1, <1>3, AttemptChanges

LEMMA AttemptsStayTyped ==
  ASSUME QuoteInvTypeOK, [Next]_quoteVars
  PROVE  attempts' \in Seq(Attempt)
BY QuoteStepTypeOK DEF QuoteInvTypeOK, QuoteSystemTypeOK, DeliveryTypeOK

LEMMA RaceStep ==
  ASSUME QuoteInvTypeOK, RaceInv, [Next]_quoteVars
  PROVE  RaceInv'
<1>0. /\ attempts \in Seq(Attempt) /\ send \in [Senders -> SendState]
  BY DEF QuoteInvTypeOK, QuoteSystemTypeOK, DeliveryTypeOK
<1>1. ASSUME NEW s \in Senders, SendAttempt(s)
      PROVE  RaceInv'
  <2>1. /\ send'[s].phase = "attempted" /\ \A t \in Senders \ {s} : send'[t] = send[t]
        /\ Len(attempts) \in Nat /\ Len(attempts') = Len(attempts) + 1
    BY <1>0, <1>1 DEF SendAttempt, SendState
  <2>2. \A revision : \A a \in Uncertain(revision)' :
          a \in Uncertain(revision) \/ a = Len(attempts) + 1
    BY <1>0, <1>1 DEF SendAttempt, Uncertain
  <2>3. ASSUME NEW t \in Senders, send'[t].phase \in {"checked", "linked"}
        PROVE  /\ send'[t].attempt <= Len(attempts')
               /\ \A a \in Uncertain(send[t].expected)' : a > send'[t].attempt
    <3>1. send'[t] = send[t] /\ send[t].attempt \in Int
      BY <1>0, <2>1, <2>3, AttemptsBounded DEF SendState
    <3> QED BY <2>1, <2>2, <2>3, <3>1 DEF RaceInv
  <2> QED BY <2>3 DEF RaceInv
<1>2. CASE \A s \in Senders : ~SendAttempt(s)
  <2>1. \A revision : Uncertain(revision)' \subseteq Uncertain(revision)
    BY <1>2, UncertainShrinks
  <2>2. Len(attempts) <= Len(attempts')
    <3>1. attempts' \in Seq(Attempt)
      BY <1>0, AttemptsStayTyped
    <3> QED BY <1>0, <3>1, AttemptsGrow
  <2>3. ASSUME NEW s \in Senders, send'[s].phase \in {"checked", "linked"}
        PROVE  \/ /\ send'[s].expected = send[s].expected /\ send'[s].attempt = send[s].attempt
                  /\ send[s].phase \in {"checked", "linked"}
               \/ /\ send'[s].expected = quote.revision /\ Uncertain(quote.revision) = {}
                  /\ send'[s].attempt = Len(attempts)
    <3> DEFINE Knows ==
          \/ /\ send'[s].expected = send[s].expected /\ send'[s].attempt = send[s].attempt
             /\ send[s].phase \in {"checked", "linked"}
          \/ /\ send'[s].expected = quote.revision /\ Uncertain(quote.revision) = {}
             /\ send'[s].attempt = Len(attempts)
    <3>1. ASSUME NEW r \in Senders,
                 \/ SendCheck(r) \/ SendLink(r) \/ SendMail(r) \/ SendOutcome(r) \/ SendStops(r)
          PROVE  Knows
      <4>1. CASE r # s
        <5>1. send'[s] = send[s]
          BY <1>0, <3>1, <4>1 DEF SendCheck, SendLink, SendMail, SendOutcome, SendStops
        <5> QED BY <2>3, <5>1
      <4>2. CASE SendCheck(s)
        BY <1>0, <4>2 DEF SendCheck, SendPermitted, SendState
      <4>3. CASE SendLink(s) \/ SendMail(s) \/ SendOutcome(s) \/ SendStops(s)
        BY <1>0, <2>3, <4>3 DEF SendLink, SendMail, SendOutcome, SendStops, NotSending, SendState
      <4> QED BY <3>1, <4>1, <4>2, <4>3
    <3>2. CASE UNCHANGED send
      BY <2>3, <3>2
    <3> QED BY <1>2, <3>1, <3>2 DEF Next, DeliveryStep, Ingest, RecoverRead, RecoverRecord,
            RecordManually, quoteVars
  <2>4. ASSUME NEW s \in Senders, send'[s].phase \in {"checked", "linked"}
        PROVE  /\ send'[s].attempt <= Len(attempts')
               /\ \A a \in Uncertain(send[s].expected)' : a > send'[s].attempt
    <3>1. send[s].attempt \in Int /\ Len(attempts) \in Nat
      BY <1>0, AttemptsBounded DEF SendState
    <3>2. Len(attempts') \in Nat
      BY <1>0, AttemptsStayTyped
    <3> QED BY <2>1, <2>2, <2>3, <2>4, <3>1, <3>2 DEF RaceInv
  <2> QED BY <2>4 DEF RaceInv
<1> QED BY <1>1, <1>2

\* An attempt is committed beside an uncertain one only in a race, for any number of
\* sends at once: a lost answer blocks every send that looks after it, whatever the
\* Quote, its links and the recoveries do meanwhile.
THEOREM OnlyRacesDouble == Spec => UncertainOnlyByRaces
<1>1. Init => RaceInv
  BY DEF Init, DeliveryInit, NotSending, RaceInv
<1>2. QuoteInvTypeOK /\ RaceInv /\ [Next]_quoteVars => RaceInv'
  BY RaceStep
<1>3. RaceInv => \A s \in Senders : SendAttempt(s) =>
                   \A a \in Uncertain(send[s].expected) : a > send[s].attempt
  BY DEF RaceInv, SendAttempt
<1> QED BY <1>1, <1>2, <1>3, QuoteAlwaysTyped, PTL DEF Spec, UncertainOnlyByRaces

=============================================================================
