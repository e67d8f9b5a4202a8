--------------------------- MODULE QuoteDelivery ---------------------------
(***************************************************************************)
(* Sending a Quote by e-mail.  sendEmail() looks for an unreconciled       *)
(* attempt, issues a link, commits a delivery attempt, calls the provider  *)
(* and records what it answered, each in a transaction of its own; signed  *)
(* provider events arrive late, repeatedly or never, and recoverEmail()    *)
(* settles an attempt whose answer was lost.                               *)
(***************************************************************************)
EXTENDS Quote, Sequences

CONSTANTS
  Senders,      \* sendEmail() requests the API may be serving at once
  Recoverers,   \* recoverEmail() requests the API may be serving at once
  MaxAttempts   \* bound on the delivery attempts of the Quote

ASSUME AttemptsBounded == MaxAttempts \in Nat

VARIABLES
  attempts,   \* the e-mail delivery attempts, in the order of created_at
  provider,   \* what each attempt came to at the provider, and its answer
  evidence,   \* the attempts with a stored provider event
  send,       \* the local state of each sendEmail() request
  recover     \* the attempt each recoverEmail() request settles, 0 for none

deliveryRows == <<attempts, provider, evidence>>

Outcome == {"PENDING", "ACCEPTED", "FAILED"}

\* The metadata of an outcome tells who recorded it.
Attempt ==
  [revision : 1..MaxQuoteRevisions,
   grant    : Grants,
   outcome  : Outcome,
   source   : {"none", "provider", "admin"}]

\* attempt is the one of the request, or the last there was when it looked for one.
SendState ==
  [phase    : {"idle", "checked", "linked", "attempted", "mailed"},
   expected : 0..MaxQuoteRevisions,
   grant    : Grants \cup {Nobody},
   attempt  : 0..MaxAttempts]

NotSending == [phase |-> "idle", expected |-> 0, grant |-> Nobody, attempt |-> 0]

DeliveryTypeOK ==
  /\ attempts \in Seq(Attempt) /\ Len(attempts) <= MaxAttempts
  /\ provider \in [1..MaxAttempts -> {"unseen", "processed", "faulted", "rejected"}]
  /\ evidence \subseteq 1..MaxAttempts
  /\ send \in [Senders -> SendState]
  /\ recover \in [Recoverers -> 0..MaxAttempts]

DeliveryInit ==
  /\ attempts = <<>>
  /\ provider = [a \in 1..MaxAttempts |-> "unseen"]
  /\ evidence = {}
  /\ send = [s \in Senders |-> NotSending]
  /\ recover = [c \in Recoverers |-> 0]

-----------------------------------------------------------------------------
\* unreconciledEmailAttempt: pending, without a terminal outcome.
Uncertain(revision) ==
  {a \in DOMAIN attempts : attempts[a].revision = revision /\ attempts[a].outcome = "PENDING"}

\* Mutant of SendPermitted: an unreconciled attempt is not looked for.
SendAnyway(expected) == quote.status = "SUBMITTED" /\ quote.revision = expected

\* quoteContext and assertNoUnreconciledEmailAttempt
SendPermitted(expected) ==
  /\ quote.status = "SUBMITTED"
  /\ quote.revision = expected
  /\ Uncertain(expected) = {}

SendCheck(s) ==
  /\ send[s].phase = "idle"
  /\ Len(attempts) < MaxAttempts
  /\ SendPermitted(quote.revision)
  /\ send' = [send EXCEPT ![s].phase = "checked", ![s].expected = quote.revision,
                          ![s].attempt = Len(attempts)]
  /\ UNCHANGED <<quoteRows, deliveryRows, recover>>

\* issue() looks at the Quote again.
LinkOffered(expected) == Offerable(expected)

\* secureLink
SendLink(s) ==
  /\ send[s].phase = "checked"
  /\ \/ \E g \in Grants :
          /\ grants[g].state = "ABSENT"
          /\ LinkOffered(send[s].expected)
          /\ grants' = Issued(g)
          /\ send' = [send EXCEPT ![s].phase = "linked", ![s].grant = g]
     \/ /\ ~LinkOffered(send[s].expected)
        /\ send' = [send EXCEPT ![s] = NotSending]
        /\ UNCHANGED grants
  /\ UNCHANGED <<quote, responses, offerExpired, lapsed, serviceActive,
                 deliveryRows, recover>>

\* createDeliveryAttempt, with its PENDING event.
SendAttempt(s) ==
  /\ send[s].phase = "linked"
  /\ Len(attempts) < MaxAttempts
  /\ attempts' = Append(attempts, [revision |-> send[s].expected, grant |-> send[s].grant,
                                   outcome |-> "PENDING", source |-> "none"])
  /\ send' = [send EXCEPT ![s].phase = "attempted", ![s].attempt = Len(attempts) + 1]
  /\ UNCHANGED <<quoteRows, provider, evidence, recover>>

\* The provider has taken the mail, whatever it answered.
TookMail == {"processed", "faulted"}

\* The request reaches the provider, which takes it, takes it and answers with an error
\* all the same (a 5xx), or rejects it; or the request is lost.
SendMail(s) ==
  \E fate \in TookMail \cup {"rejected", "unseen"} :
    /\ send[s].phase = "attempted"
    /\ provider' = [provider EXCEPT ![send[s].attempt] = fate]
    /\ send' = [send EXCEPT ![s].phase = "mailed"]
    /\ UNCHANGED <<quoteRows, attempts, evidence, recover>>

\* recordDeliveryOutcome accepts a first terminal outcome.
Settleable(a) == a \in DOMAIN attempts /\ attempts[a].outcome = "PENDING"

Settle(a, outcome, source) ==
  attempts' = IF Settleable(a)
    THEN [attempts EXCEPT ![a] = [@ EXCEPT !.outcome = outcome, !.source = source]]
    ELSE attempts

\* Mutant of Answered: a lost answer is taken for a rejection.
AnsweredAtAll(a) == IF provider[a] = "processed" THEN {"ACCEPTED"} ELSE {"FAILED"}

\* The outcomes the provider's answer may be recorded as: every answer that is not a
\* success is taken for a rejection, a 5xx included.
Answered(a) ==
  CASE provider[a] = "processed"               -> {"ACCEPTED"}
    [] provider[a] \in {"faulted", "rejected"} -> {"FAILED"}
    [] OTHER                                   -> {}

\* The provider's answer comes back and is recorded.
SendOutcome(s) ==
  /\ send[s].phase = "mailed"
  /\ \E outcome \in Answered(send[s].attempt) : Settle(send[s].attempt, outcome, "provider")
  /\ send' = [send EXCEPT ![s] = NotSending]
  /\ UNCHANGED <<quoteRows, provider, evidence, recover>>

\* The answer is lost or malformed, or the process stops before the end.
SendStops(s) ==
  /\ send[s].phase # "idle"
  /\ send' = [send EXCEPT ![s] = NotSending]
  /\ UNCHANGED <<quoteRows, deliveryRows, recover>>

-----------------------------------------------------------------------------
\* ingest: the signed tag names the attempt; a repeated event changes nothing.
Ingest(a) ==
  /\ provider[a] \in TookMail
  /\ evidence' = evidence \cup {a}
  /\ UNCHANGED <<quoteRows, attempts, provider, send, recover>>

\* recoverEmail finds the latest uncertain attempt, and evidence about it.
RecoverRead(c) ==
  \E a \in Uncertain(quote.revision) \cap evidence :
    /\ recover[c] = 0
    /\ \A b \in Uncertain(quote.revision) : b <= a
    /\ recover' = [recover EXCEPT ![c] = a]
    /\ UNCHANGED <<quoteRows, deliveryRows, send>>

\* recordRecoveredAcceptance: an acceptance recorded meanwhile is as good.
RecoverRecord(c) ==
  /\ recover[c] # 0
  /\ Settle(recover[c], "ACCEPTED", "provider")
  /\ recover' = [recover EXCEPT ![c] = 0]
  /\ UNCHANGED <<quoteRows, provider, evidence, send>>

\* POST delivery-attempts/:attemptId/outcomes, by an Admin.
RecordManually ==
  \E a \in DOMAIN attempts, outcome \in Outcome \ {"PENDING"} :
    /\ Settleable(a)
    /\ Settle(a, outcome, "admin")
    /\ UNCHANGED <<quoteRows, provider, evidence, send, recover>>

DeliveryStep ==
  \/ \E s \in Senders :
       \/ SendCheck(s) \/ SendLink(s) \/ SendAttempt(s) \/ SendMail(s)
       \/ SendOutcome(s) \/ SendStops(s)
  \/ \E a \in 1..MaxAttempts : Ingest(a)
  \/ \E c \in Recoverers : RecoverRead(c) \/ RecoverRecord(c)
  \/ RecordManually

=============================================================================
