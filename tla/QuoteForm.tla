----------------------------- MODULE QuoteForm -----------------------------
(***************************************************************************)
(* The WhatsApp form of a conversation: a session is prepared, its form is *)
(* launched and offered, the customer's completion is captured once, and a *)
(* Quote or a human review comes of it.                                    *)
(*                                                                         *)
(* offer() runs over several transactions and a provider call, while       *)
(* status webhooks, completions and other offers come in.                  *)
(***************************************************************************)
EXTENDS Conversation

CONSTANTS
  NSessions,   \* form sessions, numbered in the order of their creation
  FormFacts,   \* what a customer may fill in
  Unclear,     \* the fillings that do not map to a Quote
  Offers,      \* offer() requests the API may be serving at once
  Filings      \* webhook deliveries of completions served at once

Sessions == 1..NSessions

ASSUME SessionsBounded == NSessions \in Nat
ASSUME UnclearFacts == Unclear \subseteq FormFacts
ASSUME NoneIsNoFilling == None \notin FormFacts

VARIABLES
  sessions,  \* the messaging_quote_flow_sessions rows
  offer,     \* the local state of each offer()
  filing,    \* the local state of each delivery of a completion
  filed      \* the completions customers have sent, and whether answered

formVars == <<sessions, offer, filing, filed>>

-----------------------------------------------------------------------------
(* Rows *)

Active == {"PREPARED", "OFFERED"}

Session ==
  [status   : Active \cup {"NONE", "COMPLETED", "EXPIRED", "SUPERSEDED", "FALLBACK"},
   bound    : BOOLEAN,                    \* launch_message_id
   launched : {"NO", "MAYBE", "FAILED"},  \* what the provider was asked to send
   lapsed   : BOOLEAN,                    \* expires_at has passed
   evidence : FormFacts \cup {None},      \* completion_evidence and its fingerprint
   held     : BOOLEAN,                    \* human_review_reason
   made     : FormFacts \cup {None},      \* the Quote under the session's key
   quote    : BOOLEAN]                    \* submitted_quote_id is set

NoSession ==
  [status |-> "NONE", bound |-> FALSE, launched |-> "NO", lapsed |-> FALSE,
   evidence |-> None, held |-> FALSE, made |-> None, quote |-> FALSE]

FormTypeOK ==
  /\ sessions \in [Sessions -> Session]
  /\ offer \in [Offers -> {Idle} \cup [step : {"bind", "launch", "mark"}, session : Sessions]]
  /\ filing \in [Filings -> {Idle} \cup
       [step : {"capture", "process"}, session : Sessions, facts : FormFacts, authority : Nat]]
  /\ filed \in [Sessions \X FormFacts -> {"NO", "UNANSWERED", "ANSWERED"}]

FormInit ==
  /\ sessions = [s \in Sessions |-> NoSession]
  /\ offer = [o \in Offers |-> Idle]
  /\ filing = [d \in Filings |-> Idle]
  /\ filed = [pair \in Sessions \X FormFacts |-> "NO"]

\* expireDue, together with what the caller makes of the rows.
Expired(rows) ==
  [s \in Sessions |->
     IF rows[s].status \in Active /\ rows[s].lapsed
       THEN [rows[s] EXCEPT !.status = "EXPIRED"] ELSE rows[s]]

With(rows, status) == {s \in Sessions : rows[s].status = status}

FormActive == \E s \in Sessions : sessions[s].status \in Active /\ ~sessions[s].lapsed

-----------------------------------------------------------------------------
(* The offer *)

\* A session whose form was not offered yet gives way to the new one.
Superseded(rows) ==
  [s \in Sessions |-> IF rows[s].status = "PREPARED"
                        THEN [rows[s] EXCEPT !.status = "SUPERSEDED"] ELSE rows[s]]

Prepare(o) ==
  LET rows == Expired(sessions)
  IN
  /\ offer[o] = Idle
  /\ IF With(rows, "OFFERED") # {}
       THEN sessions' = rows /\ UNCHANGED offer
       ELSE \E s \in With(rows, "NONE") :
              /\ \A earlier \in 1..(s - 1) : rows[earlier].status # "NONE"
              /\ sessions' = [Superseded(rows) EXCEPT ![s].status = "PREPARED"]
              /\ offer' = [offer EXCEPT ![o] = [step |-> "bind", session |-> s]]
  /\ UNCHANGED <<filing, filed>>

\* The launch message is made durable and bound to the session.
Bind(o) ==
  /\ offer[o].step = "bind"
  /\ LET s == offer[o].session
     IN  sessions' = IF sessions[s].status = "PREPARED"
                       THEN [sessions EXCEPT ![s].bound = TRUE] ELSE sessions
  /\ offer' = [offer EXCEPT ![o].step = "launch"]
  /\ UNCHANGED <<filing, filed>>

\* The provider sends the form, refuses it, or its answer is lost.
Launch(o) ==
  LET s == offer[o].session
      launched(what) == sessions' = [sessions EXCEPT ![s].launched = what]
  IN
  /\ offer[o].step = "launch"
  /\ \/ launched("MAYBE") /\ offer' = [offer EXCEPT ![o].step = "mark"]
     \/ launched("MAYBE") /\ offer' = [offer EXCEPT ![o] = Idle]
     \/ launched("FAILED") /\ offer' = [offer EXCEPT ![o] = Idle]
  /\ UNCHANGED <<filing, filed>>

\* The condition under which a session becomes OFFERED, or FALLBACK.
Offerable(row) == row.status = "PREPARED"

Mark(o) ==
  /\ offer[o].step = "mark"
  /\ LET s == offer[o].session
     IN  sessions' = IF Offerable(sessions[s])
                       THEN [sessions EXCEPT ![s].status = "OFFERED"] ELSE sessions
  /\ offer' = [offer EXCEPT ![o] = Idle]
  /\ UNCHANGED <<filing, filed>>

AbandonOffer(o) ==
  /\ offer[o] # Idle
  /\ offer' = [offer EXCEPT ![o] = Idle]
  /\ UNCHANGED <<sessions, filing, filed>>

\* reconcileLaunchStatus, for a status webhook of the launch message, which may
\* report as failed what the provider had taken.
LaunchStatus(s) ==
  /\ sessions[s].bound /\ Offerable(sessions[s])
  /\ sessions[s].launched # "NO"
  /\ \E status \in {"OFFERED", "FALLBACK"} :
       /\ status = "OFFERED" => sessions[s].launched = "MAYBE"
       /\ sessions' = [sessions EXCEPT ![s].status = status]
  /\ UNCHANGED <<offer, filing, filed>>

EnterGuidedFallback ==
  /\ \E s \in Sessions : sessions[s].status \in Active
  /\ sessions' = [s \in Sessions |-> IF sessions[s].status \in Active
                    THEN [sessions[s] EXCEPT !.status = "FALLBACK"] ELSE sessions[s]]
  /\ UNCHANGED <<offer, filing, filed>>

\* The time to live of a form that was prepared runs out.
Lapse(s) ==
  /\ sessions[s].status # "NONE" /\ ~sessions[s].lapsed
  /\ sessions' = [sessions EXCEPT ![s].lapsed = TRUE]
  /\ UNCHANGED <<offer, filing, filed>>

-----------------------------------------------------------------------------
(* The completion *)

AnswerFiling(d) ==
  /\ filed' = [filed EXCEPT ![<<filing[d].session, filing[d].facts>>] = "ANSWERED"]
  /\ filing' = [filing EXCEPT ![d] = Idle]

RefuseFiling(d) == filing' = [filing EXCEPT ![d] = Idle] /\ UNCHANGED filed

\* A completion comes for the first time, or again.  The controller reads the
\* authority; due sessions are expired.
ReceiveForm(d) ==
  \E s \in Sessions, facts \in FormFacts :
    /\ filing[d] = Idle
    /\ \/ filed[<<s, facts>>] = "NO" /\ sessions[s].launched = "MAYBE"
       \/ filed[<<s, facts>>] = "UNANSWERED"
    /\ IF control.state = "AUTOMATION"
         THEN /\ filed' = [filed EXCEPT ![<<s, facts>>] = "UNANSWERED"]
              /\ filing' = [filing EXCEPT ![d] =
                   [step |-> "capture", session |-> s, facts |-> facts,
                    authority |-> control.version]]
              /\ sessions' = Expired(sessions)
         ELSE /\ filed' = [filed EXCEPT ![<<s, facts>>] = "ANSWERED"]
              /\ UNCHANGED <<filing, sessions>>
    /\ UNCHANGED offer

StillAuthorized(d) ==
  control.state = "AUTOMATION" /\ control.version = filing[d].authority

\* Mutant of Capturable: a completed form is captured again.
CapturableAgain(row) == row.status \in {"OFFERED", "COMPLETED"} /\ ~row.lapsed

Capturable(row) == row.status = "OFFERED" /\ ~row.lapsed

\* captureCompletion: what was captured once is only recognised again.
Capture(d) ==
  LET s     == filing[d].session
      facts == filing[d].facts
      row   == sessions[s]
      on    == filing' = [filing EXCEPT ![d].step = "process"] /\ UNCHANGED filed
  IN
  /\ filing[d].step = "capture"
  /\ \/ ~StillAuthorized(d) /\ AnswerFiling(d) /\ UNCHANGED sessions
     \/ /\ StillAuthorized(d) /\ Capturable(row)
        /\ sessions' = [sessions EXCEPT ![s].status = "COMPLETED", ![s].evidence = facts]
        /\ on
     \/ /\ StillAuthorized(d) /\ ~Capturable(row)
        /\ row.status = "COMPLETED" /\ row.evidence = facts
        /\ on /\ UNCHANGED sessions
     \/ /\ StillAuthorized(d) /\ ~Capturable(row)
        /\ row.status # "COMPLETED" \/ row.evidence # facts
        /\ RefuseFiling(d) /\ UNCHANGED sessions
  /\ UNCHANGED offer

\* processCompletedSession: the Quote commits on its own, before the session
\* is linked to it.
Process(d) ==
  LET s   == filing[d].session
      row == sessions[s]
  IN
  /\ filing[d].step = "process"
  /\ \/ /\ ~StillAuthorized(d) \/ row.quote \/ row.held
        /\ AnswerFiling(d) /\ UNCHANGED sessions
     \/ /\ StillAuthorized(d) /\ ~row.quote /\ ~row.held
        /\ row.evidence \in Unclear
        /\ sessions' = [sessions EXCEPT ![s].held = TRUE]
        /\ AnswerFiling(d)
     \/ /\ StillAuthorized(d) /\ ~row.quote /\ ~row.held
        /\ row.evidence \notin Unclear
        /\ row.made \in {None, row.evidence}
        /\ sessions' = [sessions EXCEPT ![s].made = row.evidence, ![s].quote = TRUE]
        /\ AnswerFiling(d)
  /\ UNCHANGED offer

\* The delivery fails; it may have created the Quote and not linked it.
FailFiling(d) ==
  LET s   == filing[d].session
      row == sessions[s]
  IN
  /\ filing[d] # Idle
  /\ \/ UNCHANGED sessions
     \/ /\ filing[d].step = "process" /\ StillAuthorized(d)
        /\ ~row.quote /\ ~row.held /\ row.evidence \notin Unclear /\ row.made = None
        /\ sessions' = [sessions EXCEPT ![s].made = row.evidence]
  /\ RefuseFiling(d)
  /\ UNCHANGED offer

FilingStep(d) == Capture(d) \/ Process(d)

FormStep ==
  \/ \E o \in Offers : Prepare(o) \/ Bind(o) \/ Launch(o) \/ Mark(o) \/ AbandonOffer(o)
  \/ \E s \in Sessions : LaunchStatus(s) \/ Lapse(s)
  \/ EnterGuidedFallback
  \/ \E d \in Filings : ReceiveForm(d) \/ FilingStep(d)

=============================================================================
