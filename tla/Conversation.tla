---------------------------- MODULE Conversation ----------------------------
(***************************************************************************)
(* One Messenger or WhatsApp conversation in which the deterministic       *)
(* collector gathers the facts of a Quote request, shows them, and submits *)
(* them once the customer confirms.                                        *)
(*                                                                         *)
(* Each delivery of a webhook is a sequence of steps: the message is       *)
(* persisted, the authority and the state are read, and the state is       *)
(* written under the version and the authority that were read.  The        *)
(* provider delivers a message again until a delivery of it is answered.   *)
(***************************************************************************)
EXTENDS Naturals, FiniteSets

CONSTANTS
  NQuestions,   \* the questions of the collectors, asked in order
  Answers,      \* the texts that are menu numbers
  Invalid,      \* complete facts that the contract of a Quote refuses
  SectionOf,    \* the questions a number of the correction menu opens again
  NMessages,    \* inbound messages, numbered as the customer sends them
  Workers,      \* webhook deliveries the API may be serving at once
  MaxFailures,  \* bound on the deliveries that fail or stop half way
  MaxTransfers, \* bound on the changes of control
  MaxReviews,   \* bound on the changes of the human-review mark
  None

Questions == 1..NQuestions
Messages == 1..NMessages

ASSUME QuestionsExist == NQuestions \in Nat \ {0}
ASSUME MenuOpensQuestions == SectionOf \in [Answers -> SUBSET Questions]
ASSUME MessagesBounded == NMessages \in Nat
ASSUME ConversationBounds ==
  MaxFailures \in Nat /\ MaxTransfers \in Nat /\ MaxReviews \in Nat
ASSUME NoneIsNoAnswer ==
  None \notin Answers /\ None \notin Nat /\ None \notin [Questions -> Answers \cup {None}]
ASSUME WordsAreNoNumbers == "CONFIRM" \notin Answers /\ "CHANGE" \notin Answers

ASSUME InvalidAreFacts == Invalid \subseteq [Questions -> Answers]

VARIABLES
  control,   \* controlState and controlVersion of the conversation
  conv,      \* quoteState and quoteStateVersion of the conversation
  quotes,    \* the Quotes created, by the message their submission key is made of
  inbox,     \* the inbound messages
  outbox,    \* the prompts, summaries and menus, as durable outbound messages
  work,      \* the local state of each delivery
  failures,  \* how many deliveries have failed
  reviews    \* how often the human-review mark was changed

convVars == <<control, conv, quotes, inbox, outbox, work, failures, reviews>>

-----------------------------------------------------------------------------
(* Types *)

Texts == Answers \cup {"CONFIRM", "CHANGE"}

Draft == [Questions -> Answers \cup {None}]

Control == [state : {"AUTOMATION", "HUMAN_TAKEOVER"}, version : 0..MaxTransfers]

State ==
  [version      : Nat,
   draft        : Draft,
   humanReview  : BOOLEAN,
   summary      : Nat \cup {None},       \* the version the summary was made for
   confirmation : Messages \cup {None},
   key          : Messages \cup {None},  \* submissionKey, by its message
   quote        : Messages \cup {None}]  \* submittedQuoteId, by its key

\* saw is history: the facts of the summaries sent before a CONFIRM came.
Inbound ==
  [text : Texts, status : {"UNANSWERED", "ANSWERED"}, saw : SUBSET Draft]

Absent == [text |-> None, status |-> "ABSENT", saw |-> {}]

Kinds == {"question", "review", "correction"}

Outbound ==
  [kind : Kinds, version : Nat, facts : Draft, status : {"PENDING", "ACCEPTED"}]

Idle == [step |-> "idle"]

Steps == {"received", "send", "update", "present", "confirm", "begin", "create", "link"}

\* version: the state version read; authority: the control version read;
\* facts: the draft read, or to be written; kind: the message to send.
Delivery ==
  [step : Steps, message : Messages, authority : Nat, version : Nat,
   facts : Draft \cup {None}, kind : Kinds \cup {None}, key : Messages \cup {None}]

ConversationTypeOK ==
  /\ control \in Control
  /\ conv \in State
  /\ quotes \in [Messages -> Draft \cup {None}]
  /\ inbox \in [Messages -> Inbound \cup {Absent}]
  /\ outbox \subseteq Outbound
  /\ work \in [Workers -> Delivery \cup {Idle}]
  /\ failures \in 0..MaxFailures
  /\ reviews \in 0..MaxReviews

-----------------------------------------------------------------------------
(* The phases *)

Open(draft) == {q \in Questions : draft[q] = None}

NextQuestion(draft) == CHOOSE q \in Open(draft) : \A other \in Open(draft) : q <= other

Phase(state) ==
  IF state.quote # None THEN "SUBMITTED"
  ELSE IF state.key # None THEN "SUBMITTING"
  ELSE IF state.humanReview THEN "HUMAN_REVIEW"
  ELSE IF Open(state.draft) # {} THEN "COLLECTING"
  ELSE IF state.confirmation = None THEN "REVIEW" ELSE "READY_TO_SUBMIT"

Nothing == [q \in Questions |-> None]

\* A conversation with questions left, or whose summary has been shown.
Answered(draft) == NQuestions - Cardinality(Open(draft))

Drafting(draft) ==
  [version |-> Answered(draft), draft |-> draft, humanReview |-> FALSE,
   summary |-> None, confirmation |-> None, key |-> None, quote |-> None]

Showing(draft) ==
  [Drafting(draft) EXCEPT !.version = NQuestions + 1, !.summary = NQuestions]

SummaryOf(draft) ==
  [kind |-> "review", version |-> NQuestions, facts |-> draft, status |-> "ACCEPTED"]

ConversationInit ==
  /\ control = [state |-> "AUTOMATION", version |-> 0]
  /\ \E draft \in Draft :
       \/ conv = Drafting(draft) /\ outbox = {}
       \/ Open(draft) = {} /\ conv = Showing(draft) /\ outbox = {SummaryOf(draft)}
  /\ quotes = [m \in Messages |-> None]
  /\ inbox = [m \in Messages |-> Absent]
  /\ work = [w \in Workers |-> Idle]
  /\ failures = 0
  /\ reviews = 0

-----------------------------------------------------------------------------
(* Transitions of the state, each with the condition under which it applies *)

Unmarked(state) == [state EXCEPT !.summary = None, !.confirmation = None]

\* Mutant of Updated: a changed fact leaves the review markers in place.
UpdatedOnly(state, draft) == [state EXCEPT !.draft = draft, !.version = @ + 1]

\* Changed facts have to be reviewed and confirmed again.
Updated(state, draft) == [Unmarked(state) EXCEPT !.draft = draft, !.version = @ + 1]
Updatable(state) == state.quote = None /\ state.key = None

Reviewed(state, required) ==
  [(IF required THEN Unmarked(state) ELSE state) EXCEPT
     !.humanReview = required, !.version = @ + 1]
Reviewable(state, required) == (required => state.quote = None) /\ state.key = None

Presented(state, version) ==
  [Unmarked(state) EXCEPT !.summary = version, !.version = @ + 1]
Presentable(state) == Phase(state) = "REVIEW"

Confirmed(state, message) == [state EXCEPT !.confirmation = message, !.version = @ + 1]
Confirmable(state) == state.summary # None /\ Phase(state) = "REVIEW"

Begun(state, key) == [state EXCEPT !.key = key, !.version = @ + 1]
Beginnable(state) == Phase(state) = "READY_TO_SUBMIT"

Linked(state, key) == [state EXCEPT !.quote = key, !.version = @ + 1]
Linkable(state) == Phase(state) = "SUBMITTING"

-----------------------------------------------------------------------------
(* The delivery of a webhook *)

MessageOf(w) == work[w].message

\* The webhook is answered with 200: the provider does not deliver it again.
Answer(w) ==
  /\ inbox' = [inbox EXCEPT ![MessageOf(w)].status = "ANSWERED"]
  /\ work' = [work EXCEPT ![w] = Idle]

\* Mutant of Refuse: the handler swallows its errors.
RefuseAnswered(w) == Answer(w)

\* An exception leaves the handler: the provider will deliver it again.
Refuse(w) == work' = [work EXCEPT ![w] = Idle] /\ UNCHANGED inbox

Continue(w, delivery) == work' = [work EXCEPT ![w] = delivery] /\ UNCHANGED inbox

\* Mutant of Authorized: the state of control is looked at, not its version.
AuthorizedByState(w) == control.state = "AUTOMATION"

\* The authority under which the message was taken up still stands.
Authorized(w) ==
  control.state = "AUTOMATION" /\ control.version = work[w].authority

\* transition(): a changed authority is swallowed, a stale version refused.
Transition(w, allowed, next, delivery) ==
  \/ ~Authorized(w) /\ Answer(w) /\ UNCHANGED conv
  \/ /\ Authorized(w)
     /\ conv.version # work[w].version \/ ~allowed
     /\ Refuse(w) /\ UNCHANGED conv
  \/ /\ Authorized(w)
     /\ conv.version = work[w].version /\ allowed
     /\ conv' = next
     /\ IF delivery = Idle THEN Answer(w) ELSE Continue(w, delivery)

Summaries == {sent \in outbox : sent.kind = "review"}

\* A message comes for the first time, or again: persistInbound, then the
\* control version is read.
Deliver(w, m) ==
  /\ work[w] = Idle
  /\ \/ /\ inbox[m] = Absent /\ \A earlier \in 1..(m - 1) : inbox[earlier] # Absent
        /\ \E text \in Texts :
             inbox' = [inbox EXCEPT ![m] =
               [text |-> text, status |-> "UNANSWERED",
                saw |-> IF text = "CONFIRM" THEN {sent.facts : sent \in Summaries} ELSE {}]]
     \/ inbox[m].status = "UNANSWERED" /\ UNCHANGED inbox
  /\ work' = [work EXCEPT ![w] =
       [step |-> "received", message |-> m, authority |-> control.version,
        version |-> 0, facts |-> None, kind |-> None, key |-> None]]
  /\ UNCHANGED <<control, conv, quotes, outbox, failures, reviews>>

Sent(kind, version) ==
  {sent \in outbox : sent.kind = kind /\ sent.version = version}

Prompted(kind, version) == \E sent \in Sent(kind, version) : sent.status = "ACCEPTED"

\* What the handler does next with a message that says text, by the state.
ToSend(delivery, kind) == [delivery EXCEPT !.step = "send", !.kind = kind]
ToUpdate(delivery, draft) == [delivery EXCEPT !.step = "update", !.facts = draft]

Collect(delivery, text) ==
  IF Prompted("question", conv.version) /\ text \in Answers
    THEN ToUpdate(delivery, [conv.draft EXCEPT ![NextQuestion(conv.draft)] = text])
    ELSE ToSend(delivery, "question")

Correct(delivery, text) ==
  IF text \in Answers /\ SectionOf[text] # {}
    THEN ToUpdate(delivery,
           [q \in Questions |-> IF q \in SectionOf[text] THEN None ELSE conv.draft[q]])
    ELSE Idle   \* the menu is sent again, which changes nothing

Respond(delivery, text) ==
  IF conv.summary = None THEN ToSend(delivery, "review")
  ELSE CASE text = "CONFIRM" -> [delivery EXCEPT !.step = "confirm"]
         [] text = "CHANGE"  -> ToSend(delivery, "correction")
         [] OTHER            -> IF Prompted("correction", conv.version)
                                  THEN Correct(delivery, text) ELSE Idle

Decided(delivery, text) ==
  LET read == [delivery EXCEPT !.version = conv.version, !.facts = conv.draft,
                               !.key = conv.confirmation]
  IN  IF control.state # "AUTOMATION" THEN Idle
      ELSE CASE Phase(conv) \in {"SUBMITTED", "HUMAN_REVIEW"} -> Idle
             [] Phase(conv) = "COLLECTING"      -> Collect(read, text)
             [] Phase(conv) = "READY_TO_SUBMIT" -> [read EXCEPT !.step = "begin"]
             [] Phase(conv) = "SUBMITTING"      -> [read EXCEPT !.step = "create"]
             [] Phase(conv) = "REVIEW"          -> Respond(read, text)

\* automationEnabled, then the state is read.
Decide(w) ==
  /\ work[w].step = "received"
  /\ LET next == Decided(work[w], inbox[MessageOf(w)].text)
     IN  IF next = Idle THEN Answer(w) ELSE Continue(w, next)
  /\ UNCHANGED <<control, conv, quotes, outbox, failures, reviews>>

\* sendDurableText: the message becomes durable, and is sent if the authority
\* still stands.  What the provider says of it may be lost; then it stays
\* pending and nothing more is done.
Send(w) ==
  LET delivery == work[w]
      earlier  == Sent(delivery.kind, delivery.version)
      message(status) ==
        (outbox \ earlier) \cup
          {[kind |-> delivery.kind, version |-> delivery.version,
            facts |-> delivery.facts, status |-> status]}
      kept == IF earlier = {} THEN message("PENDING") ELSE outbox
  IN
  /\ delivery.step = "send"
  /\ \/ control.state # "AUTOMATION" /\ Answer(w) /\ UNCHANGED outbox
     \/ control.state = "AUTOMATION" /\ ~Authorized(w) /\ Answer(w) /\ outbox' = kept
     \/ /\ Authorized(w)
        /\ outbox' = message("ACCEPTED")
        /\ IF delivery.kind = "review"
             THEN Continue(w, [delivery EXCEPT !.step = "present"])
             ELSE Answer(w)
     \/ /\ Authorized(w) /\ ~Prompted(delivery.kind, delivery.version)
        /\ outbox' = kept
        /\ Answer(w)
  /\ UNCHANGED <<control, conv, quotes, failures, reviews>>

Update(w) ==
  LET draft == work[w].facts
      next  == [work[w] EXCEPT !.step = "send", !.kind = "question", !.version = @ + 1]
  IN
  /\ work[w].step = "update"
  /\ Transition(w, Updatable(conv), Updated(conv, draft),
                IF Open(draft) = {} THEN Idle ELSE next)
  /\ UNCHANGED <<control, quotes, outbox, failures, reviews>>

Present(w) ==
  /\ work[w].step = "present"
  /\ Transition(w, Presentable(conv), Presented(conv, work[w].version), Idle)
  /\ UNCHANGED <<control, quotes, outbox, failures, reviews>>

Confirm(w) ==
  LET m == MessageOf(w)
  IN
  /\ work[w].step = "confirm"
  /\ Transition(w, Confirmable(conv), Confirmed(conv, m),
                [work[w] EXCEPT !.step = "begin", !.version = @ + 1, !.key = m])
  /\ UNCHANGED <<control, quotes, outbox, failures, reviews>>

\* beginSubmission and recordSubmittedQuote
Reserve(w) ==
  Transition(w, Beginnable(conv), Begun(conv, work[w].key),
             [work[w] EXCEPT !.step = "create", !.version = @ + 1])
RecordQuote(w) ==
  Transition(w, Linkable(conv), Linked(conv, work[w].key), Idle)

\* submitReadyQuote: the facts are held against the contract and the key is
\* reserved, the Quote created, the Quote linked, each in a transaction of its own.
Begin(w) ==
  /\ work[w].step = "begin"
  /\ \/ work[w].facts \notin Invalid /\ Reserve(w)
     \/ \* the read before it finds a stale version, or facts of no Quote,
        \* whatever the authority
        /\ conv.version # work[w].version \/ work[w].facts \in Invalid
        /\ Refuse(w) /\ UNCHANGED conv
  /\ UNCHANGED <<control, quotes, outbox, failures, reviews>>

\* The key the Quote is created under: a replay finds the Quote again.
CreatedUnder(key, w) == key

Create(w) ==
  LET key == CreatedUnder(work[w].key, w)
  IN
  /\ work[w].step = "create"
  /\ quotes' = IF quotes[key] = None THEN [quotes EXCEPT ![key] = work[w].facts] ELSE quotes
  /\ Continue(w, [work[w] EXCEPT !.step = "link", !.key = key])
  /\ UNCHANGED <<control, conv, outbox, failures, reviews>>

Link(w) ==
  /\ work[w].step = "link"
  /\ RecordQuote(w)
  /\ UNCHANGED <<control, quotes, outbox, failures, reviews>>

\* A read, a transaction or the provider fails, or the process stops.
Fail(w) ==
  /\ work[w] # Idle
  /\ failures < MaxFailures
  /\ failures' = failures + 1
  /\ Refuse(w)
  /\ UNCHANGED <<control, conv, quotes, outbox, reviews>>

-----------------------------------------------------------------------------
(* The provider and the office *)

\* A status webhook accepts a message whose outcome was unknown.
StatusAccepted ==
  \E sent \in outbox :
    /\ sent.status = "PENDING"
    /\ outbox' = (outbox \ {sent}) \cup {[sent EXCEPT !.status = "ACCEPTED"]}
    /\ UNCHANGED <<control, conv, quotes, inbox, work, failures, reviews>>

\* takeOver and returnToAutomation, by an Admin who saw the present state.
Transfer ==
  /\ control.version < MaxTransfers
  /\ control' = [state   |-> IF control.state = "AUTOMATION" THEN "HUMAN_TAKEOVER"
                                                           ELSE "AUTOMATION",
                 version |-> control.version + 1]
  /\ UNCHANGED <<conv, quotes, inbox, outbox, work, failures, reviews>>

\* setHumanReview, which is not subject to the authority over the conversation.
SetHumanReview(required) ==
  /\ reviews < MaxReviews /\ reviews' = reviews + 1
  /\ Reviewable(conv, required)
  /\ conv' = Reviewed(conv, required)
  /\ UNCHANGED <<control, quotes, inbox, outbox, work, failures>>

-----------------------------------------------------------------------------
DeliveryStep(w) ==
  Decide(w) \/ Send(w) \/ Update(w) \/ Present(w) \/ Confirm(w) \/ Begin(w) \/ Create(w) \/ Link(w)

=============================================================================
