---------------------- MODULE ConversationSystem_proofs ----------------------
(***************************************************************************)
(* Proofs about ConversationSystem, for any number of questions, messages, *)
(* deliveries at once, failures, changes of control and of the human       *)
(* review, form sessions, offers and completions.                          *)
(***************************************************************************)
EXTENDS ConversationSystem, FiniteSetTheorems, TLAPS

-----------------------------------------------------------------------------
(* The types of the collector *)

\* A delivery past its first read has facts, one that sends a kind to send.
FitDelivery ==
  {d \in Delivery : /\ d.step # "received" => d.facts \in Draft
                    /\ d.step = "send" => d.kind \in Kinds}

\* Deliveries are of messages that have arrived.
WorkFits ==
  /\ work \in [Workers -> FitDelivery \cup {Idle}]
  /\ inbox \in [Messages -> Inbound \cup {Absent}]
  /\ \A w \in Workers : work[w] # Idle => inbox[work[w].message] \in Inbound

ConvTyped ==
  /\ control \in Control
  /\ conv \in State
  /\ quotes \in [Messages -> Draft \cup {None}]
  /\ outbox \subseteq Outbound
  /\ failures \in 0..MaxFailures
  /\ reviews \in 0..MaxReviews

TypeInv == ConvTyped /\ WorkFits

LEMMA TypeInvIsTypeOK == TypeInv => ConversationTypeOK
BY DEF TypeInv, ConvTyped, WorkFits, FitDelivery, ConversationTypeOK

LEMMA AbsentIsNotInbound == Absent \notin Inbound
BY DEF Absent, Inbound

\* A delivery that is at a step is no idle worker.
LEMMA Working ==
  ASSUME WorkFits, NEW w \in Workers, work[w].step \in Steps \/ work[w] # Idle
  PROVE  /\ work[w] \in FitDelivery /\ work[w] \in Delivery /\ work[w] # Idle
         /\ MessageOf(w) \in Messages /\ inbox[MessageOf(w)] \in Inbound
<1>1. work[w] # Idle
  BY DEF Steps, Idle
<1> QED BY <1>1 DEF WorkFits, FitDelivery, Delivery, MessageOf

LEMMA AnswerFits ==
  ASSUME WorkFits, NEW w \in Workers, work[w] # Idle, Answer(w)
  PROVE  WorkFits' /\ work' = [work EXCEPT ![w] = Idle]
<1> DEFINE answered == [inbox[MessageOf(w)] EXCEPT !.status = "ANSWERED"]
<1>1. MessageOf(w) \in Messages /\ inbox[MessageOf(w)] \in Inbound
  BY Working
<1>2. inbox' = [inbox EXCEPT ![MessageOf(w)] = answered]
  BY DEF Answer
<1>3. answered \in Inbound
  BY <1>1 DEF Inbound
<1> HIDE DEF answered
<1>4. inbox' \in [Messages -> Inbound \cup {Absent}]
  BY <1>1, <1>2, <1>3 DEF WorkFits
<1>5. work' = [work EXCEPT ![w] = Idle] /\ work' \in [Workers -> FitDelivery \cup {Idle}]
  BY DEF Answer, WorkFits
<1>6. ASSUME NEW v \in Workers, work'[v] # Idle PROVE inbox'[work'[v].message] \in Inbound
  <2>1. v # w /\ work'[v] = work[v] /\ work[v] # Idle
    BY <1>5, <1>6 DEF WorkFits
  <2>2. work[v].message \in Messages /\ inbox[work[v].message] \in Inbound
    BY <2>1, Working DEF MessageOf
  <2> QED BY <1>1, <1>2, <1>3, <2>1, <2>2 DEF WorkFits
<1> QED BY <1>4, <1>5, <1>6 DEF WorkFits

LEMMA RefuseFits ==
  ASSUME WorkFits, NEW w \in Workers, Refuse(w)
  PROVE  WorkFits' /\ work' = [work EXCEPT ![w] = Idle]
BY DEF Refuse, WorkFits

LEMMA ContinueFits ==
  ASSUME WorkFits, NEW w \in Workers, work[w] # Idle, NEW d \in FitDelivery,
         d.message = work[w].message, Continue(w, d)
  PROVE  WorkFits' /\ work' = [work EXCEPT ![w] = d]
<1>1. work' = [work EXCEPT ![w] = d] /\ inbox' = inbox
  BY DEF Continue
<1>2. work' \in [Workers -> FitDelivery \cup {Idle}]
  BY <1>1 DEF WorkFits
<1>3. ASSUME NEW v \in Workers, work'[v] # Idle PROVE inbox[work'[v].message] \in Inbound
  <2>1. CASE v = w
    BY <1>1, <2>1, Working DEF WorkFits, MessageOf
  <2>2. CASE v # w
    BY <1>1, <1>3, <2>2 DEF WorkFits
  <2> QED BY <2>1, <2>2
<1> QED BY <1>1, <1>2, <1>3 DEF WorkFits

LEMMA DraftingTyped ==
  ASSUME NEW draft \in Draft
  PROVE  Drafting(draft) \in State /\ Showing(draft) \in State
<1>1. Answered(draft) \in Nat
  <2>1. IsFiniteSet(1..NQuestions) /\ Cardinality(1..NQuestions) = NQuestions
    BY FS_Interval, QuestionsExist
  <2>2. Open(draft) \subseteq 1..NQuestions
    BY DEF Open, Questions
  <2>3. IsFiniteSet(Open(draft)) /\ Cardinality(Open(draft)) <= NQuestions
    BY <2>1, <2>2, FS_Subset
  <2>4. Cardinality(Open(draft)) \in Nat
    BY <2>3, FS_CardinalityType
  <2> QED BY <2>3, <2>4, QuestionsExist DEF Answered
<1>2. Drafting(draft) \in State
  BY <1>1 DEF Drafting, State
<1>3. NQuestions + 1 \in Nat /\ NQuestions \in Nat
  BY QuestionsExist
<1> QED BY <1>2, <1>3 DEF Showing, State

LEMMA InitTypeInv == ConversationInit => TypeInv
<1> SUFFICES ASSUME ConversationInit PROVE TypeInv
  OBVIOUS
<1>1. PICK draft \in Draft :
        \/ conv = Drafting(draft) /\ outbox = {}
        \/ Open(draft) = {} /\ conv = Showing(draft) /\ outbox = {SummaryOf(draft)}
  BY DEF ConversationInit
<1>2. SummaryOf(draft) \in Outbound
  BY QuestionsExist DEF SummaryOf, Outbound, Kinds
<1>3. conv \in State /\ outbox \subseteq Outbound
  BY <1>1, <1>2, DraftingTyped
<1>4. WorkFits
  BY DEF ConversationInit, WorkFits
<1>5. control \in Control
  BY ConversationBounds DEF ConversationInit, Control
<1> QED BY <1>3, <1>4, <1>5, ConversationBounds DEF ConversationInit, TypeInv, ConvTyped

-----------------------------------------------------------------------------
(* Every step keeps the types of the collector *)

\* A transition is refused, swallowed, or made on the state that was read.
LEMMA TransitionFits ==
  ASSUME WorkFits, conv \in State, NEW w \in Workers, work[w] # Idle,
         NEW allowed, NEW next \in State, NEW delivery \in FitDelivery \cup {Idle},
         delivery # Idle => delivery.message = work[w].message,
         Transition(w, allowed, next, delivery)
  PROVE  /\ WorkFits' /\ conv' \in State
         /\ \/ UNCHANGED conv /\ work' = [work EXCEPT ![w] = Idle]
            \/ /\ Authorized(w) /\ conv.version = work[w].version /\ allowed
               /\ conv' = next /\ work' = [work EXCEPT ![w] = delivery]
<1>1. CASE ~Authorized(w) /\ Answer(w) /\ UNCHANGED conv
  BY <1>1, AnswerFits
<1>2. CASE Refuse(w) /\ UNCHANGED conv
  BY <1>2, RefuseFits
<1>3. CASE /\ Authorized(w) /\ conv.version = work[w].version /\ allowed
           /\ conv' = next
           /\ IF delivery = Idle THEN Answer(w) ELSE Continue(w, delivery)
  <2>1. CASE delivery = Idle
    BY <1>3, <2>1, AnswerFits
  <2>2. CASE delivery # Idle
    BY <1>3, <2>2, ContinueFits
  <2> QED BY <1>3, <2>1, <2>2
<1> QED BY <1>1, <1>2, <1>3 DEF Transition

LEMMA UnmarkedTyped ==
  ASSUME NEW state \in State
  PROVE  /\ Unmarked(state) \in State
         /\ Unmarked(state).version = state.version /\ Unmarked(state).draft = state.draft
         /\ Unmarked(state).summary = None /\ Unmarked(state).confirmation = None
         /\ Unmarked(state).key = state.key /\ Unmarked(state).quote = state.quote
BY DEF Unmarked, State

\* One field of a state put, the others are kept.
LEMMA VersionPut ==
  ASSUME NEW state \in State, NEW version \in Nat
  PROVE  LET put == [state EXCEPT !.version = version]
         IN  /\ put \in State /\ put.version = version
             /\ put.draft = state.draft /\ put.summary = state.summary
             /\ put.confirmation = state.confirmation
             /\ put.key = state.key /\ put.quote = state.quote
BY DEF State

LEMMA DraftPut ==
  ASSUME NEW state \in State, NEW draft \in Draft
  PROVE  LET put == [state EXCEPT !.draft = draft]
         IN  /\ put \in State /\ put.version = state.version
             /\ put.draft = draft /\ put.summary = state.summary
             /\ put.confirmation = state.confirmation
             /\ put.key = state.key /\ put.quote = state.quote
BY DEF State

LEMMA ReviewPut ==
  ASSUME NEW state \in State, NEW required \in BOOLEAN
  PROVE  LET put == [state EXCEPT !.humanReview = required]
         IN  /\ put \in State /\ put.version = state.version
             /\ put.draft = state.draft /\ put.summary = state.summary
             /\ put.confirmation = state.confirmation
             /\ put.key = state.key /\ put.quote = state.quote
BY DEF State

LEMMA SummaryPut ==
  ASSUME NEW state \in State, NEW version \in Nat
  PROVE  LET put == [state EXCEPT !.summary = version]
         IN  /\ put \in State /\ put.version = state.version
             /\ put.draft = state.draft /\ put.summary = version
             /\ put.confirmation = state.confirmation
             /\ put.key = state.key /\ put.quote = state.quote
BY DEF State

LEMMA ConfirmationPut ==
  ASSUME NEW state \in State, NEW m \in Messages \cup {None}
  PROVE  LET put == [state EXCEPT !.confirmation = m]
         IN  /\ put \in State /\ put.version = state.version
             /\ put.draft = state.draft /\ put.summary = state.summary
             /\ put.confirmation = m
             /\ put.key = state.key /\ put.quote = state.quote
BY DEF State

LEMMA KeyPut ==
  ASSUME NEW state \in State, NEW m \in Messages \cup {None}
  PROVE  LET put == [state EXCEPT !.key = m]
         IN  /\ put \in State /\ put.version = state.version
             /\ put.draft = state.draft /\ put.summary = state.summary
             /\ put.confirmation = state.confirmation
             /\ put.key = m /\ put.quote = state.quote
BY DEF State

LEMMA QuotePut ==
  ASSUME NEW state \in State, NEW m \in Messages \cup {None}
  PROVE  LET put == [state EXCEPT !.quote = m]
         IN  /\ put \in State /\ put.version = state.version
             /\ put.draft = state.draft /\ put.summary = state.summary
             /\ put.confirmation = state.confirmation
             /\ put.key = state.key /\ put.quote = m
BY DEF State

LEMMA UpdatedTyped ==
  ASSUME NEW state \in State, NEW draft \in Draft
  PROVE  LET next == Updated(state, draft)
         IN  /\ next \in State /\ next.version = state.version + 1
             /\ next.draft = draft
             /\ next.summary = None /\ next.confirmation = None
             /\ next.key = state.key /\ next.quote = state.quote
<1> DEFINE u == Unmarked(state)
           a == [u EXCEPT !.draft = draft]
<1>1. /\ u \in State /\ u.version = state.version /\ u.summary = None /\ u.confirmation = None
      /\ u.key = state.key /\ u.quote = state.quote
      /\ u.version \in Nat /\ u.version + 1 \in Nat
  BY UnmarkedTyped DEF State
<1>2. Updated(state, draft) = [a EXCEPT !.version = u.version + 1]
  BY <1>1 DEF Updated, State
<1> HIDE DEF u
<1>3. /\ a \in State /\ a.draft = draft /\ a.version = u.version
      /\ a.summary = u.summary /\ a.confirmation = u.confirmation
      /\ a.key = u.key /\ a.quote = u.quote
  BY <1>1, DraftPut
<1> HIDE DEF a
<1> QED BY <1>1, <1>2, <1>3, VersionPut

LEMMA ReviewedTyped ==
  ASSUME NEW state \in State, NEW required \in BOOLEAN
  PROVE  LET next == Reviewed(state, required)
         IN  /\ next \in State /\ next.version = state.version + 1
             /\ next.draft = state.draft
             /\ next.key = state.key /\ next.quote = state.quote
             /\ required => next.summary = None /\ next.confirmation = None
             /\ ~required => /\ next.summary = state.summary
                             /\ next.confirmation = state.confirmation
<1> DEFINE u == IF required THEN Unmarked(state) ELSE state
           a == [u EXCEPT !.humanReview = required]
<1>1. /\ u \in State /\ u.version = state.version /\ u.draft = state.draft
      /\ u.key = state.key /\ u.quote = state.quote
      /\ u.version \in Nat /\ u.version + 1 \in Nat
      /\ required => u.summary = None /\ u.confirmation = None
      /\ ~required => u.summary = state.summary /\ u.confirmation = state.confirmation
  BY UnmarkedTyped DEF State
<1>2. Reviewed(state, required) = [a EXCEPT !.version = u.version + 1]
  BY <1>1 DEF Reviewed, State
<1> HIDE DEF u
<1>3. /\ a \in State /\ a.draft = u.draft /\ a.version = u.version
      /\ a.summary = u.summary /\ a.confirmation = u.confirmation
      /\ a.key = u.key /\ a.quote = u.quote
  BY <1>1, ReviewPut
<1> HIDE DEF a
<1> QED BY <1>1, <1>2, <1>3, VersionPut

LEMMA PresentedTyped ==
  ASSUME NEW state \in State, NEW version \in Nat
  PROVE  LET next == Presented(state, version)
         IN  /\ next \in State /\ next.version = state.version + 1
             /\ next.draft = state.draft
             /\ next.summary = version /\ next.confirmation = None
             /\ next.key = state.key /\ next.quote = state.quote
<1> DEFINE u == Unmarked(state)
           a == [u EXCEPT !.summary = version]
<1>1. /\ u \in State /\ u.version = state.version /\ u.draft = state.draft
      /\ u.confirmation = None /\ u.key = state.key /\ u.quote = state.quote
      /\ u.version \in Nat /\ u.version + 1 \in Nat
  BY UnmarkedTyped DEF State
<1>2. Presented(state, version) = [a EXCEPT !.version = u.version + 1]
  BY <1>1 DEF Presented, State
<1> HIDE DEF u
<1>3. /\ a \in State /\ a.draft = u.draft /\ a.version = u.version
      /\ a.summary = version /\ a.confirmation = u.confirmation
      /\ a.key = u.key /\ a.quote = u.quote
  BY <1>1, SummaryPut
<1> HIDE DEF a
<1> QED BY <1>1, <1>2, <1>3, VersionPut

\* The transitions that only put a message into the state.
LEMMA ConfirmedTyped ==
  ASSUME NEW state \in State, NEW m \in Messages
  PROVE  LET next == Confirmed(state, m)
         IN  /\ next \in State /\ next.version = state.version + 1
             /\ next.draft = state.draft /\ next.summary = state.summary
             /\ next.confirmation = m
             /\ next.key = state.key /\ next.quote = state.quote
<1> DEFINE a == [state EXCEPT !.confirmation = m]
<1>1. Confirmed(state, m) = [a EXCEPT !.version = state.version + 1] /\ state.version + 1 \in Nat
  BY DEF Confirmed, State
<1>2. /\ a \in State /\ a.draft = state.draft /\ a.version = state.version
      /\ a.summary = state.summary /\ a.confirmation = m
      /\ a.key = state.key /\ a.quote = state.quote
  BY ConfirmationPut
<1> HIDE DEF a
<1> QED BY <1>1, <1>2, VersionPut

LEMMA BegunTyped ==
  ASSUME NEW state \in State, NEW m \in Messages \cup {None}
  PROVE  LET next == Begun(state, m)
         IN  /\ next \in State /\ next.version = state.version + 1
             /\ next.draft = state.draft /\ next.summary = state.summary
             /\ next.confirmation = state.confirmation
             /\ next.key = m /\ next.quote = state.quote
<1> DEFINE a == [state EXCEPT !.key = m]
<1>1. Begun(state, m) = [a EXCEPT !.version = state.version + 1] /\ state.version + 1 \in Nat
  BY DEF Begun, State
<1>2. /\ a \in State /\ a.draft = state.draft /\ a.version = state.version
      /\ a.summary = state.summary /\ a.confirmation = state.confirmation
      /\ a.key = m /\ a.quote = state.quote
  BY KeyPut
<1> HIDE DEF a
<1> QED BY <1>1, <1>2, VersionPut

LEMMA LinkedTyped ==
  ASSUME NEW state \in State, NEW m \in Messages \cup {None}
  PROVE  LET next == Linked(state, m)
         IN  /\ next \in State /\ next.version = state.version + 1
             /\ next.draft = state.draft /\ next.summary = state.summary
             /\ next.confirmation = state.confirmation
             /\ next.key = state.key /\ next.quote = m
<1> DEFINE a == [state EXCEPT !.quote = m]
<1>1. Linked(state, m) = [a EXCEPT !.version = state.version + 1] /\ state.version + 1 \in Nat
  BY DEF Linked, State
<1>2. /\ a \in State /\ a.draft = state.draft /\ a.version = state.version
      /\ a.summary = state.summary /\ a.confirmation = state.confirmation
      /\ a.key = state.key /\ a.quote = m
  BY QuotePut
<1> HIDE DEF a
<1> QED BY <1>1, <1>2, VersionPut


\* One field of a delivery put, the others are kept.
LEMMA StepPut ==
  ASSUME NEW d \in Delivery, NEW step \in Steps
  PROVE  LET put == [d EXCEPT !.step = step]
         IN  /\ put \in Delivery /\ put.step = step
             /\ put.message = d.message /\ put.authority = d.authority
             /\ put.version = d.version /\ put.facts = d.facts
             /\ put.kind = d.kind /\ put.key = d.key
BY DEF Delivery

LEMMA ReadPut ==
  ASSUME NEW d \in Delivery, NEW version \in Nat
  PROVE  LET put == [d EXCEPT !.version = version]
         IN  /\ put \in Delivery /\ put.step = d.step
             /\ put.message = d.message /\ put.authority = d.authority
             /\ put.version = version /\ put.facts = d.facts
             /\ put.kind = d.kind /\ put.key = d.key
BY DEF Delivery

LEMMA FactsPut ==
  ASSUME NEW d \in Delivery, NEW facts \in Draft
  PROVE  LET put == [d EXCEPT !.facts = facts]
         IN  /\ put \in Delivery /\ put.step = d.step
             /\ put.message = d.message /\ put.authority = d.authority
             /\ put.version = d.version /\ put.facts = facts
             /\ put.kind = d.kind /\ put.key = d.key
BY DEF Delivery

LEMMA KindPut ==
  ASSUME NEW d \in Delivery, NEW kind \in Kinds
  PROVE  LET put == [d EXCEPT !.kind = kind]
         IN  /\ put \in Delivery /\ put.step = d.step
             /\ put.message = d.message /\ put.authority = d.authority
             /\ put.version = d.version /\ put.facts = d.facts
             /\ put.kind = kind /\ put.key = d.key
BY DEF Delivery

LEMMA CarriedKeyPut ==
  ASSUME NEW d \in Delivery, NEW m \in Messages \cup {None}
  PROVE  LET put == [d EXCEPT !.key = m]
         IN  /\ put \in Delivery /\ put.step = d.step
             /\ put.message = d.message /\ put.authority = d.authority
             /\ put.version = d.version /\ put.facts = d.facts
             /\ put.kind = d.kind /\ put.key = m
BY DEF Delivery

\* What a delivery does next: it has read the version, the facts and the
\* confirmation of the state, and only an update carries other facts.
TakenUp(next, d) ==
  /\ next \in FitDelivery /\ next # Idle
  /\ next.message = d.message /\ next.version = conv.version
  /\ next.step \in {"send", "update", "confirm", "begin", "create"}
  /\ next.step # "update" => next.facts = conv.draft
  /\ next.key = conv.confirmation
  /\ next.step = "create" => conv.key # None

LEMMA FitIsNotIdle == \A d \in Delivery : d # Idle
BY DEF Delivery, Idle, Steps

LEMMA DecidedIsTakenUp ==
  ASSUME conv \in State, NEW d \in FitDelivery, NEW text \in Texts
  PROVE  Decided(d, text) = Idle \/ TakenUp(Decided(d, text), d)
<1> DEFINE v    == [d EXCEPT !.version = conv.version]
           f    == [v EXCEPT !.facts = conv.draft]
           read == [f EXCEPT !.key = conv.confirmation]
           Read(x) == /\ x \in Delivery /\ x.message = d.message
                      /\ x.version = conv.version /\ x.key = conv.confirmation
<1>1. /\ d \in Delivery /\ conv.version \in Nat /\ conv.draft \in Draft
      /\ conv.confirmation \in Messages \cup {None}
  BY DEF FitDelivery, State
<1>2. Read(read) /\ read.facts = conv.draft
  <2>1. v \in Delivery /\ v.message = d.message /\ v.version = conv.version
    BY <1>1, ReadPut
  <2> HIDE DEF v
  <2>2. /\ f \in Delivery /\ f.message = d.message /\ f.version = conv.version
        /\ f.facts = conv.draft
    BY <1>1, <2>1, FactsPut
  <2> HIDE DEF f
  <2> QED BY <1>1, <2>2, CarriedKeyPut
<1>3. Decided(d, text) =
        IF control.state # "AUTOMATION" THEN Idle
        ELSE CASE Phase(conv) \in {"SUBMITTED", "HUMAN_REVIEW"} -> Idle
               [] Phase(conv) = "COLLECTING"      -> Collect(read, text)
               [] Phase(conv) = "READY_TO_SUBMIT" -> [read EXCEPT !.step = "begin"]
               [] Phase(conv) = "SUBMITTING"      -> [read EXCEPT !.step = "create"]
               [] Phase(conv) = "REVIEW"          -> Respond(read, text)
  BY DEF Decided
<1> HIDE DEF v, f, read
<1>4. ASSUME NEW kind \in Kinds PROVE TakenUp(ToSend(read, kind), d)
  <2> DEFINE s == [read EXCEPT !.step = "send"]
  <2>1. Read(s) /\ s.step = "send" /\ s.facts = conv.draft
    BY <1>2, StepPut DEF Steps
  <2>2. ToSend(read, kind) = [s EXCEPT !.kind = kind]
    BY <1>2 DEF ToSend, Delivery
  <2> HIDE DEF s
  <2>3. /\ Read(ToSend(read, kind)) /\ ToSend(read, kind).step = "send"
        /\ ToSend(read, kind).facts = conv.draft /\ ToSend(read, kind).kind = kind
    BY <2>1, <2>2, KindPut
  <2> QED BY <1>1, <2>3, FitIsNotIdle DEF TakenUp, FitDelivery
<1>5. ASSUME NEW draft \in Draft PROVE TakenUp(ToUpdate(read, draft), d)
  <2> DEFINE s == [read EXCEPT !.step = "update"]
  <2>1. Read(s) /\ s.step = "update"
    BY <1>2, StepPut DEF Steps
  <2>2. ToUpdate(read, draft) = [s EXCEPT !.facts = draft]
    BY <1>2 DEF ToUpdate, Delivery
  <2> HIDE DEF s
  <2>3. /\ Read(ToUpdate(read, draft)) /\ ToUpdate(read, draft).step = "update"
        /\ ToUpdate(read, draft).facts = draft
    BY <2>1, <2>2, FactsPut
  <2> QED BY <2>3, FitIsNotIdle DEF TakenUp, FitDelivery
<1>6. ASSUME NEW step \in {"confirm", "begin", "create"}, step = "create" => conv.key # None
      PROVE  TakenUp([read EXCEPT !.step = step], d)
  <2> DEFINE s == [read EXCEPT !.step = step]
  <2> step \in Steps
    BY DEF Steps
  <2>1. Read(s) /\ s.step = step /\ s.facts = conv.draft
    BY <1>2, StepPut
  <2> HIDE DEF s
  <2>2. TakenUp(s, d)
    BY <1>1, <1>6, <2>1, FitIsNotIdle DEF TakenUp, FitDelivery
  <2> QED BY <2>2 DEF s
<1>7. Collect(read, text) = Idle \/ TakenUp(Collect(read, text), d)
  <2>1. ASSUME text \in Answers
        PROVE  [conv.draft EXCEPT ![NextQuestion(conv.draft)] = text] \in Draft
    BY <1>1, <2>1 DEF Draft
  <2> QED BY <1>4, <1>5, <2>1 DEF Collect, Kinds
<1>8. Correct(read, text) = Idle \/ TakenUp(Correct(read, text), d)
  <2>1. [q \in Questions |-> IF q \in SectionOf[text] THEN None ELSE conv.draft[q]] \in Draft
    BY <1>1 DEF Draft
  <2> QED BY <1>5, <2>1 DEF Correct
<1>9. Respond(read, text) = Idle \/ TakenUp(Respond(read, text), d)
  <2>1. /\ TakenUp(ToSend(read, "review"), d) /\ TakenUp(ToSend(read, "correction"), d)
        /\ TakenUp([read EXCEPT !.step = "confirm"], d)
    BY <1>4, <1>6 DEF Kinds
  <2> QED BY <1>8, <2>1 DEF Respond
<1>10. TakenUp([read EXCEPT !.step = "begin"], d)
  BY <1>6
<1>11. Phase(conv) = "SUBMITTING" => TakenUp([read EXCEPT !.step = "create"], d)
  BY <1>6 DEF Phase
<1>12. Phase(conv) \in {"SUBMITTED", "SUBMITTING", "HUMAN_REVIEW", "COLLECTING", "REVIEW",
                        "READY_TO_SUBMIT"}
  BY DEF Phase
<1> QED BY <1>3, <1>7, <1>9, <1>10, <1>11, <1>12

-----------------------------------------------------------------------------
(* What is on its way is true of the state it was read from *)

\* Facts carried with a version are the draft, as long as that version, or the
\* summary made of it, stands.
Faithful(version, facts) ==
  /\ version <= conv.version
  /\ version \in {conv.version, conv.summary} => facts = conv.draft

Shows(version) == \E sent \in Summaries : sent.version = version

\* What a delivery may rely on at its step.
HandOf(w) ==
  LET d == work[w]
  IN  d # Idle =>
        /\ d.step # "received" => d.version <= conv.version
        /\ d.step \notin {"received", "update"} => Faithful(d.version, d.facts)
        /\ d.step = "present" => Shows(d.version)
        /\ d.step = "begin" /\ d.version = conv.version => d.key = conv.confirmation
        /\ d.step \in {"create", "link"} =>
             conv.key # None /\ d.key = conv.key /\ d.facts = conv.draft

\* A confirmation is of a summary that was sent, a submission of a confirmation.
StateTruth ==
  /\ conv.summary # None => Shows(conv.summary)
  /\ conv.confirmation # None => conv.summary # None
  /\ conv.key # None => conv.key = conv.confirmation

OutboxTruth == \A sent \in outbox : Faithful(sent.version, sent.facts)

QuotesTruth == \A m \in Messages : quotes[m] # None => m = conv.key /\ quotes[m] = conv.draft

ConvInv ==
  /\ TypeInv /\ StateTruth /\ OutboxTruth /\ QuotesTruth
  /\ \A w \in Workers : HandOf(w)

LEMMA NoneIsNoNumber == None \notin Nat /\ None \notin Messages /\ None \notin Draft
BY NoneIsNoAnswer DEF Messages, Draft

\* How the state may move: a version up; the draft changes only with the
\* summary withdrawn; nothing changes once the key is reserved.
Advances ==
  /\ conv'.version = conv.version + 1
  /\ conv'.summary = None \/ (conv'.draft = conv.draft /\ conv'.summary \in {conv.summary, conv.version})
  /\ conv.key # None =>
       /\ conv'.key = conv.key /\ conv'.confirmation = conv.confirmation
       /\ conv'.draft = conv.draft /\ conv'.summary = conv.summary

LEMMA FaithfulStays ==
  ASSUME conv \in State, Advances \/ UNCHANGED conv, NEW version \in Nat, NEW facts,
         Faithful(version, facts)
  PROVE  Faithful(version, facts)'
<1>1. CASE UNCHANGED conv
  BY <1>1 DEF Faithful
<1>2. CASE Advances
  <2>1. conv.version \in Nat
    BY DEF State
  <2>2. version <= conv.version /\ version # conv.version + 1
    BY <2>1 DEF Faithful
  <2>3. ASSUME version = conv'.summary PROVE facts = conv'.draft
    <3>1. conv'.draft = conv.draft /\ conv'.summary \in {conv.summary, conv.version}
      BY <1>2, <2>3, NoneIsNoNumber DEF Advances
    <3> QED BY <2>3, <3>1 DEF Faithful
  <2> QED BY <1>2, <2>1, <2>2, <2>3 DEF Advances, Faithful
<1> QED BY <1>1, <1>2

\* Summaries that were sent stay, in one status or another.
ShownStays == \A sent \in Summaries : \E again \in Summaries' : again.version = sent.version

LEMMA ShowsStays ==
  ASSUME ShownStays, NEW version, Shows(version)
  PROVE  Shows(version)'
BY DEF ShownStays, Shows

LEMMA HandStays ==
  ASSUME TypeInv, Advances \/ UNCHANGED conv, ShownStays,
         NEW w \in Workers, HandOf(w), work'[w] = work[w]
  PROVE  HandOf(w)'
<1> PICK d : d = work[w]
  OBVIOUS
<1> SUFFICES ASSUME d # Idle
             PROVE  /\ d.step # "received" => d.version <= conv'.version
                    /\ d.step \notin {"received", "update"} => Faithful(d.version, d.facts)'
                    /\ d.step = "present" => Shows(d.version)'
                    /\ d.step = "begin" /\ d.version = conv'.version => d.key = conv'.confirmation
                    /\ d.step \in {"create", "link"} =>
                         conv'.key # None /\ d.key = conv'.key /\ d.facts = conv'.draft
  BY DEF HandOf, Faithful, Shows
<1>1. /\ d.step # "received" => d.version <= conv.version
      /\ d.step \notin {"received", "update"} => Faithful(d.version, d.facts)
      /\ d.step = "present" => Shows(d.version)
      /\ d.step = "begin" /\ d.version = conv.version => d.key = conv.confirmation
      /\ d.step \in {"create", "link"} =>
           conv.key # None /\ d.key = conv.key /\ d.facts = conv.draft
  BY DEF HandOf
<1>2. conv \in State /\ conv.version \in Nat /\ d.version \in Nat
  BY Working DEF TypeInv, ConvTyped, State, Delivery
<1>3. d.step # "received" => d.version <= conv'.version
  BY <1>1, <1>2 DEF Advances
<1>4. d.step \notin {"received", "update"} => Faithful(d.version, d.facts)'
  BY <1>1, <1>2, FaithfulStays
<1>5. d.step = "present" => Shows(d.version)'
  BY <1>1, ShowsStays
<1>6. d.step = "begin" /\ d.version = conv'.version => d.key = conv'.confirmation
  BY <1>1, <1>2 DEF Advances
<1>7. d.step \in {"create", "link"} => conv'.key # None /\ d.key = conv'.key /\ d.facts = conv'.draft
  BY <1>1 DEF Advances
<1> QED BY <1>3, <1>4, <1>5, <1>6, <1>7

LEMMA OutboxStays ==
  ASSUME TypeInv, Advances \/ UNCHANGED conv, OutboxTruth, UNCHANGED outbox
  PROVE  OutboxTruth' /\ ShownStays
<1>1. ASSUME NEW sent \in outbox PROVE Faithful(sent.version, sent.facts)'
  <2>1. sent.version \in Nat /\ Faithful(sent.version, sent.facts) /\ conv \in State
    BY DEF TypeInv, ConvTyped, Outbound, OutboxTruth
  <2> QED BY <2>1, FaithfulStays
<1> QED BY <1>1 DEF OutboxTruth, ShownStays, Summaries

\* A step that leaves the state, the outbox and the Quotes alone.
LEMMA CarriedOn ==
  ASSUME ConvInv, TypeInv', UNCHANGED <<conv, quotes, outbox>>,
         \A w \in Workers : work'[w] = work[w] \/ HandOf(w)'
  PROVE  ConvInv'
<1>1. OutboxTruth' /\ ShownStays
  BY OutboxStays DEF ConvInv
<1>2. StateTruth' /\ QuotesTruth'
  BY DEF ConvInv, StateTruth, QuotesTruth, Shows, Summaries
<1>3. \A w \in Workers : HandOf(w)'
  BY <1>1, HandStays DEF ConvInv
<1> QED BY <1>1, <1>2, <1>3 DEF ConvInv

\* A step that leaves the outbox and the Quotes alone.
LEMMA StateMoved ==
  ASSUME ConvInv, TypeInv', Advances, StateTruth', UNCHANGED <<quotes, outbox>>,
         \A w \in Workers : work'[w] = work[w] \/ HandOf(w)'
  PROVE  ConvInv'
<1>1. OutboxTruth' /\ ShownStays
  BY OutboxStays DEF ConvInv
<1>2. QuotesTruth'
  BY NoneIsNoNumber DEF ConvInv, QuotesTruth, Advances
<1>3. \A w \in Workers : HandOf(w)'
  BY <1>1, HandStays DEF ConvInv
<1> QED BY <1>1, <1>2, <1>3 DEF ConvInv

\* A delivery that ends, and changes nothing else.
LEMMA Ended ==
  ASSUME ConvInv, TypeInv', UNCHANGED <<conv, quotes, outbox>>,
         NEW w \in Workers, work' = [work EXCEPT ![w] = Idle]
  PROVE  ConvInv'
<1>1. HandOf(w)' /\ \A v \in Workers \ {w} : work'[v] = work[v]
  BY DEF ConvInv, TypeInv, WorkFits, HandOf
<1> QED BY <1>1, CarriedOn

-----------------------------------------------------------------------------
(* Every step of the collector keeps the invariant *)

LEMMA DeliverKeeps ==
  ASSUME ConvInv, NEW w \in Workers, NEW m \in Messages, Deliver(w, m)
  PROVE  ConvInv'
<1> DEFINE d == [step |-> "received", message |-> m, authority |-> control.version,
                 version |-> 0, facts |-> None, kind |-> None, key |-> None]
<1>1. d \in FitDelivery /\ d.message = m /\ d.step = "received" /\ d # Idle
  BY ConversationBounds DEF FitDelivery, Delivery, Steps, Idle, ConvInv, TypeInv, ConvTyped, Control
<1>2. work' = [work EXCEPT ![w] = d] /\ UNCHANGED <<control, conv, quotes, outbox, failures, reviews>>
  BY DEF Deliver
<1> HIDE DEF d
<1>3. WorkFits
  BY DEF ConvInv, TypeInv
<1>4. /\ inbox' \in [Messages -> Inbound \cup {Absent}] /\ inbox'[m] \in Inbound
      /\ \A other \in Messages : inbox[other] \in Inbound => inbox'[other] \in Inbound
  <2>1. CASE inbox[m].status = "UNANSWERED" /\ UNCHANGED inbox
    <3>1. inbox[m] # Absent
      BY <2>1 DEF Absent
    <3> QED BY <1>3, <2>1, <3>1 DEF WorkFits
  <2>2. CASE \E text \in Texts :
               inbox' = [inbox EXCEPT ![m] =
                 [text |-> text, status |-> "UNANSWERED",
                  saw |-> IF text = "CONFIRM" THEN {sent.facts : sent \in Summaries} ELSE {}]]
    <3>1. PICK text \in Texts :
               inbox' = [inbox EXCEPT ![m] =
                 [text |-> text, status |-> "UNANSWERED",
                  saw |-> IF text = "CONFIRM" THEN {sent.facts : sent \in Summaries} ELSE {}]]
      BY <2>2
    <3> DEFINE saw  == IF text = "CONFIRM" THEN {sent.facts : sent \in Summaries} ELSE {}
               come == [text |-> text, status |-> "UNANSWERED", saw |-> saw]
    <3>2. saw \subseteq Draft
      BY DEF Summaries, ConvInv, TypeInv, ConvTyped, Outbound
    <3> HIDE DEF saw
    <3>3. come \in Inbound
      BY <3>2 DEF Inbound
    <3>4. inbox' = [inbox EXCEPT ![m] = come]
      BY <3>1 DEF saw
    <3> HIDE DEF come
    <3> QED BY <1>3, <3>3, <3>4 DEF WorkFits
  <2> QED BY <2>1, <2>2 DEF Deliver
<1>5. WorkFits'
  <2>1. work' \in [Workers -> FitDelivery \cup {Idle}]
    BY <1>1, <1>2, <1>3 DEF WorkFits
  <2>2. ASSUME NEW v \in Workers, work'[v] # Idle PROVE inbox'[work'[v].message] \in Inbound
    <3>1. CASE v = w
      BY <1>1, <1>2, <1>3, <1>4, <3>1 DEF WorkFits
    <3>2. CASE v # w
      <4>1. work'[v] = work[v] /\ work[v] # Idle
        BY <1>2, <2>2, <3>2
      <4>2. work[v].message \in Messages /\ inbox[work[v].message] \in Inbound
        BY <1>3, <4>1, Working DEF MessageOf
      <4> QED BY <1>4, <4>1, <4>2
    <3> QED BY <3>1, <3>2
  <2> QED BY <1>4, <2>1, <2>2 DEF WorkFits
<1>6. TypeInv'
  BY <1>2, <1>5 DEF ConvInv, TypeInv, ConvTyped
<1>7. HandOf(w)' /\ \A v \in Workers \ {w} : work'[v] = work[v]
  BY <1>1, <1>2, <1>3 DEF WorkFits, HandOf
<1> QED BY <1>2, <1>6, <1>7, CarriedOn

LEMMA DecideKeeps ==
  ASSUME ConvInv, NEW w \in Workers, Decide(w)
  PROVE  ConvInv'
<1> DEFINE text == inbox[MessageOf(w)].text
           next == Decided(work[w], text)
<1>1. work[w].step = "received" /\ UNCHANGED <<control, conv, quotes, outbox, failures, reviews>>
  BY DEF Decide
<1>2. IF next = Idle THEN Answer(w) ELSE Continue(w, next)
  BY DEF Decide
<1>3. WorkFits /\ conv \in State
  BY DEF ConvInv, TypeInv, ConvTyped
<1>4. work[w] \in FitDelivery /\ work[w] # Idle /\ text \in Texts
  BY <1>1, <1>3, Working DEF Steps, Inbound
<1>5. next = Idle \/ TakenUp(next, work[w])
  BY <1>3, <1>4, DecidedIsTakenUp
<1> HIDE DEF next, text
<1>6. CASE next = Idle
  <2>1. WorkFits' /\ work' = [work EXCEPT ![w] = Idle]
    BY <1>2, <1>3, <1>4, <1>6, AnswerFits
  <2>2. TypeInv'
    BY <1>1, <2>1 DEF ConvInv, TypeInv, ConvTyped
  <2> QED BY <1>1, <2>1, <2>2, Ended
<1>7. CASE next # Idle
  <2>1. TakenUp(next, work[w])
    BY <1>5, <1>7
  <2>2. WorkFits' /\ work' = [work EXCEPT ![w] = next]
    BY <1>2, <1>3, <1>4, <1>7, <2>1, ContinueFits DEF TakenUp
  <2>3. TypeInv'
    BY <1>1, <2>2 DEF ConvInv, TypeInv, ConvTyped
  <2>4. work'[w] = next /\ \A v \in Workers \ {w} : work'[v] = work[v]
    BY <1>3, <2>2 DEF WorkFits
  <2>5. conv.version \in Nat
    BY <1>3 DEF State
  <2>6. HandOf(w)'
    BY <1>1, <2>1, <2>4, <2>5 DEF TakenUp, HandOf, Faithful, ConvInv, StateTruth
  <2> QED BY <1>1, <2>3, <2>4, <2>6, CarriedOn
<1> QED BY <1>6, <1>7

\* The message of a delivery, and the outbox once it is in it.
Put(d, status) == [kind |-> d.kind, version |-> d.version, facts |-> d.facts, status |-> status]
OutboxWith(d, status) == (outbox \ Sent(d.kind, d.version)) \cup {Put(d, status)}

LEMMA SendDoes ==
  ASSUME NEW w \in Workers, Send(w)
  PROVE  /\ work[w].step = "send" /\ UNCHANGED <<control, conv, quotes, failures, reviews>>
         /\ outbox' = outbox \/ \E status \in {"PENDING", "ACCEPTED"} : outbox' = OutboxWith(work[w], status)
         /\ \/ Answer(w)
            \/ /\ work[w].kind = "review" /\ outbox' = OutboxWith(work[w], "ACCEPTED")
               /\ Continue(w, [work[w] EXCEPT !.step = "present"])
<1> DEFINE kept == IF Sent(work[w].kind, work[w].version) = {}
                     THEN OutboxWith(work[w], "PENDING") ELSE outbox
<1>1. /\ work[w].step = "send" /\ UNCHANGED <<control, conv, quotes, failures, reviews>>
      /\ \/ Answer(w) /\ (outbox' = outbox \/ outbox' = kept)
         \/ /\ outbox' = OutboxWith(work[w], "ACCEPTED")
            /\ IF work[w].kind = "review"
                 THEN Continue(w, [work[w] EXCEPT !.step = "present"]) ELSE Answer(w)
  BY Zenon DEF Send, OutboxWith, Put
<1>2. kept = outbox \/ kept = OutboxWith(work[w], "PENDING")
  OBVIOUS
<1> HIDE DEF kept
<1> QED BY <1>1, <1>2

\* The message is as true as the delivery, and takes the place of the earlier one.
LEMMA OutboxPutKeeps ==
  ASSUME ConvInv, NEW w \in Workers, work[w].step = "send", UNCHANGED conv,
         \/ outbox' = outbox
         \/ \E status \in {"PENDING", "ACCEPTED"} : outbox' = OutboxWith(work[w], status)
  PROVE  outbox' \subseteq Outbound /\ OutboxTruth' /\ ShownStays
<1> PICK d : d = work[w]
  OBVIOUS
<1>1. CASE outbox' = outbox
  BY <1>1, OutboxStays DEF ConvInv, TypeInv, ConvTyped
<1>2. ASSUME NEW status \in {"PENDING", "ACCEPTED"}, outbox' = OutboxWith(d, status)
      PROVE  outbox' \subseteq Outbound /\ OutboxTruth' /\ ShownStays
  <2> DEFINE put == Put(d, status)
  <2>1. /\ d \in FitDelivery /\ d \in Delivery /\ d # Idle /\ conv \in State
        /\ outbox \subseteq Outbound
    BY Working DEF Steps, ConvInv, TypeInv, ConvTyped
  <2>2. d.kind \in Kinds /\ d.version \in Nat /\ d.facts \in Draft
    BY <2>1 DEF FitDelivery, Delivery
  <2>3. /\ put \in Outbound /\ put.kind = d.kind /\ put.version = d.version /\ put.facts = d.facts
    BY <2>2 DEF Put, Outbound
  <2>4. Faithful(d.version, d.facts)
    BY <2>1 DEF ConvInv, HandOf
  <2> HIDE DEF put
  <2>5. outbox' = (outbox \ Sent(d.kind, d.version)) \cup {put}
    BY <1>2 DEF OutboxWith, put
  <2>6. outbox' \subseteq Outbound
    BY <2>1, <2>3, <2>5
  <2>7. ASSUME NEW sent \in outbox' PROVE Faithful(sent.version, sent.facts)'
    <3>1. Faithful(sent.version, sent.facts) /\ sent.version \in Nat
      BY <2>1, <2>2, <2>3, <2>4, <2>5 DEF ConvInv, OutboxTruth, Outbound
    <3> QED BY <2>1, <3>1, FaithfulStays
  <2>8. ASSUME NEW sent \in Summaries PROVE \E again \in Summaries' : again.version = sent.version
    <3>1. sent \in outbox /\ sent.kind = "review"
      BY DEF Summaries
    <3>2. CASE sent \in Sent(d.kind, d.version)
      <4>1. put.kind = "review" /\ put.version = sent.version
        BY <2>3, <3>1, <3>2 DEF Sent
      <4>2. put \in Summaries'
        BY <2>5, <4>1 DEF Summaries
      <4> QED BY <4>1, <4>2
    <3>3. CASE sent \notin Sent(d.kind, d.version)
      BY <2>5, <3>1, <3>3 DEF Summaries
    <3> QED BY <3>2, <3>3
  <2> QED BY <2>6, <2>7, <2>8 DEF OutboxTruth, ShownStays
<1> QED BY <1>1, <1>2

LEMMA SendKeeps ==
  ASSUME ConvInv, NEW w \in Workers, Send(w)
  PROVE  ConvInv'
<1> DEFINE next == [work[w] EXCEPT !.step = "present"]
<1>1. /\ work[w].step = "send" /\ UNCHANGED <<control, conv, quotes, failures, reviews>>
      /\ outbox' = outbox \/ \E status \in {"PENDING", "ACCEPTED"} : outbox' = OutboxWith(work[w], status)
      /\ \/ Answer(w)
         \/ /\ work[w].kind = "review" /\ outbox' = OutboxWith(work[w], "ACCEPTED")
            /\ Continue(w, next)
  BY SendDoes
<1>2. outbox' \subseteq Outbound /\ OutboxTruth' /\ ShownStays
  BY <1>1, OutboxPutKeeps
<1>3. /\ WorkFits /\ work[w] \in FitDelivery /\ work[w] \in Delivery /\ work[w] # Idle
      /\ conv \in State
  BY <1>1, Working DEF Steps, ConvInv, TypeInv, ConvTyped
<1>4. /\ next \in Delivery /\ next.step = "present" /\ next.message = work[w].message
      /\ next.version = work[w].version /\ next.facts = work[w].facts
  BY <1>3, StepPut DEF Steps
<1>5. next \in FitDelivery
  BY <1>1, <1>3, <1>4 DEF FitDelivery
<1> HIDE DEF next
<1>6. StateTruth'
  BY <1>1, <1>2, ShowsStays DEF ConvInv, StateTruth
<1>7. QuotesTruth'
  BY <1>1 DEF ConvInv, QuotesTruth
<1>8. ASSUME WorkFits', HandOf(w)', \A v \in Workers \ {w} : work'[v] = work[v]
      PROVE  ConvInv'
  <2>1. TypeInv'
    BY <1>1, <1>2, <1>8 DEF ConvInv, TypeInv, ConvTyped
  <2>2. \A v \in Workers : HandOf(v)'
    BY <1>1, <1>2, <1>8, HandStays DEF ConvInv
  <2> QED BY <1>2, <1>6, <1>7, <2>1, <2>2 DEF ConvInv
<1>9. CASE Answer(w)
  <2>1. WorkFits' /\ work' = [work EXCEPT ![w] = Idle]
    BY <1>3, <1>9, AnswerFits
  <2> QED BY <1>3, <1>8, <2>1 DEF WorkFits, HandOf
<1>10. CASE /\ work[w].kind = "review" /\ outbox' = OutboxWith(work[w], "ACCEPTED")
            /\ Continue(w, next)
  <2>1. WorkFits' /\ work' = [work EXCEPT ![w] = next]
    BY <1>3, <1>4, <1>5, <1>10, ContinueFits
  <2>2. work'[w] = next /\ \A v \in Workers \ {w} : work'[v] = work[v]
    BY <1>3, <2>1 DEF WorkFits
  <2>3. \E sent \in Summaries' : sent.version = next.version
    <3> PICK d : d = work[w]
      OBVIOUS
    <3>1. /\ Put(d, "ACCEPTED") \in outbox' /\ Put(d, "ACCEPTED").kind = "review"
          /\ Put(d, "ACCEPTED").version = d.version
      BY <1>10 DEF OutboxWith, Put
    <3>2. \E sent \in outbox' : sent.kind = "review" /\ sent.version = work[w].version
      BY <3>1
    <3> QED BY <1>4, <3>2 DEF Summaries
  <2>4. HandOf(w)'
    <3>1. work[w].version <= conv.version /\ Faithful(work[w].version, work[w].facts)
      BY <1>1, <1>3 DEF ConvInv, HandOf
    <3> QED BY <1>1, <1>4, <2>2, <2>3, <3>1 DEF HandOf, Faithful, Shows
  <2> QED BY <1>8, <2>1, <2>2, <2>4
<1> QED BY <1>1, <1>9, <1>10

\* The delivery gives the state up, or the condition holds and the state moves.
Gives(w) == UNCHANGED conv /\ work' = [work EXCEPT ![w] = Idle]

Moves(w, allowed, next, delivery) ==
  /\ Authorized(w) /\ conv.version = work[w].version /\ allowed
  /\ conv' = next /\ work' = [work EXCEPT ![w] = delivery]

LEMMA GivesKeeps ==
  ASSUME ConvInv, NEW w \in Workers, Gives(w), WorkFits',
         UNCHANGED <<control, quotes, outbox, failures, reviews>>
  PROVE  ConvInv'
<1>1. TypeInv'
  BY DEF Gives, ConvInv, TypeInv, ConvTyped
<1> QED BY <1>1, Ended DEF Gives

LEMMA TransitionDoes ==
  ASSUME WorkFits, conv \in State, NEW w \in Workers, work[w] # Idle,
         NEW allowed, NEW next \in State, NEW delivery \in FitDelivery \cup {Idle},
         delivery # Idle => delivery.message = work[w].message,
         Transition(w, allowed, next, delivery)
  PROVE  WorkFits' /\ conv' \in State /\ (Gives(w) \/ Moves(w, allowed, next, delivery))
BY TransitionFits DEF Gives, Moves

\* The question that follows an update.
Asking(w) == [work[w] EXCEPT !.step = "send", !.kind = "question", !.version = @ + 1]

LEMMA AskingTyped ==
  ASSUME NEW w \in Workers, work[w] \in FitDelivery, work[w].facts \in Draft
  PROVE  /\ Asking(w) \in FitDelivery /\ Asking(w).message = work[w].message
         /\ Asking(w).step = "send" /\ Asking(w).version = work[w].version + 1
         /\ Asking(w).facts = work[w].facts /\ Asking(w) # Idle
<1> DEFINE d == work[w]
           a == [d EXCEPT !.step = "send"]
           b == [a EXCEPT !.kind = "question"]
<1>1. d \in Delivery /\ d.version + 1 \in Nat /\ Asking(w) = [b EXCEPT !.version = d.version + 1]
  BY DEF FitDelivery, Delivery, Asking
<1>2. /\ a \in Delivery /\ a.step = "send" /\ a.message = d.message /\ a.facts = d.facts
  BY <1>1, StepPut DEF Steps
<1> HIDE DEF a
<1>3. /\ b \in Delivery /\ b.step = "send" /\ b.message = d.message /\ b.facts = d.facts
      /\ b.kind = "question"
  BY <1>2, KindPut DEF Kinds
<1> HIDE DEF b
<1>4. /\ Asking(w) \in Delivery /\ Asking(w).step = "send" /\ Asking(w).message = d.message
      /\ Asking(w).facts = d.facts /\ Asking(w).kind = "question"
      /\ Asking(w).version = d.version + 1
  BY <1>1, <1>3, ReadPut
<1> QED BY <1>4, FitIsNotIdle DEF FitDelivery, Kinds

LEMMA UpdateDoes ==
  ASSUME ConvInv, NEW w \in Workers, Update(w)
  PROVE  /\ UNCHANGED <<control, quotes, outbox, failures, reviews>>
         /\ WorkFits' /\ conv' \in State /\ work[w].facts \in Draft
         /\ \/ Gives(w)
            \/ \E delivery \in {Asking(w), Idle} :
                 Moves(w, Updatable(conv), Updated(conv, work[w].facts), delivery)
<1> DEFINE d     == work[w]
           after == IF Open(d.facts) = {} THEN Idle ELSE Asking(w)
<1>1. /\ WorkFits /\ conv \in State /\ d \in FitDelivery /\ d # Idle /\ d.step = "update"
      /\ UNCHANGED <<control, quotes, outbox, failures, reviews>>
  BY Working DEF Update, Steps, ConvInv, TypeInv, ConvTyped
<1>2. d.facts \in Draft
  BY <1>1 DEF FitDelivery
<1>3. /\ Asking(w) \in FitDelivery /\ Asking(w).message = d.message
      /\ Updated(conv, d.facts) \in State
  BY <1>1, <1>2, AskingTyped, UpdatedTyped
<1>4. Transition(w, Updatable(conv), Updated(conv, d.facts), after)
  BY DEF Update, Asking
<1>5. /\ after \in FitDelivery \cup {Idle} /\ after \in {Asking(w), Idle}
      /\ after # Idle => after.message = d.message
  BY <1>3
<1> HIDE DEF after
<1>6. /\ WorkFits' /\ conv' \in State
      /\ Gives(w) \/ Moves(w, Updatable(conv), Updated(conv, d.facts), after)
  BY <1>1, <1>3, <1>4, <1>5, TransitionDoes
<1> QED BY <1>1, <1>2, <1>5, <1>6

LEMMA UpdateKeeps ==
  ASSUME ConvInv, NEW w \in Workers, Update(w)
  PROVE  ConvInv'
<1>1. /\ UNCHANGED <<control, quotes, outbox, failures, reviews>>
      /\ WorkFits' /\ conv' \in State /\ work[w].facts \in Draft
      /\ \/ Gives(w)
         \/ \E delivery \in {Asking(w), Idle} :
              Moves(w, Updatable(conv), Updated(conv, work[w].facts), delivery)
  BY UpdateDoes
<1>2. CASE Gives(w)
  BY <1>1, <1>2, GivesKeeps
<1>3. ASSUME NEW delivery \in {Asking(w), Idle},
             Moves(w, Updatable(conv), Updated(conv, work[w].facts), delivery)
      PROVE  ConvInv'
  <2>1. /\ conv \in State /\ work \in [Workers -> FitDelivery \cup {Idle}]
        /\ conv.version \in Nat
    BY DEF ConvInv, TypeInv, ConvTyped, WorkFits, State
  <2>2. /\ conv.version = work[w].version /\ conv.key = None
        /\ conv' = Updated(conv, work[w].facts) /\ work' = [work EXCEPT ![w] = delivery]
    BY <1>3 DEF Moves, Updatable
  <2>3. /\ conv'.version = conv.version + 1 /\ conv'.draft = work[w].facts
        /\ conv'.summary = None /\ conv'.confirmation = None /\ conv'.key = None
    BY <1>1, <2>1, <2>2, UpdatedTyped
  <2>4. Advances /\ StateTruth'
    BY <2>2, <2>3 DEF Advances, StateTruth
  <2>5. TypeInv'
    BY <1>1 DEF ConvInv, TypeInv, ConvTyped
  <2>6. work'[w] = delivery /\ \A v \in Workers \ {w} : work'[v] = work[v]
    BY <2>1, <2>2
  <2>7. HandOf(w)'
    <3>1. CASE delivery = Idle
      BY <2>6, <3>1 DEF HandOf
    <3>2. CASE delivery = Asking(w)
      <4>1. work[w] \in FitDelivery
        BY Working DEF Update, Steps, ConvInv, TypeInv
      <4>2. /\ delivery.step = "send" /\ delivery.version = conv'.version
            /\ delivery.facts = conv'.draft
        BY <1>1, <2>2, <2>3, <3>2, <4>1, AskingTyped
      <4>3. conv'.version \in Nat
        BY <2>1, <2>3
      <4> QED BY <2>6, <4>2, <4>3 DEF HandOf, Faithful
    <3> QED BY <3>1, <3>2
  <2> QED BY <1>1, <2>4, <2>5, <2>6, <2>7, StateMoved
<1> QED BY <1>1, <1>2, <1>3

\* Of a state that moves, the delivery that moved it ends or goes on.
LEMMA MovesKeeps ==
  ASSUME ConvInv, NEW w \in Workers, NEW allowed, NEW next, NEW delivery,
         Moves(w, allowed, next, delivery), WorkFits', conv' \in State,
         UNCHANGED <<control, quotes, outbox, failures, reviews>>,
         Advances, StateTruth', HandOf(w)'
  PROVE  ConvInv'
<1>1. TypeInv'
  BY DEF ConvInv, TypeInv, ConvTyped
<1>2. \A v \in Workers \ {w} : work'[v] = work[v]
  BY DEF Moves, ConvInv, TypeInv, WorkFits
<1> QED BY <1>1, <1>2, StateMoved

\* What a phase says of the state.
LEMMA PhaseSays ==
  ASSUME NEW state
  PROVE  /\ Phase(state) = "REVIEW" => state.key = None /\ state.quote = None
         /\ Phase(state) = "READY_TO_SUBMIT" =>
              state.key = None /\ state.quote = None /\ state.confirmation # None
         /\ Phase(state) = "SUBMITTING" => state.key # None /\ state.quote = None
BY DEF Phase

LEMMA PresentDoes ==
  ASSUME ConvInv, NEW w \in Workers, Present(w)
  PROVE  /\ UNCHANGED <<control, quotes, outbox, failures, reviews>>
         /\ WorkFits' /\ conv' \in State /\ work[w].step = "present"
         /\ \/ Gives(w)
            \/ Moves(w, Presentable(conv), Presented(conv, work[w].version), Idle)
<1>1. /\ WorkFits /\ conv \in State /\ work[w] \in Delivery /\ work[w] # Idle
      /\ work[w].step = "present" /\ UNCHANGED <<control, quotes, outbox, failures, reviews>>
  BY Working DEF Present, Steps, ConvInv, TypeInv, ConvTyped
<1>2. Presented(conv, work[w].version) \in State
  BY <1>1, PresentedTyped DEF Delivery
<1>3. Transition(w, Presentable(conv), Presented(conv, work[w].version), Idle)
  BY DEF Present
<1> QED BY <1>1, <1>2, <1>3, TransitionDoes

LEMMA PresentKeeps ==
  ASSUME ConvInv, NEW w \in Workers, Present(w)
  PROVE  ConvInv'
<1>1. /\ UNCHANGED <<control, quotes, outbox, failures, reviews>>
      /\ WorkFits' /\ conv' \in State /\ work[w].step = "present"
      /\ \/ Gives(w)
         \/ Moves(w, Presentable(conv), Presented(conv, work[w].version), Idle)
  BY PresentDoes
<1>2. CASE Gives(w)
  BY <1>1, <1>2, GivesKeeps
<1>3. CASE Moves(w, Presentable(conv), Presented(conv, work[w].version), Idle)
  <2>1. conv \in State /\ conv.version \in Nat /\ work \in [Workers -> FitDelivery \cup {Idle}]
    BY DEF ConvInv, TypeInv, ConvTyped, WorkFits, State
  <2>2. /\ conv.version = work[w].version /\ conv.key = None
        /\ conv' = Presented(conv, conv.version) /\ work' = [work EXCEPT ![w] = Idle]
    BY <1>3, PhaseSays DEF Moves, Presentable
  <2>3. /\ conv'.version = conv.version + 1 /\ conv'.draft = conv.draft
        /\ conv'.summary = conv.version /\ conv'.confirmation = None /\ conv'.key = None
    BY <2>1, <2>2, PresentedTyped
  <2>4. Shows(conv.version)
    BY <1>1, <2>2 DEF ConvInv, HandOf, Idle
  <2>5. Advances
    BY <2>2, <2>3 DEF Advances
  <2>6. StateTruth'
    BY <1>1, <2>3, <2>4 DEF StateTruth, Shows, Summaries
  <2>7. HandOf(w)'
    BY <2>1, <2>2 DEF HandOf
  <2> QED BY <1>1, <1>3, <2>5, <2>6, <2>7, MovesKeeps
<1> QED BY <1>1, <1>2, <1>3

\* The delivery of a CONFIRM that was recorded goes on to the submission.
Submitting(w) == [work[w] EXCEPT !.step = "begin", !.version = @ + 1, !.key = MessageOf(w)]

LEMMA SubmittingTyped ==
  ASSUME NEW w \in Workers, work[w] \in FitDelivery, work[w].facts \in Draft
  PROVE  /\ Submitting(w) \in FitDelivery /\ Submitting(w).message = work[w].message
         /\ Submitting(w).step = "begin" /\ Submitting(w).version = work[w].version + 1
         /\ Submitting(w).facts = work[w].facts /\ Submitting(w).key = work[w].message
         /\ Submitting(w) # Idle
<1> DEFINE d == work[w]
           a == [d EXCEPT !.step = "begin"]
           b == [a EXCEPT !.version = d.version + 1]
<1>1. /\ d \in Delivery /\ d.version + 1 \in Nat /\ d.message \in Messages
      /\ Submitting(w) = [b EXCEPT !.key = d.message]
  BY DEF FitDelivery, Delivery, Submitting, MessageOf
<1>2. /\ a \in Delivery /\ a.step = "begin" /\ a.message = d.message /\ a.facts = d.facts
  BY <1>1, StepPut DEF Steps
<1> HIDE DEF a
<1>3. /\ b \in Delivery /\ b.step = "begin" /\ b.message = d.message /\ b.facts = d.facts
      /\ b.version = d.version + 1
  BY <1>1, <1>2, ReadPut
<1> HIDE DEF b
<1>4. /\ Submitting(w) \in Delivery /\ Submitting(w).step = "begin"
      /\ Submitting(w).message = d.message /\ Submitting(w).facts = d.facts
      /\ Submitting(w).version = d.version + 1 /\ Submitting(w).key = d.message
  BY <1>1, <1>3, CarriedKeyPut
<1> QED BY <1>4, FitIsNotIdle DEF FitDelivery

LEMMA ConfirmDoes ==
  ASSUME ConvInv, NEW w \in Workers, Confirm(w)
  PROVE  /\ UNCHANGED <<control, quotes, outbox, failures, reviews>>
         /\ WorkFits' /\ conv' \in State
         /\ work[w].step = "confirm" /\ work[w] \in FitDelivery /\ work[w] # Idle
         /\ work[w].facts \in Draft /\ MessageOf(w) \in Messages
         /\ \/ Gives(w)
            \/ Moves(w, Confirmable(conv), Confirmed(conv, MessageOf(w)), Submitting(w))
<1>1. /\ WorkFits /\ conv \in State /\ work[w] \in FitDelivery /\ work[w] # Idle
      /\ work[w].step = "confirm" /\ MessageOf(w) \in Messages
      /\ UNCHANGED <<control, quotes, outbox, failures, reviews>>
  BY Working DEF Confirm, Steps, ConvInv, TypeInv, ConvTyped
<1>2. work[w].facts \in Draft
  BY <1>1 DEF FitDelivery
<1>3. /\ Confirmed(conv, MessageOf(w)) \in State
      /\ Submitting(w) \in FitDelivery /\ Submitting(w).message = work[w].message
  BY <1>1, <1>2, ConfirmedTyped, SubmittingTyped
<1>4. Transition(w, Confirmable(conv), Confirmed(conv, MessageOf(w)), Submitting(w))
  BY DEF Confirm, Submitting
<1>5. \/ Gives(w)
      \/ Moves(w, Confirmable(conv), Confirmed(conv, MessageOf(w)), Submitting(w))
  BY <1>1, <1>3, <1>4, TransitionDoes
<1>6. WorkFits' /\ conv' \in State
  BY <1>1, <1>3, <1>4, TransitionDoes
<1> QED BY <1>1, <1>2, <1>5, <1>6

LEMMA ConfirmKeeps ==
  ASSUME ConvInv, NEW w \in Workers, Confirm(w)
  PROVE  ConvInv'
<1>1. /\ UNCHANGED <<control, quotes, outbox, failures, reviews>>
      /\ WorkFits' /\ conv' \in State
      /\ work[w].step = "confirm" /\ work[w] \in FitDelivery /\ work[w] # Idle
      /\ work[w].facts \in Draft /\ MessageOf(w) \in Messages
      /\ \/ Gives(w)
         \/ Moves(w, Confirmable(conv), Confirmed(conv, MessageOf(w)), Submitting(w))
  BY ConfirmDoes
<1>2. CASE Gives(w)
  BY <1>1, <1>2, GivesKeeps
<1>3. CASE Moves(w, Confirmable(conv), Confirmed(conv, MessageOf(w)), Submitting(w))
  <2>1. conv \in State /\ conv.version \in Nat /\ work \in [Workers -> FitDelivery \cup {Idle}]
    BY DEF ConvInv, TypeInv, ConvTyped, WorkFits, State
  <2>2. /\ conv.version = work[w].version /\ conv.key = None /\ conv.summary # None
        /\ conv' = Confirmed(conv, MessageOf(w)) /\ work'[w] = Submitting(w)
    BY <1>3, <2>1, PhaseSays DEF Moves, Confirmable
  <2>3. /\ conv'.version = conv.version + 1 /\ conv'.draft = conv.draft
        /\ conv'.summary = conv.summary /\ conv'.confirmation = MessageOf(w) /\ conv'.key = None
    BY <1>1, <2>1, <2>2, ConfirmedTyped
  <2>4. Advances
    BY <2>2, <2>3 DEF Advances
  <2>5. StateTruth'
    BY <1>1, <2>2, <2>3 DEF ConvInv, StateTruth, Shows, Summaries
  <2>6. work[w].facts = conv.draft
    BY <1>1, <2>2 DEF ConvInv, HandOf, Faithful
  <2>7. HandOf(w)'
    <3>1. /\ Submitting(w).step = "begin" /\ Submitting(w).version = conv'.version
          /\ Submitting(w).facts = conv'.draft /\ Submitting(w).key = conv'.confirmation
      BY <1>1, <2>2, <2>3, <2>6, SubmittingTyped DEF MessageOf
    <3> QED BY <2>1, <2>2, <2>3, <3>1 DEF HandOf, Faithful
  <2> QED BY <1>1, <1>3, <2>4, <2>5, <2>7, MovesKeeps
<1> QED BY <1>1, <1>2, <1>3

\* The reserved key goes on to the Quote.
Creating(w) == [work[w] EXCEPT !.step = "create", !.version = @ + 1]

LEMMA CreatingTyped ==
  ASSUME NEW w \in Workers, work[w] \in FitDelivery, work[w].facts \in Draft
  PROVE  /\ Creating(w) \in FitDelivery /\ Creating(w).message = work[w].message
         /\ Creating(w).step = "create" /\ Creating(w).version = work[w].version + 1
         /\ Creating(w).facts = work[w].facts /\ Creating(w).key = work[w].key
         /\ Creating(w) # Idle
<1> DEFINE d == work[w]
           a == [d EXCEPT !.step = "create"]
<1>1. /\ d \in Delivery /\ d.version + 1 \in Nat
      /\ Creating(w) = [a EXCEPT !.version = d.version + 1]
  BY DEF FitDelivery, Delivery, Creating
<1>2. /\ a \in Delivery /\ a.step = "create" /\ a.message = d.message /\ a.facts = d.facts
      /\ a.key = d.key
  BY <1>1, StepPut DEF Steps
<1> HIDE DEF a
<1>3. /\ Creating(w) \in Delivery /\ Creating(w).step = "create"
      /\ Creating(w).message = d.message /\ Creating(w).facts = d.facts
      /\ Creating(w).version = d.version + 1 /\ Creating(w).key = d.key
  BY <1>1, <1>2, ReadPut
<1> QED BY <1>3, FitIsNotIdle DEF FitDelivery

LEMMA BeginDoes ==
  ASSUME ConvInv, NEW w \in Workers, Begin(w)
  PROVE  /\ UNCHANGED <<control, quotes, outbox, failures, reviews>>
         /\ WorkFits' /\ conv' \in State
         /\ work[w].step = "begin" /\ work[w] \in FitDelivery /\ work[w] # Idle
         /\ work[w].facts \in Draft /\ work[w].key \in Messages \cup {None}
         /\ \/ Gives(w)
            \/ Moves(w, Beginnable(conv), Begun(conv, work[w].key), Creating(w))
<1>1. /\ WorkFits /\ conv \in State /\ work[w] \in FitDelivery /\ work[w] # Idle
      /\ work[w].step = "begin" /\ work[w].key \in Messages \cup {None}
      /\ UNCHANGED <<control, quotes, outbox, failures, reviews>>
  BY Working DEF Begin, Steps, Delivery, ConvInv, TypeInv, ConvTyped
<1>2. work[w].facts \in Draft
  BY <1>1 DEF FitDelivery
<1>3. CASE Refuse(w) /\ UNCHANGED conv
  BY <1>1, <1>2, <1>3, RefuseFits DEF Gives
<1>4. CASE Reserve(w)
  <2>1. /\ Begun(conv, work[w].key) \in State
        /\ Creating(w) \in FitDelivery /\ Creating(w).message = work[w].message
    BY <1>1, <1>2, BegunTyped, CreatingTyped
  <2>2. Transition(w, Beginnable(conv), Begun(conv, work[w].key), Creating(w))
    BY <1>4 DEF Reserve, Creating
  <2>3. \/ Gives(w)
        \/ Moves(w, Beginnable(conv), Begun(conv, work[w].key), Creating(w))
    BY <1>1, <2>1, <2>2, TransitionDoes
  <2>4. WorkFits' /\ conv' \in State
    BY <1>1, <2>1, <2>2, TransitionDoes
  <2> QED BY <1>1, <1>2, <2>3, <2>4
<1> QED BY <1>3, <1>4 DEF Begin

LEMMA BeginKeeps ==
  ASSUME ConvInv, NEW w \in Workers, Begin(w)
  PROVE  ConvInv'
<1>1. /\ UNCHANGED <<control, quotes, outbox, failures, reviews>>
      /\ WorkFits' /\ conv' \in State
      /\ work[w].step = "begin" /\ work[w] \in FitDelivery /\ work[w] # Idle
      /\ work[w].facts \in Draft /\ work[w].key \in Messages \cup {None}
      /\ \/ Gives(w)
         \/ Moves(w, Beginnable(conv), Begun(conv, work[w].key), Creating(w))
  BY BeginDoes
<1>2. CASE Gives(w)
  BY <1>1, <1>2, GivesKeeps
<1>3. CASE Moves(w, Beginnable(conv), Begun(conv, work[w].key), Creating(w))
  <2>1. conv \in State /\ conv.version \in Nat /\ work \in [Workers -> FitDelivery \cup {Idle}]
    BY DEF ConvInv, TypeInv, ConvTyped, WorkFits, State
  <2>2. /\ conv.version = work[w].version /\ conv.key = None /\ conv.confirmation # None
        /\ conv' = Begun(conv, work[w].key) /\ work'[w] = Creating(w)
    BY <1>3, <2>1, PhaseSays DEF Moves, Beginnable
  <2>3. work[w].facts = conv.draft /\ work[w].key = conv.confirmation
    BY <1>1, <2>2 DEF ConvInv, HandOf, Faithful
  <2>4. /\ conv'.version = conv.version + 1 /\ conv'.draft = conv.draft
        /\ conv'.summary = conv.summary /\ conv'.confirmation = conv.confirmation
        /\ conv'.key = conv.confirmation
    BY <1>1, <2>1, <2>2, <2>3, BegunTyped
  <2>5. Advances
    BY <2>2, <2>4 DEF Advances
  <2>6. StateTruth'
    BY <1>1, <2>2, <2>4 DEF ConvInv, StateTruth, Shows, Summaries
  <2>7. HandOf(w)'
    <3>1. /\ Creating(w).step = "create" /\ Creating(w).version = conv'.version
          /\ Creating(w).facts = conv'.draft /\ Creating(w).key = conv'.key
      BY <1>1, <2>2, <2>3, <2>4, CreatingTyped
    <3> QED BY <2>1, <2>2, <2>4, <3>1 DEF HandOf, Faithful
  <2> QED BY <1>1, <1>3, <2>5, <2>6, <2>7, MovesKeeps
<1> QED BY <1>1, <1>2, <1>3

LEMMA LinkDoes ==
  ASSUME ConvInv, NEW w \in Workers, Link(w)
  PROVE  /\ UNCHANGED <<control, quotes, outbox, failures, reviews>>
         /\ WorkFits' /\ conv' \in State
         /\ work[w].step = "link" /\ work[w] # Idle /\ work[w].key \in Messages \cup {None}
         /\ \/ Gives(w)
            \/ Moves(w, Linkable(conv), Linked(conv, work[w].key), Idle)
<1>1. /\ WorkFits /\ conv \in State /\ work[w] \in Delivery /\ work[w] # Idle
      /\ work[w].step = "link" /\ UNCHANGED <<control, quotes, outbox, failures, reviews>>
      /\ work[w].key \in Messages \cup {None}
  BY Working DEF Link, Steps, Delivery, ConvInv, TypeInv, ConvTyped
<1>2. Linked(conv, work[w].key) \in State
  BY <1>1, LinkedTyped
<1>3. Transition(w, Linkable(conv), Linked(conv, work[w].key), Idle)
  BY DEF Link, RecordQuote
<1>4. Gives(w) \/ Moves(w, Linkable(conv), Linked(conv, work[w].key), Idle)
  BY <1>1, <1>2, <1>3, TransitionDoes
<1>5. WorkFits' /\ conv' \in State
  BY <1>1, <1>2, <1>3, TransitionDoes
<1> QED BY <1>1, <1>4, <1>5

LEMMA LinkKeeps ==
  ASSUME ConvInv, NEW w \in Workers, Link(w)
  PROVE  ConvInv'
<1>1. /\ UNCHANGED <<control, quotes, outbox, failures, reviews>>
      /\ WorkFits' /\ conv' \in State
      /\ work[w].step = "link" /\ work[w] # Idle /\ work[w].key \in Messages \cup {None}
      /\ \/ Gives(w)
         \/ Moves(w, Linkable(conv), Linked(conv, work[w].key), Idle)
  BY LinkDoes
<1>2. CASE Gives(w)
  BY <1>1, <1>2, GivesKeeps
<1>3. CASE Moves(w, Linkable(conv), Linked(conv, work[w].key), Idle)
  <2>1. conv \in State /\ work \in [Workers -> FitDelivery \cup {Idle}]
    BY DEF ConvInv, TypeInv, ConvTyped, WorkFits
  <2>2. conv' = Linked(conv, work[w].key) /\ work'[w] = Idle
    BY <1>3, <2>1 DEF Moves
  <2>3. /\ conv'.version = conv.version + 1 /\ conv'.draft = conv.draft
        /\ conv'.summary = conv.summary /\ conv'.confirmation = conv.confirmation
        /\ conv'.key = conv.key
    BY <1>1, <2>1, <2>2, LinkedTyped
  <2>4. Advances
    BY <2>3 DEF Advances
  <2>5. StateTruth'
    BY <1>1, <2>3 DEF ConvInv, StateTruth, Shows, Summaries
  <2>6. HandOf(w)'
    BY <2>2 DEF HandOf
  <2> QED BY <1>1, <1>3, <2>4, <2>5, <2>6, MovesKeeps
<1> QED BY <1>1, <1>2, <1>3

\* The Quote is created under the key of the state, of the draft of the state.
LEMMA CreateDoes ==
  ASSUME ConvInv, NEW w \in Workers, Create(w)
  PROVE  /\ UNCHANGED <<control, conv, outbox, failures, reviews>>
         /\ conv.key \in Messages /\ conv.draft \in Draft
         /\ WorkFits' /\ work' = [work EXCEPT ![w] = [work[w] EXCEPT !.step = "link"]]
         /\ quotes' = IF quotes[conv.key] = None
                        THEN [quotes EXCEPT ![conv.key] = conv.draft] ELSE quotes
         /\ work[w] \in FitDelivery /\ work[w] # Idle /\ work[w].step = "create"
<1> DEFINE next == [work[w] EXCEPT !.step = "link"]
<1>1. /\ WorkFits /\ conv \in State /\ work[w] \in FitDelivery /\ work[w] \in Delivery
      /\ work[w] # Idle /\ work[w].step = "create"
      /\ UNCHANGED <<control, conv, outbox, failures, reviews>>
  BY Working DEF Create, Steps, ConvInv, TypeInv, ConvTyped
<1>2. conv.key # None /\ work[w].key = conv.key /\ work[w].facts = conv.draft
  BY <1>1 DEF ConvInv, HandOf
<1>3. conv.key \in Messages /\ conv.draft \in Draft
  BY <1>1, <1>2 DEF State
<1>4. quotes' = IF quotes[conv.key] = None
                  THEN [quotes EXCEPT ![conv.key] = conv.draft] ELSE quotes
  BY <1>2 DEF Create, CreatedUnder
<1>5. Continue(w, next)
  <2>1. [work[w] EXCEPT !.step = "link", !.key = work[w].key] = next
    BY <1>1 DEF Delivery
  <2> QED BY <2>1 DEF Create, CreatedUnder
<1>6. /\ next \in Delivery /\ next.message = work[w].message /\ next.facts = work[w].facts
      /\ next.step = "link"
  BY <1>1, StepPut DEF Steps
<1>7. next \in FitDelivery
  BY <1>1, <1>2, <1>3, <1>6 DEF FitDelivery
<1> HIDE DEF next
<1>8. WorkFits' /\ work' = [work EXCEPT ![w] = next]
  BY <1>1, <1>5, <1>6, <1>7, ContinueFits
<1> QED BY <1>1, <1>3, <1>4, <1>8 DEF next

LEMMA CreateKeeps ==
  ASSUME ConvInv, NEW w \in Workers, Create(w)
  PROVE  ConvInv'
<1>1. /\ UNCHANGED <<control, conv, outbox, failures, reviews>>
      /\ conv.key \in Messages /\ conv.draft \in Draft
      /\ WorkFits' /\ work' = [work EXCEPT ![w] = [work[w] EXCEPT !.step = "link"]]
      /\ quotes' = IF quotes[conv.key] = None
                     THEN [quotes EXCEPT ![conv.key] = conv.draft] ELSE quotes
      /\ work[w] \in FitDelivery /\ work[w] # Idle /\ work[w].step = "create"
  BY CreateDoes
<1>2. quotes' \in [Messages -> Draft \cup {None}] /\ QuotesTruth'
  BY <1>1 DEF ConvInv, TypeInv, ConvTyped, QuotesTruth
<1>3. TypeInv'
  BY <1>1, <1>2 DEF ConvInv, TypeInv, ConvTyped
<1>4. StateTruth' /\ OutboxTruth' /\ ShownStays
  BY <1>1, OutboxStays DEF ConvInv, StateTruth, Shows, Summaries
<1>5. HandOf(w)'
  <2> DEFINE next == [work[w] EXCEPT !.step = "link"]
  <2>1. /\ next.step = "link" /\ next.version = work[w].version /\ next.facts = work[w].facts
        /\ next.key = work[w].key
    BY <1>1, StepPut DEF FitDelivery, Steps
  <2>2. work'[w] = next
    BY <1>1 DEF ConvInv, TypeInv, WorkFits
  <2> HIDE DEF next
  <2>3. /\ work[w].version <= conv.version /\ Faithful(work[w].version, work[w].facts)
        /\ conv.key # None /\ work[w].key = conv.key /\ work[w].facts = conv.draft
    BY <1>1 DEF ConvInv, HandOf
  <2> QED BY <1>1, <2>1, <2>2, <2>3 DEF HandOf, Faithful
<1>6. \A v \in Workers \ {w} : work'[v] = work[v]
  BY <1>1 DEF ConvInv, TypeInv, WorkFits
<1>7. \A v \in Workers : HandOf(v)'
  BY <1>1, <1>4, <1>5, <1>6, HandStays DEF ConvInv
<1> QED BY <1>2, <1>3, <1>4, <1>7 DEF ConvInv

LEMMA FailKeeps ==
  ASSUME ConvInv, NEW w \in Workers, Fail(w)
  PROVE  ConvInv'
<1>1. /\ UNCHANGED <<control, conv, quotes, outbox, reviews>> /\ Refuse(w)
      /\ failures < MaxFailures /\ failures' = failures + 1
  BY DEF Fail
<1>2. WorkFits' /\ work' = [work EXCEPT ![w] = Idle]
  BY <1>1, RefuseFits DEF ConvInv, TypeInv
<1>3. failures' \in 0..MaxFailures
  BY <1>1, ConversationBounds DEF ConvInv, TypeInv, ConvTyped
<1>4. TypeInv'
  BY <1>1, <1>2, <1>3 DEF ConvInv, TypeInv, ConvTyped
<1> QED BY <1>1, <1>2, <1>4, Ended

LEMMA StatusAcceptedKeeps ==
  ASSUME ConvInv, StatusAccepted
  PROVE  ConvInv'
<1> PICK sent \in outbox :
      /\ outbox' = (outbox \ {sent}) \cup {[sent EXCEPT !.status = "ACCEPTED"]}
      /\ UNCHANGED <<control, conv, quotes, inbox, work, failures, reviews>>
  BY DEF StatusAccepted
<1> DEFINE put == [sent EXCEPT !.status = "ACCEPTED"]
<1>1. sent \in Outbound /\ outbox \subseteq Outbound /\ conv \in State
  BY DEF ConvInv, TypeInv, ConvTyped
<1>2. /\ put \in Outbound /\ put.kind = sent.kind /\ put.version = sent.version
      /\ put.facts = sent.facts
  BY <1>1 DEF Outbound
<1> HIDE DEF put
<1>3. outbox' = (outbox \ {sent}) \cup {put}
  BY DEF put
<1>4. TypeInv'
  <2>1. outbox' \subseteq Outbound
    BY <1>1, <1>2, <1>3
  <2> QED BY <2>1 DEF ConvInv, TypeInv, ConvTyped, WorkFits
<1>5. OutboxTruth'
  <2>1. ASSUME NEW other \in outbox' PROVE Faithful(other.version, other.facts)'
    <3>1. Faithful(other.version, other.facts) /\ other.version \in Nat
      BY <1>1, <1>2, <1>3 DEF ConvInv, OutboxTruth, Outbound
    <3> QED BY <1>1, <3>1, FaithfulStays
  <2> QED BY <2>1 DEF OutboxTruth
<1>6. ShownStays
  BY <1>2, <1>3 DEF ShownStays, Summaries
<1>7. StateTruth' /\ QuotesTruth'
  BY <1>6, ShowsStays DEF ConvInv, StateTruth, QuotesTruth
<1>8. \A w \in Workers : HandOf(w)'
  BY <1>6, HandStays DEF ConvInv
<1> QED BY <1>4, <1>5, <1>7, <1>8 DEF ConvInv

LEMMA TransferKeeps ==
  ASSUME ConvInv, Transfer
  PROVE  ConvInv'
<1>1. /\ UNCHANGED <<conv, quotes, inbox, outbox, work, failures, reviews>>
      /\ control' \in Control
  BY ConversationBounds DEF Transfer, Control, ConvInv, TypeInv, ConvTyped
<1>2. TypeInv'
  BY <1>1 DEF ConvInv, TypeInv, ConvTyped, WorkFits
<1> QED BY <1>1, <1>2, CarriedOn

LEMMA SetHumanReviewDoes ==
  ASSUME ConvInv, NEW required \in BOOLEAN, SetHumanReview(required)
  PROVE  /\ UNCHANGED <<control, quotes, inbox, outbox, work, failures>>
         /\ reviews' = reviews + 1 /\ conv' \in State /\ conv.key = None
         /\ conv'.version = conv.version + 1 /\ conv'.draft = conv.draft /\ conv'.key = None
         /\ required => conv'.summary = None /\ conv'.confirmation = None
         /\ ~required => conv'.summary = conv.summary /\ conv'.confirmation = conv.confirmation
<1>1. /\ UNCHANGED <<control, quotes, inbox, outbox, work, failures>>
      /\ reviews' = reviews + 1 /\ conv.key = None /\ conv' = Reviewed(conv, required)
  BY DEF SetHumanReview, Reviewable
<1>2. conv \in State
  BY DEF ConvInv, TypeInv, ConvTyped
<1> QED BY <1>1, <1>2, ReviewedTyped

LEMMA SetHumanReviewKeeps ==
  ASSUME ConvInv, NEW required \in BOOLEAN, SetHumanReview(required)
  PROVE  ConvInv'
<1>1. /\ UNCHANGED <<control, quotes, inbox, outbox, work, failures>>
      /\ reviews' = reviews + 1 /\ conv' \in State /\ conv.key = None
      /\ conv'.version = conv.version + 1 /\ conv'.draft = conv.draft /\ conv'.key = None
      /\ required => conv'.summary = None /\ conv'.confirmation = None
      /\ ~required => conv'.summary = conv.summary /\ conv'.confirmation = conv.confirmation
  BY SetHumanReviewDoes
<1>2. Advances
  BY <1>1 DEF Advances
<1>3. StateTruth'
  <2>1. CASE required
    BY <1>1, <2>1 DEF StateTruth
  <2>2. CASE ~required
    BY <1>1, <2>2 DEF ConvInv, StateTruth, Shows, Summaries
  <2> QED BY <2>1, <2>2
<1>4. reviews' \in 0..MaxReviews
  BY <1>1, ConversationBounds DEF SetHumanReview, ConvInv, TypeInv, ConvTyped
<1>5. TypeInv'
  BY <1>1, <1>4 DEF ConvInv, TypeInv, ConvTyped, WorkFits
<1> QED BY <1>1, <1>2, <1>3, <1>5, StateMoved

\* A message the form owns is answered, whatever it says.
LEMMA OwnKeeps ==
  ASSUME ConvInv, NEW w \in Workers, Own(w)
  PROVE  ConvInv'
<1>1. /\ work[w] # Idle /\ Answer(w)
      /\ UNCHANGED <<control, conv, quotes, outbox, failures, reviews>>
  BY DEF Own
<1>2. WorkFits' /\ work' = [work EXCEPT ![w] = Idle]
  BY <1>1, AnswerFits DEF ConvInv, TypeInv
<1>3. TypeInv'
  BY <1>1, <1>2 DEF ConvInv, TypeInv, ConvTyped
<1> QED BY <1>1, <1>2, <1>3, Ended

\* A step of a form leaves the collector alone, but for the failures counted.
LEMMA FormKeeps ==
  ASSUME ConvInv, UNCHANGED <<control, conv, quotes, inbox, outbox, work, reviews>>,
         failures' = failures \/ (failures < MaxFailures /\ failures' = failures + 1)
  PROVE  ConvInv'
<1>1. failures' \in 0..MaxFailures
  BY ConversationBounds DEF ConvInv, TypeInv, ConvTyped
<1>2. TypeInv'
  BY <1>1 DEF ConvInv, TypeInv, ConvTyped, WorkFits
<1> QED BY <1>2, CarriedOn

LEMMA DeliveryStepKeeps ==
  ASSUME ConvInv, NEW w \in Workers, DeliveryStep(w)
  PROVE  ConvInv'
BY DecideKeeps, SendKeeps, UpdateKeeps, PresentKeeps, ConfirmKeeps, BeginKeeps, CreateKeeps,
   LinkKeeps DEF DeliveryStep

LEMMA NextKeeps == ConvInv /\ [Next]_systemVars => ConvInv'
<1> SUFFICES ASSUME ConvInv, [Next]_systemVars PROVE ConvInv'
  OBVIOUS
<1>1. ASSUME NEW w \in Workers, Own(w) PROVE ConvInv'
  BY <1>1, OwnKeeps
<1>2. ASSUME NEW w \in Workers, NEW m \in Messages, Deliver(w, m) PROVE ConvInv'
  BY <1>2, DeliverKeeps
<1>3. ASSUME NEW w \in Workers, CollectorStep(w) \/ Fail(w) PROVE ConvInv'
  BY <1>3, DeliveryStepKeeps, FailKeeps DEF CollectorStep
<1>4. CASE StatusAccepted \/ Transfer
  BY <1>4, StatusAcceptedKeeps, TransferKeeps
<1>5. ASSUME NEW required \in BOOLEAN, SetHumanReview(required) PROVE ConvInv'
  BY <1>5, SetHumanReviewKeeps
<1>6. CASE UNCHANGED convVars
  BY <1>6, FormKeeps DEF convVars
<1>7. ASSUME NEW d \in Filings, FailCompletion(d) PROVE ConvInv'
  BY <1>7, FormKeeps DEF FailCompletion
<1>8. CASE UNCHANGED systemVars
  BY <1>6, <1>8 DEF systemVars
<1> QED BY <1>1, <1>2, <1>3, <1>4, <1>5, <1>6, <1>7, <1>8 DEF Next

LEMMA ShowingShows ==
  ASSUME ConversationInit
  PROVE  StateTruth /\ OutboxTruth
<1> PICK draft \in Draft :
      \/ conv = Drafting(draft) /\ outbox = {}
      \/ Open(draft) = {} /\ conv = Showing(draft) /\ outbox = {SummaryOf(draft)}
  BY DEF ConversationInit
<1>1. /\ Drafting(draft).summary = None /\ Drafting(draft).confirmation = None
      /\ Drafting(draft).key = None
  BY DEF Drafting
<1>2. /\ Showing(draft).summary = NQuestions /\ Showing(draft).confirmation = None
      /\ Showing(draft).key = None /\ Showing(draft).draft = draft
      /\ Showing(draft).version = NQuestions + 1
  BY DEF Showing, Drafting
<1>3. /\ SummaryOf(draft).kind = "review" /\ SummaryOf(draft).version = NQuestions
      /\ SummaryOf(draft).facts = draft
  BY DEF SummaryOf
<1>4. CASE conv = Drafting(draft) /\ outbox = {}
  BY <1>1, <1>4 DEF StateTruth, OutboxTruth
<1>5. CASE conv = Showing(draft) /\ outbox = {SummaryOf(draft)}
  BY <1>2, <1>3, <1>5, QuestionsExist DEF StateTruth, OutboxTruth, Faithful, Shows, Summaries
<1> QED BY <1>4, <1>5

LEMMA InitKeeps == Init => ConvInv
<1> SUFFICES ASSUME Init PROVE ConvInv
  OBVIOUS
<1>1. TypeInv /\ StateTruth /\ OutboxTruth
  BY InitTypeInv, ShowingShows DEF Init
<1>2. QuotesTruth /\ \A w \in Workers : HandOf(w)
  BY DEF Init, ConversationInit, QuotesTruth, HandOf
<1> QED BY <1>1, <1>2 DEF ConvInv

LEMMA ConvInvariant == Spec => []ConvInv
BY InitKeeps, NextKeeps, PTL DEF Spec

\* The state of the conversation, its messages and the deliveries under way stay
\* in their types, whatever the number of questions, messages and deliveries.
THEOREM ConversationTyped == Spec => []ConversationTypeOK
<1>1. ConvInv => ConversationTypeOK
  BY TypeInvIsTypeOK DEF ConvInv
<1> QED BY <1>1, ConvInvariant, PTL

-----------------------------------------------------------------------------
(* A takeover stops the deliveries that are under way *)

LEMMA OnlyAuthorizedMoves ==
  ASSUME ConvInv, NEW w \in Workers, DeliveryStep(w), conv' # conv
  PROVE  /\ control.state = "AUTOMATION" /\ work[w].authority = control.version
         /\ work'[w] # work[w]
<1>1. work \in [Workers -> FitDelivery \cup {Idle}]
  BY DEF ConvInv, TypeInv, WorkFits
<1>2. ASSUME NEW allowed, NEW next, NEW delivery, Moves(w, allowed, next, delivery),
             delivery # work[w]
      PROVE  /\ control.state = "AUTOMATION" /\ work[w].authority = control.version
             /\ work'[w] # work[w]
  BY <1>1, <1>2 DEF Moves, Authorized
<1>3. ~Decide(w) /\ ~Send(w) /\ ~Create(w)
  BY SendDoes DEF Decide, Create
<1>4. ~Gives(w)
  BY DEF Gives
<1>5. CASE Update(w)
  <2>1. work[w].step = "update" /\ work[w] \in FitDelivery /\ work[w].facts \in Draft
    BY <1>5, Working, UpdateDoes DEF Update, Steps, ConvInv, TypeInv
  <2>2. Asking(w) # work[w] /\ Idle # work[w]
    <3>1. Asking(w).step = "send" /\ Idle.step = "idle"
      BY <2>1, AskingTyped DEF Idle
    <3> QED BY <2>1, <3>1
  <2> QED BY <1>2, <1>4, <1>5, <2>2, UpdateDoes
<1>6. CASE Present(w)
  <2>1. Idle # work[w]
    BY <1>6, PresentDoes DEF Idle
  <2> QED BY <1>2, <1>4, <1>6, <2>1, PresentDoes
<1>7. CASE Confirm(w)
  <2>1. Submitting(w) # work[w]
    <3>1. Submitting(w).step = "begin" /\ work[w].step = "confirm"
      BY <1>7, ConfirmDoes, SubmittingTyped
    <3> QED BY <3>1
  <2> QED BY <1>2, <1>4, <1>7, <2>1, ConfirmDoes
<1>8. CASE Begin(w)
  <2>1. Creating(w) # work[w]
    <3>1. Creating(w).step = "create" /\ work[w].step = "begin"
      BY <1>8, BeginDoes, CreatingTyped
    <3> QED BY <3>1
  <2> QED BY <1>2, <1>4, <1>8, <2>1, BeginDoes
<1>9. CASE Link(w)
  <2>1. Idle # work[w]
    BY <1>9, LinkDoes
  <2> QED BY <1>2, <1>4, <1>9, <2>1, LinkDoes
<1> QED BY <1>3, <1>5, <1>6, <1>7, <1>8, <1>9 DEF DeliveryStep

\* Only a delivery taken up under the authority that still stands changes the
\* request, but for the human-review mark: what the version of the control
\* state is compared for.
THEOREM TakeoverHolds == Spec => TakeoverStopsDeliveries
<1> DEFINE A == conv' # conv /\ reviews' = reviews =>
                  /\ control.state = "AUTOMATION"
                  /\ \E w \in Workers :
                       work'[w] # work[w] /\ work[w].authority = control.version
<1>1. ConvInv /\ [Next]_systemVars => [A]_systemVars
  <2> SUFFICES ASSUME ConvInv, Next, conv' # conv, reviews' = reviews
               PROVE  /\ control.state = "AUTOMATION"
                      /\ \E w \in Workers :
                           work'[w] # work[w] /\ work[w].authority = control.version
    OBVIOUS
  <2>1. \A w \in Workers : ~Own(w) /\ ~Fail(w) /\ \A m \in Messages : ~Deliver(w, m)
    BY DEF Own, Fail, Deliver
  <2>2. ~StatusAccepted /\ ~Transfer /\ ~UNCHANGED convVars
    BY DEF StatusAccepted, Transfer, convVars
  <2>3. ASSUME NEW required \in BOOLEAN PROVE ~SetHumanReview(required)
    <3>1. reviews \in Nat
      BY ConversationBounds DEF ConvInv, TypeInv, ConvTyped
    <3> QED BY <3>1 DEF SetHumanReview
  <2>4. \A d \in Filings : ~FailCompletion(d)
    BY DEF FailCompletion
  <2>5. PICK w \in Workers : CollectorStep(w)
    BY <2>1, <2>2, <2>3, <2>4 DEF Next
  <2> QED BY <2>5, OnlyAuthorizedMoves DEF CollectorStep
<1> QED BY <1>1, ConvInvariant, PTL DEF Spec, TakeoverStopsDeliveries

-----------------------------------------------------------------------------
(* The conversation implements QuoteRequest *)

\* What was shown is the draft, and so is what was submitted.
LEMMA ShownIsDraft ==
  ConvInv => Shown = (IF conv.summary = None THEN None ELSE conv.draft)
<1> SUFFICES ASSUME ConvInv, conv.summary # None PROVE Shown = conv.draft
  BY DEF Shown
<1> DEFINE chosen == CHOOSE sent \in Summaries : sent.version = conv.summary
<1>1. \E sent \in Summaries : sent.version = conv.summary
  BY DEF ConvInv, StateTruth, Shows
<1>2. chosen \in Summaries /\ chosen.version = conv.summary
  BY <1>1
<1>3. Shown = chosen.facts
  BY DEF Shown
<1> HIDE DEF chosen
<1>4. Faithful(chosen.version, chosen.facts)
  BY <1>2 DEF ConvInv, OutboxTruth, Summaries
<1> QED BY <1>2, <1>3, <1>4 DEF Faithful

LEMMA SubmittedIsDraft ==
  ConvInv => Submitted = (IF conv.key # None /\ quotes[conv.key] # None THEN conv.draft ELSE None)
<1> SUFFICES ASSUME ConvInv
             PROVE  Submitted = (IF conv.key # None /\ quotes[conv.key] # None
                                   THEN conv.draft ELSE None)
  OBVIOUS
<1>1. conv.key \in Messages \cup {None}
  BY DEF ConvInv, TypeInv, ConvTyped, State
<1>2. Made = IF conv.key # None /\ quotes[conv.key] # None THEN {conv.key} ELSE {}
  BY <1>1, NoneIsNoNumber DEF Made, ConvInv, QuotesTruth
<1>3. CASE conv.key # None /\ quotes[conv.key] # None
  <2>1. Made = {conv.key} /\ Cardinality({conv.key}) = 1
    BY <1>2, <1>3, FS_Singleton
  <2>2. (CHOOSE m \in Made : TRUE) = conv.key
    BY <2>1
  <2>3. quotes[conv.key] = conv.draft
    BY <1>1, <1>3 DEF ConvInv, QuotesTruth
  <2> QED BY <1>3, <2>1, <2>2, <2>3 DEF Submitted
<1>4. CASE ~(conv.key # None /\ quotes[conv.key] # None)
  BY <1>2, <1>4 DEF Submitted
<1> QED BY <1>3, <1>4

\* The five variables of QuoteRequest, before and after a step.
LEMMA Mapped ==
  ASSUME ConvInv, ConvInv'
  PROVE  /\ Shown = (IF conv.summary = None THEN None ELSE conv.draft)
         /\ Shown' = (IF conv'.summary = None THEN None ELSE conv'.draft)
         /\ Submitted = (IF conv.key # None /\ quotes[conv.key] # None THEN conv.draft ELSE None)
         /\ Submitted' = (IF conv'.key # None /\ quotes'[conv'.key] # None THEN conv'.draft ELSE None)
<1>1. (ConvInv => Shown = (IF conv.summary = None THEN None ELSE conv.draft))'
  BY ShownIsDraft, PTL
<1>2. (ConvInv => Submitted = (IF conv.key # None /\ quotes[conv.key] # None
                                 THEN conv.draft ELSE None))'
  BY SubmittedIsDraft, PTL
<1> QED BY <1>1, <1>2, ShownIsDraft, SubmittedIsDraft

LEMMA RequestInit == Init => Request!Init
<1> SUFFICES ASSUME Init PROVE Request!Init
  OBVIOUS
<1>1. ConvInv
  BY InitKeeps
<1>2. Shown = (IF conv.summary = None THEN None ELSE conv.draft)
  BY <1>1, ShownIsDraft
<1>3. conv.draft \in Draft
  BY <1>1 DEF ConvInv, TypeInv, ConvTyped, State
<1>4. conv.confirmation = None /\ conv.key = None
  <2>1. PICK draft \in Draft : conv \in {Drafting(draft), Showing(draft)}
    BY DEF Init, ConversationInit
  <2>2. /\ Drafting(draft).confirmation = None /\ Drafting(draft).key = None
        /\ Showing(draft).confirmation = None /\ Showing(draft).key = None
    BY DEF Drafting, Showing
  <2> QED BY <2>1, <2>2
<1>5. Submitted = None
  BY <1>1, <1>4, SubmittedIsDraft
<1> QED BY <1>2, <1>3, <1>4, <1>5 DEF Request!Init

RequestStep == [Request!Next]_(Request!requestVars)

\* A step that leaves the state and the Quotes alone is none of the request.
LEMMA RequestStays ==
  ASSUME ConvInv, ConvInv', UNCHANGED quotes,
         UNCHANGED <<conv.draft, conv.summary, conv.confirmation, conv.key>>
  PROVE  RequestStep
<1>1. UNCHANGED <<Shown, Submitted>>
  BY Mapped
<1> QED BY <1>1 DEF RequestStep, Request!requestVars

LEMMA UpdateIsRedraft ==
  ASSUME ConvInv, ConvInv', NEW w \in Workers, Update(w)
  PROVE  RequestStep
<1>1. /\ UNCHANGED quotes /\ work[w].facts \in Draft
      /\ \/ Gives(w)
         \/ \E delivery \in {Asking(w), Idle} :
              Moves(w, Updatable(conv), Updated(conv, work[w].facts), delivery)
  BY UpdateDoes
<1>2. CASE Gives(w)
  BY <1>1, <1>2, RequestStays DEF Gives
<1>3. CASE \E delivery \in {Asking(w), Idle} :
             Moves(w, Updatable(conv), Updated(conv, work[w].facts), delivery)
  <2>1. conv \in State /\ conv.key = None /\ conv' = Updated(conv, work[w].facts)
    BY <1>3 DEF Moves, Updatable, ConvInv, TypeInv, ConvTyped
  <2>2. /\ conv'.draft \in Draft /\ conv'.summary = None /\ conv'.confirmation = None
        /\ conv'.key = None
    BY <1>1, <2>1, UpdatedTyped
  <2>3. Request!Redraft
    BY <1>1, <2>1, <2>2, Mapped DEF Request!Redraft
  <2> QED BY <2>3 DEF RequestStep, Request!Next
<1> QED BY <1>1, <1>2, <1>3

LEMMA PresentIsShow ==
  ASSUME ConvInv, ConvInv', NEW w \in Workers, Present(w)
  PROVE  RequestStep
<1>1. /\ UNCHANGED quotes
      /\ Gives(w) \/ Moves(w, Presentable(conv), Presented(conv, work[w].version), Idle)
  BY PresentDoes
<1>2. CASE Gives(w)
  BY <1>1, <1>2, RequestStays DEF Gives
<1>3. CASE Moves(w, Presentable(conv), Presented(conv, work[w].version), Idle)
  <2>1. /\ conv \in State /\ conv.version \in Nat /\ conv.key = None
        /\ conv' = Presented(conv, conv.version)
    BY <1>3, PhaseSays DEF Moves, Presentable, ConvInv, TypeInv, ConvTyped, State
  <2>2. /\ conv'.draft = conv.draft /\ conv'.summary # None /\ conv'.confirmation = None
        /\ conv'.key = None
    BY <2>1, PresentedTyped, NoneIsNoNumber
  <2>3. Request!Show
    BY <1>1, <2>1, <2>2, Mapped DEF Request!Show
  <2> QED BY <2>3 DEF RequestStep, Request!Next
<1> QED BY <1>1, <1>2, <1>3

LEMMA ConfirmIsConfirm ==
  ASSUME ConvInv, ConvInv', NEW w \in Workers, Confirm(w)
  PROVE  RequestStep
<1>1. /\ UNCHANGED quotes /\ MessageOf(w) \in Messages
      /\ Gives(w) \/ Moves(w, Confirmable(conv), Confirmed(conv, MessageOf(w)), Submitting(w))
  BY ConfirmDoes
<1>2. CASE Gives(w)
  BY <1>1, <1>2, RequestStays DEF Gives
<1>3. CASE Moves(w, Confirmable(conv), Confirmed(conv, MessageOf(w)), Submitting(w))
  <2>1. /\ conv \in State /\ conv.key = None /\ conv.summary # None /\ conv.draft \in Draft
        /\ conv' = Confirmed(conv, MessageOf(w))
    BY <1>3, PhaseSays DEF Moves, Confirmable, ConvInv, TypeInv, ConvTyped, State
  <2>2. /\ conv'.draft = conv.draft /\ conv'.summary = conv.summary
        /\ conv'.confirmation # None /\ conv'.key = None
    BY <1>1, <2>1, ConfirmedTyped, NoneIsNoNumber
  <2>3. Shown # None /\ Shown' = Shown /\ Submitted' = Submitted
    BY <1>1, <2>1, <2>2, Mapped, NoneIsNoNumber
  <2>4. Request!Confirm
    BY <2>1, <2>2, <2>3 DEF Request!Confirm
  <2> QED BY <2>4 DEF RequestStep, Request!Next
<1> QED BY <1>1, <1>2, <1>3

LEMMA BeginIsSendOn ==
  ASSUME ConvInv, ConvInv', NEW w \in Workers, Begin(w)
  PROVE  RequestStep
<1>1. /\ UNCHANGED quotes /\ work[w].step = "begin" /\ work[w] # Idle
      /\ work[w].key \in Messages \cup {None}
      /\ Gives(w) \/ Moves(w, Beginnable(conv), Begun(conv, work[w].key), Creating(w))
  BY BeginDoes
<1>2. CASE Gives(w)
  BY <1>1, <1>2, RequestStays DEF Gives
<1>3. CASE Moves(w, Beginnable(conv), Begun(conv, work[w].key), Creating(w))
  <2>1. /\ conv \in State /\ conv.version = work[w].version /\ conv.key = None
        /\ conv.confirmation # None /\ conv' = Begun(conv, work[w].key)
    BY <1>3, PhaseSays DEF Moves, Beginnable, ConvInv, TypeInv, ConvTyped
  <2>2. work[w].key = conv.confirmation /\ conv.confirmation \in Messages
    BY <1>1, <2>1 DEF ConvInv, HandOf, State
  <2>3. /\ conv'.draft = conv.draft /\ conv'.summary = conv.summary
        /\ conv'.confirmation = conv.confirmation /\ conv'.key = conv.confirmation
    BY <1>1, <2>1, <2>2, BegunTyped
  <2>4. quotes[conv.confirmation] = None
    BY <2>1, <2>2 DEF ConvInv, QuotesTruth
  <2>5. Shown' = Shown /\ Submitted' = Submitted
    BY <1>1, <2>1, <2>3, <2>4, Mapped
  <2>6. Request!SendOn
    BY <2>1, <2>3, <2>5 DEF Request!SendOn
  <2> QED BY <2>6 DEF RequestStep, Request!Next
<1> QED BY <1>1, <1>2, <1>3

LEMMA LinkStays ==
  ASSUME ConvInv, ConvInv', NEW w \in Workers, Link(w)
  PROVE  RequestStep
<1>1. /\ UNCHANGED quotes /\ work[w].key \in Messages \cup {None}
      /\ Gives(w) \/ Moves(w, Linkable(conv), Linked(conv, work[w].key), Idle)
  BY LinkDoes
<1>2. CASE Gives(w)
  BY <1>1, <1>2, RequestStays DEF Gives
<1>3. CASE Moves(w, Linkable(conv), Linked(conv, work[w].key), Idle)
  <2>1. conv \in State /\ conv' = Linked(conv, work[w].key)
    BY <1>3 DEF Moves, ConvInv, TypeInv, ConvTyped
  <2>2. UNCHANGED <<conv.draft, conv.summary, conv.confirmation, conv.key>>
    BY <1>1, <2>1, LinkedTyped
  <2> QED BY <1>1, <2>2, RequestStays
<1> QED BY <1>1, <1>2, <1>3

LEMMA CreateIsMakeQuote ==
  ASSUME ConvInv, ConvInv', NEW w \in Workers, Create(w)
  PROVE  RequestStep
<1>1. /\ UNCHANGED conv /\ conv.key \in Messages /\ conv.draft \in Draft
      /\ quotes' = IF quotes[conv.key] = None
                     THEN [quotes EXCEPT ![conv.key] = conv.draft] ELSE quotes
  BY CreateDoes
<1>2. CASE quotes[conv.key] # None
  BY <1>1, <1>2, RequestStays
<1>3. CASE quotes[conv.key] = None
  <2>1. quotes'[conv.key] = conv.draft /\ conv.draft # None /\ conv.key # None
    BY <1>1, <1>3, NoneIsNoNumber DEF ConvInv, TypeInv, ConvTyped
  <2>2. conv.summary # None
    BY <2>1 DEF ConvInv, StateTruth
  <2>3. Submitted = None /\ Submitted' = Shown /\ Shown' = Shown
    BY <1>1, <1>3, <2>1, <2>2, Mapped
  <2>4. Request!MakeQuote
    BY <1>1, <2>1, <2>3 DEF Request!MakeQuote
  <2> QED BY <2>4 DEF RequestStep, Request!Next
<1> QED BY <1>2, <1>3

LEMMA SetHumanReviewIsRedraft ==
  ASSUME ConvInv, ConvInv', NEW required \in BOOLEAN, SetHumanReview(required)
  PROVE  RequestStep
<1>1. /\ UNCHANGED quotes /\ conv.key = None
      /\ conv'.draft = conv.draft /\ conv'.key = None
      /\ required => conv'.summary = None /\ conv'.confirmation = None
      /\ ~required => conv'.summary = conv.summary /\ conv'.confirmation = conv.confirmation
  BY SetHumanReviewDoes
<1>2. CASE ~required
  BY <1>1, <1>2, RequestStays
<1>3. CASE required
  <2>1. conv'.draft \in Draft
    BY DEF ConvInv, TypeInv, ConvTyped, State
  <2>2. Request!Redraft
    BY <1>1, <1>3, <2>1, Mapped DEF Request!Redraft
  <2> QED BY <2>2 DEF RequestStep, Request!Next
<1> QED BY <1>2, <1>3

LEMMA RequestSteps == ConvInv /\ ConvInv' /\ [Next]_systemVars => RequestStep
<1> SUFFICES ASSUME ConvInv, ConvInv', [Next]_systemVars PROVE RequestStep
  OBVIOUS
<1>1. CASE UNCHANGED <<conv, quotes>>
  BY <1>1, RequestStays
<1>2. ASSUME NEW w \in Workers, Own(w) \/ Fail(w) PROVE UNCHANGED <<conv, quotes>>
  BY <1>2 DEF Own, Fail
<1>3. ASSUME NEW w \in Workers, NEW m \in Messages, Deliver(w, m) PROVE UNCHANGED <<conv, quotes>>
  BY <1>3 DEF Deliver
<1>4. ASSUME NEW w \in Workers, CollectorStep(w) PROVE RequestStep
  <2>1. CASE Decide(w) \/ Send(w)
    BY <1>1, <2>1, SendDoes DEF Decide
  <2> QED BY <1>4, <2>1, UpdateIsRedraft, PresentIsShow, ConfirmIsConfirm, BeginIsSendOn,
             LinkStays, CreateIsMakeQuote DEF CollectorStep, DeliveryStep
<1>5. CASE StatusAccepted \/ Transfer \/ UNCHANGED convVars
  BY <1>1, <1>5 DEF StatusAccepted, Transfer, convVars
<1>6. ASSUME NEW required \in BOOLEAN, SetHumanReview(required) PROVE RequestStep
  BY <1>6, SetHumanReviewIsRedraft
<1>7. ASSUME NEW d \in Filings, FailCompletion(d) PROVE UNCHANGED <<conv, quotes>>
  BY <1>7 DEF FailCompletion
<1>8. CASE UNCHANGED systemVars
  BY <1>1, <1>8 DEF systemVars, convVars
<1> QED BY <1>1, <1>2, <1>3, <1>4, <1>5, <1>6, <1>7, <1>8 DEF Next

\* The conversation keeps the promise of QuoteRequest: one Quote, of the very
\* facts the summary showed and the customer confirmed, however the deliveries
\* of the webhooks overlap, are repeated or stop half way.
THEOREM RequestImplemented == Spec => ImplementsQuoteRequest
<1>1. ConvInv /\ ConvInv' /\ [Next]_systemVars => [Request!Next]_(Request!requestVars)
  BY RequestSteps DEF RequestStep
<1> QED BY <1>1, RequestInit, ConvInvariant, PTL DEF Spec, ImplementsQuoteRequest, Request!Spec

-----------------------------------------------------------------------------
(* The form *)

\* A form that was captured is completed; what was made of it is a Quote of what
\* it says, and it is held only when no Quote can be made of it.
FitSession ==
  {row \in Session :
     /\ row.evidence # None => row.status = "COMPLETED"
     /\ row.made # None => row.made = row.evidence /\ row.made \notin Unclear
     /\ row.held => row.evidence \in Unclear
     /\ row.quote => row.made # None}

Filing ==
  [step : {"capture", "process"}, session : Sessions, facts : FormFacts, authority : Nat]

Offering == [step : {"bind", "launch", "mark"}, session : Sessions]

FormInv ==
  /\ sessions \in [Sessions -> FitSession]
  /\ offer \in [Offers -> {Idle} \cup Offering]
  /\ filing \in [Filings -> {Idle} \cup Filing]
  /\ filed \in [Sessions \X FormFacts -> {"NO", "UNANSWERED", "ANSWERED"}]
  /\ \A d \in Filings : filing[d] # Idle /\ filing[d].step = "process" =>
                          sessions[filing[d].session].evidence = filing[d].facts

\* What a step leaves of the rows.
Kept(was, is) ==
  /\ was.evidence # None => is.evidence = was.evidence
  /\ was.made # None => is.made = was.made

RowsKept == \A s \in Sessions : Kept(sessions[s], sessions'[s])

LEMMA IdleIsNoFiling == Idle \notin Filing /\ Idle \notin Offering
BY DEF Idle, Filing, Offering

\* A new status of a form that was not captured.
LEMMA StatusPut ==
  ASSUME NEW row \in FitSession, row.status # "COMPLETED",
         NEW status \in Active \cup {"EXPIRED", "SUPERSEDED", "FALLBACK"}
  PROVE  /\ [row EXCEPT !.status = status] \in FitSession
         /\ Kept(row, [row EXCEPT !.status = status])
         /\ [row EXCEPT !.status = status].evidence = row.evidence
<1> DEFINE put == [row EXCEPT !.status = status]
<1>1. row \in Session /\ row.evidence = None
  BY DEF FitSession
<1>2. /\ put \in Session /\ put.evidence = row.evidence /\ put.made = row.made
      /\ put.held = row.held /\ put.quote = row.quote
  BY <1>1 DEF Session
<1> HIDE DEF put
<1>3. put \in FitSession /\ Kept(row, put) /\ put.evidence = row.evidence
  BY <1>1, <1>2 DEF FitSession, Kept
<1> QED BY <1>3 DEF put

\* A mark that says nothing of the capture.
LEMMA MarkPut ==
  ASSUME NEW row \in FitSession, NEW launched \in {"NO", "MAYBE", "FAILED"}
  PROVE  /\ [row EXCEPT !.bound = TRUE] \in FitSession
         /\ Kept(row, [row EXCEPT !.bound = TRUE])
         /\ [row EXCEPT !.bound = TRUE].evidence = row.evidence
         /\ [row EXCEPT !.lapsed = TRUE] \in FitSession
         /\ Kept(row, [row EXCEPT !.lapsed = TRUE])
         /\ [row EXCEPT !.lapsed = TRUE].evidence = row.evidence
         /\ [row EXCEPT !.launched = launched] \in FitSession
         /\ Kept(row, [row EXCEPT !.launched = launched])
         /\ [row EXCEPT !.launched = launched].evidence = row.evidence
<1> DEFINE b == [row EXCEPT !.bound = TRUE]
           l == [row EXCEPT !.lapsed = TRUE]
           p == [row EXCEPT !.launched = launched]
           Same(put) == /\ put \in Session /\ put.status = row.status
                        /\ put.evidence = row.evidence /\ put.made = row.made
                        /\ put.held = row.held /\ put.quote = row.quote
<1>1. row \in Session
  BY DEF FitSession
<1>2. Same(b)
  BY <1>1 DEF Session
<1>3. Same(l)
  BY <1>1 DEF Session
<1>4. Same(p)
  BY <1>1 DEF Session
<1> HIDE DEF b, l, p
<1>5. /\ b \in FitSession /\ Kept(row, b) /\ b.evidence = row.evidence
      /\ l \in FitSession /\ Kept(row, l) /\ l.evidence = row.evidence
      /\ p \in FitSession /\ Kept(row, p) /\ p.evidence = row.evidence
  BY <1>2, <1>3, <1>4 DEF FitSession, Kept
<1> QED BY <1>5 DEF b, l, p

\* Rows that stay as they are, but for a status or a mark, serve as well.
Serves(rows) ==
  /\ rows \in [Sessions -> FitSession]
  /\ \A s \in Sessions : Kept(sessions[s], rows[s]) /\ rows[s].evidence = sessions[s].evidence

LEMMA ExpiredServes ==
  ASSUME FormInv
  PROVE  Serves(Expired(sessions))
<1>1. ASSUME NEW s \in Sessions
      PROVE  /\ Expired(sessions)[s] \in FitSession /\ Kept(sessions[s], Expired(sessions)[s])
             /\ Expired(sessions)[s].evidence = sessions[s].evidence
  <2>1. sessions[s] \in FitSession
    BY DEF FormInv
  <2>2. CASE sessions[s].status \in Active /\ sessions[s].lapsed
    <3>1. Expired(sessions)[s] = [sessions[s] EXCEPT !.status = "EXPIRED"]
      BY <2>2 DEF Expired
    <3>2. sessions[s].status # "COMPLETED"
      BY <2>2 DEF Active
    <3> QED BY <2>1, <3>1, <3>2, StatusPut
  <2>3. CASE ~(sessions[s].status \in Active /\ sessions[s].lapsed)
    <3>1. Expired(sessions)[s] = sessions[s]
      BY <2>3 DEF Expired
    <3> QED BY <2>1, <3>1 DEF Kept
  <2> QED BY <2>2, <2>3
<1>2. Expired(sessions) = [s \in Sessions |-> Expired(sessions)[s]]
  BY DEF Expired
<1> QED BY <1>1, <1>2 DEF Serves

\* One row put, that keeps what was captured.
LEMMA RowServes ==
  ASSUME FormInv, NEW rows, Serves(rows), NEW s \in Sessions, NEW put \in FitSession,
         Kept(rows[s], put), put.evidence = rows[s].evidence
  PROVE  Serves([rows EXCEPT ![s] = put])
BY DEF Serves, Kept

LEMMA SessionsServe ==
  ASSUME FormInv
  PROVE  Serves(sessions)
BY DEF FormInv, Serves, Kept

\* Deliveries that have captured stay true over rows that serve.
LEMMA FilingsStay ==
  ASSUME FormInv, Serves(sessions'), UNCHANGED <<filing, filed>>,
         offer' \in [Offers -> {Idle} \cup Offering]
  PROVE  FormInv' /\ RowsKept
<1>1. ASSUME NEW d \in Filings, filing[d] # Idle, filing[d].step = "process"
      PROVE  sessions'[filing[d].session].evidence = filing[d].facts
  <2>1. filing[d].session \in Sessions
    BY <1>1 DEF FormInv, Filing
  <2> QED BY <1>1, <2>1 DEF FormInv, Serves
<1> QED BY <1>1 DEF FormInv, Serves, RowsKept

LEMMA SupersededServes ==
  ASSUME FormInv, NEW rows, Serves(rows)
  PROVE  Serves(Superseded(rows))
<1>1. ASSUME NEW s \in Sessions
      PROVE  /\ Superseded(rows)[s] \in FitSession /\ Kept(rows[s], Superseded(rows)[s])
             /\ Superseded(rows)[s].evidence = rows[s].evidence
  <2>1. rows[s] \in FitSession
    BY DEF Serves
  <2>2. CASE rows[s].status = "PREPARED"
    <3>1. Superseded(rows)[s] = [rows[s] EXCEPT !.status = "SUPERSEDED"]
      BY <2>2 DEF Superseded
    <3>2. rows[s].status # "COMPLETED"
      BY <2>2
    <3> QED BY <2>1, <3>1, <3>2, StatusPut
  <2>3. CASE rows[s].status # "PREPARED"
    <3>1. Superseded(rows)[s] = rows[s]
      BY <2>3 DEF Superseded
    <3> QED BY <2>1, <3>1 DEF Kept
  <2> QED BY <2>2, <2>3
<1>2. Superseded(rows) = [s \in Sessions |-> Superseded(rows)[s]]
  BY DEF Superseded
<1>3. \A s \in Sessions : Kept(sessions[s], rows[s]) /\ rows[s].evidence = sessions[s].evidence
  BY DEF Serves
<1>4. \A s \in Sessions : /\ Kept(sessions[s], Superseded(rows)[s])
                          /\ Superseded(rows)[s].evidence = sessions[s].evidence
  BY <1>1, <1>3 DEF Kept
<1> QED BY <1>1, <1>2, <1>4 DEF Serves

LEMMA PrepareKeeps ==
  ASSUME FormInv, NEW o \in Offers, Prepare(o)
  PROVE  FormInv' /\ RowsKept
<1> DEFINE rows == Expired(sessions)
           old  == Superseded(rows)
<1>1. Serves(rows) /\ Serves(old)
  BY ExpiredServes, SupersededServes
<1>2. CASE sessions' = rows /\ UNCHANGED offer
  BY <1>1, <1>2, FilingsStay DEF Prepare, FormInv
<1>3. ASSUME NEW s \in With(rows, "NONE"),
             sessions' = [old EXCEPT ![s].status = "PREPARED"],
             offer' = [offer EXCEPT ![o] = [step |-> "bind", session |-> s]]
      PROVE  FormInv' /\ RowsKept
  <2> DEFINE put == [old[s] EXCEPT !.status = "PREPARED"]
  <2>1. s \in Sessions /\ rows[s].status = "NONE"
    BY DEF With
  <2>2. old[s] = rows[s]
    BY <2>1 DEF Superseded
  <2>3. put \in FitSession /\ Kept(old[s], put) /\ put.evidence = old[s].evidence
    <3>1. old[s] \in FitSession /\ old[s].status # "COMPLETED" /\ "PREPARED" \in Active
      BY <1>1, <2>1, <2>2 DEF Serves, Active
    <3> HIDE DEF old
    <3> QED BY <3>1, StatusPut
  <2>4. sessions' = [old EXCEPT ![s] = put]
    BY <1>3
  <2> HIDE DEF put, old
  <2>5. Serves(sessions')
    BY <1>1, <2>1, <2>3, <2>4, RowServes
  <2>6. offer' \in [Offers -> {Idle} \cup Offering]
    BY <1>3, <2>1 DEF FormInv, Offering
  <2> QED BY <2>5, <2>6, FilingsStay DEF Prepare
<1> QED BY <1>2, <1>3 DEF Prepare

\* A step of an offer, by the session it is of.
LEMMA Offered ==
  ASSUME FormInv, NEW o \in Offers, offer[o].step \in {"bind", "launch", "mark"}
  PROVE  /\ offer[o].session \in Sessions /\ sessions[offer[o].session] \in FitSession
         /\ \A step \in {"launch", "mark"} :
              [offer EXCEPT ![o].step = step] \in [Offers -> {Idle} \cup Offering]
         /\ [offer EXCEPT ![o] = Idle] \in [Offers -> {Idle} \cup Offering]
<1>1. offer[o] \in Offering
  BY DEF FormInv, Idle
<1>2. \A step \in {"launch", "mark"} : [offer[o] EXCEPT !.step = step] \in Offering
  BY <1>1 DEF Offering
<1>3. offer[o].session \in Sessions
  BY <1>1 DEF Offering
<1> QED BY <1>2, <1>3 DEF FormInv

LEMMA BindKeeps ==
  ASSUME FormInv, NEW o \in Offers, Bind(o)
  PROVE  FormInv' /\ RowsKept
<1> DEFINE s   == offer[o].session
           put == [sessions[s] EXCEPT !.bound = TRUE]
<1>1. /\ s \in Sessions /\ sessions[s] \in FitSession
      /\ offer' \in [Offers -> {Idle} \cup Offering]
  BY Offered DEF Bind
<1>2. sessions' = sessions \/ sessions' = [sessions EXCEPT ![s] = put]
  BY DEF Bind
<1>3. put \in FitSession /\ Kept(sessions[s], put) /\ put.evidence = sessions[s].evidence
  BY <1>1, MarkPut
<1> HIDE DEF put, s
<1>4. Serves(sessions')
  BY <1>1, <1>2, <1>3, RowServes, SessionsServe
<1> QED BY <1>1, <1>4, FilingsStay DEF Bind

LEMMA LaunchKeeps ==
  ASSUME FormInv, NEW o \in Offers, Launch(o)
  PROVE  FormInv' /\ RowsKept
<1> DEFINE s == offer[o].session
<1>1. /\ s \in Sessions /\ sessions[s] \in FitSession
      /\ offer' \in [Offers -> {Idle} \cup Offering]
  BY Offered DEF Launch
<1>2. PICK launched \in {"MAYBE", "FAILED"} :
        sessions' = [sessions EXCEPT ![s] = [sessions[s] EXCEPT !.launched = launched]]
  BY DEF Launch
<1> DEFINE put == [sessions[s] EXCEPT !.launched = launched]
<1>3. put \in FitSession /\ Kept(sessions[s], put) /\ put.evidence = sessions[s].evidence
  BY <1>1, MarkPut
<1>4. sessions' = [sessions EXCEPT ![s] = put]
  BY <1>2
<1> HIDE DEF put, s
<1>5. Serves(sessions')
  BY <1>1, <1>3, <1>4, RowServes, SessionsServe
<1> QED BY <1>1, <1>5, FilingsStay DEF Launch

LEMMA MarkKeeps ==
  ASSUME FormInv, NEW o \in Offers, Mark(o)
  PROVE  FormInv' /\ RowsKept
<1> DEFINE s   == offer[o].session
           put == [sessions[s] EXCEPT !.status = "OFFERED"]
<1>1. /\ s \in Sessions /\ sessions[s] \in FitSession
      /\ offer' \in [Offers -> {Idle} \cup Offering]
  BY Offered DEF Mark
<1>2. CASE UNCHANGED sessions
  BY <1>1, <1>2, FilingsStay, SessionsServe DEF Mark
<1>3. CASE Offerable(sessions[s]) /\ sessions' = [sessions EXCEPT ![s] = put]
  <2>1. sessions[s].status # "COMPLETED" /\ "OFFERED" \in Active
    BY <1>3 DEF Offerable, Active
  <2>2. put \in FitSession /\ Kept(sessions[s], put) /\ put.evidence = sessions[s].evidence
    BY <1>1, <2>1, StatusPut
  <2> HIDE DEF put, s
  <2>3. Serves(sessions')
    BY <1>1, <1>3, <2>2, RowServes, SessionsServe
  <2> QED BY <1>1, <2>3, FilingsStay DEF Mark
<1> QED BY <1>2, <1>3 DEF Mark

LEMMA LaunchStatusKeeps ==
  ASSUME FormInv, NEW s \in Sessions, LaunchStatus(s)
  PROVE  FormInv' /\ RowsKept
<1>0. PICK status \in {"OFFERED", "FALLBACK"} :
        sessions' = [sessions EXCEPT ![s].status = status]
  BY DEF LaunchStatus
<1> DEFINE put == [sessions[s] EXCEPT !.status = status]
<1>1. /\ sessions[s] \in FitSession /\ sessions[s].status # "COMPLETED"
      /\ status \in Active \cup {"EXPIRED", "SUPERSEDED", "FALLBACK"}
  BY DEF FormInv, LaunchStatus, Offerable, Active
<1>2. sessions' = [sessions EXCEPT ![s] = put]
  BY <1>0
<1>3. put \in FitSession /\ Kept(sessions[s], put) /\ put.evidence = sessions[s].evidence
  BY <1>1, StatusPut
<1> HIDE DEF put
<1>4. Serves(sessions')
  BY <1>2, <1>3, RowServes, SessionsServe
<1> QED BY <1>4, FilingsStay DEF LaunchStatus, FormInv

LEMMA LapseKeeps ==
  ASSUME FormInv, NEW s \in Sessions, Lapse(s)
  PROVE  FormInv' /\ RowsKept
<1> DEFINE put == [sessions[s] EXCEPT !.lapsed = TRUE]
<1>1. put \in FitSession /\ Kept(sessions[s], put) /\ put.evidence = sessions[s].evidence
  BY MarkPut DEF FormInv
<1>2. sessions' = [sessions EXCEPT ![s] = put]
  BY DEF Lapse
<1> HIDE DEF put
<1>3. Serves(sessions')
  BY <1>1, <1>2, RowServes, SessionsServe
<1> QED BY <1>3, FilingsStay DEF Lapse, FormInv

LEMMA EnterGuidedFallbackKeeps ==
  ASSUME FormInv, EnterGuidedFallback
  PROVE  FormInv' /\ RowsKept
<1>1. sessions' = [s \in Sessions |-> IF sessions[s].status \in Active
                     THEN [sessions[s] EXCEPT !.status = "FALLBACK"] ELSE sessions[s]]
  BY DEF EnterGuidedFallback
<1>2. ASSUME NEW s \in Sessions
      PROVE  /\ sessions'[s] \in FitSession /\ Kept(sessions[s], sessions'[s])
             /\ sessions'[s].evidence = sessions[s].evidence
  <2>1. sessions[s] \in FitSession
    BY DEF FormInv
  <2>2. CASE sessions[s].status \in Active
    <3>1. sessions'[s] = [sessions[s] EXCEPT !.status = "FALLBACK"]
      BY <1>1, <2>2
    <3>2. sessions[s].status # "COMPLETED"
      BY <2>2 DEF Active
    <3> QED BY <2>1, <3>1, <3>2, StatusPut
  <2>3. CASE sessions[s].status \notin Active
    BY <1>1, <2>1, <2>3 DEF Kept
  <2> QED BY <2>2, <2>3
<1>3. Serves(sessions')
  BY <1>1, <1>2 DEF Serves
<1> QED BY <1>3, FilingsStay DEF EnterGuidedFallback, FormInv

\* The delivery of a completion ends, or is refused: nothing is lost but itself.
LEMMA FilingEnds ==
  ASSUME FormInv, NEW d \in Filings, filing[d] # Idle,
         AnswerFiling(d) \/ RefuseFiling(d)
  PROVE  /\ filing' = [filing EXCEPT ![d] = Idle]
         /\ filing' \in [Filings -> {Idle} \cup Filing]
         /\ filed' \in [Sessions \X FormFacts -> {"NO", "UNANSWERED", "ANSWERED"}]
BY DEF FormInv, AnswerFiling, RefuseFiling

\* Rows may take a completion in, as long as no other delivery relied on it.
LEMMA FilingEnded ==
  ASSUME FormInv, NEW d \in Filings, filing[d] # Idle,
         AnswerFiling(d) \/ RefuseFiling(d), Serves(sessions'), UNCHANGED offer
  PROVE  FormInv' /\ RowsKept
<1>1. /\ filing' = [filing EXCEPT ![d] = Idle]
      /\ filing' \in [Filings -> {Idle} \cup Filing]
      /\ filed' \in [Sessions \X FormFacts -> {"NO", "UNANSWERED", "ANSWERED"}]
  BY FilingEnds
<1>2. ASSUME NEW other \in Filings, filing'[other] # Idle, filing'[other].step = "process"
      PROVE  sessions'[filing'[other].session].evidence = filing'[other].facts
  <2>1. other # d /\ filing'[other] = filing[other]
    BY <1>1, <1>2 DEF FormInv
  <2>2. filing[other].session \in Sessions
    BY <1>2, <2>1 DEF FormInv, Filing
  <2> QED BY <1>2, <2>1, <2>2 DEF FormInv, Serves
<1> QED BY <1>1, <1>2 DEF FormInv, Serves, RowsKept

LEMMA ReceiveFormKeeps ==
  ASSUME FormInv, ConvInv, NEW d \in Filings, ReceiveForm(d)
  PROVE  FormInv' /\ RowsKept
<1> PICK s \in Sessions, facts \in FormFacts :
      /\ IF control.state = "AUTOMATION"
           THEN /\ filed' = [filed EXCEPT ![<<s, facts>>] = "UNANSWERED"]
                /\ filing' = [filing EXCEPT ![d] =
                     [step |-> "capture", session |-> s, facts |-> facts,
                      authority |-> control.version]]
                /\ sessions' = Expired(sessions)
           ELSE /\ filed' = [filed EXCEPT ![<<s, facts>>] = "ANSWERED"]
                /\ UNCHANGED <<filing, sessions>>
      /\ UNCHANGED offer
  BY DEF ReceiveForm
<1>1. filed' \in [Sessions \X FormFacts -> {"NO", "UNANSWERED", "ANSWERED"}]
  BY DEF FormInv
<1>2. CASE control.state = "AUTOMATION"
  <2> DEFINE new == [step |-> "capture", session |-> s, facts |-> facts,
                     authority |-> control.version]
  <2>1. new \in Filing /\ new.step = "capture"
    BY ConversationBounds DEF Filing, ConvInv, TypeInv, ConvTyped, Control
  <2>2. filing' = [filing EXCEPT ![d] = new] /\ sessions' = Expired(sessions)
    BY <1>2
  <2> HIDE DEF new
  <2>3. Serves(sessions')
    BY <2>2, ExpiredServes
  <2>4. ASSUME NEW other \in Filings, filing'[other] # Idle, filing'[other].step = "process"
        PROVE  sessions'[filing'[other].session].evidence = filing'[other].facts
    <3>1. other # d /\ filing'[other] = filing[other]
      BY <2>1, <2>2, <2>4 DEF FormInv
    <3>2. filing[other].session \in Sessions
      BY <2>4, <3>1 DEF FormInv, Filing
    <3> QED BY <2>3, <2>4, <3>1, <3>2 DEF FormInv, Serves
  <2>5. filing' \in [Filings -> {Idle} \cup Filing]
    BY <2>1, <2>2 DEF FormInv
  <2> QED BY <1>1, <2>3, <2>4, <2>5 DEF FormInv, Serves, RowsKept
<1>3. CASE control.state # "AUTOMATION"
  BY <1>1, <1>3 DEF FormInv, RowsKept, Kept
<1> QED BY <1>2, <1>3

LEMMA CaptureKeeps ==
  ASSUME FormInv, NEW d \in Filings, Capture(d)
  PROVE  FormInv' /\ RowsKept
<1> DEFINE s     == filing[d].session
           facts == filing[d].facts
           row   == sessions[s]
           put   == [row EXCEPT !.status = "COMPLETED", !.evidence = facts]
           next  == [filing[d] EXCEPT !.step = "process"]
<1>1. /\ filing[d].step = "capture" /\ filing[d] # Idle /\ filing[d] \in Filing
      /\ s \in Sessions /\ facts \in FormFacts /\ row \in FitSession /\ UNCHANGED offer
  BY DEF Capture, FormInv, Filing, Idle
<1>2. CASE UNCHANGED sessions /\ (AnswerFiling(d) \/ RefuseFiling(d))
  BY <1>1, <1>2, SessionsServe, FilingEnded
<1>3. /\ next \in Filing /\ next.step = "process" /\ next.session = s /\ next.facts = facts
  BY <1>1 DEF Filing
<1>4. CASE /\ row.evidence = facts /\ UNCHANGED <<sessions, filed>>
           /\ filing' = [filing EXCEPT ![d].step = "process"]
  <2>1. filing' = [filing EXCEPT ![d] = next]
    BY <1>4
  <2> HIDE DEF next
  <2>2. ASSUME NEW other \in Filings, filing'[other] # Idle, filing'[other].step = "process"
        PROVE  sessions[filing'[other].session].evidence = filing'[other].facts
    BY <1>3, <1>4, <2>1, <2>2 DEF FormInv
  <2> QED BY <1>1, <1>3, <1>4, <2>1, <2>2 DEF FormInv, RowsKept, Kept
<1>5. CASE /\ Capturable(row) /\ UNCHANGED filed
           /\ sessions' = [sessions EXCEPT ![s].status = "COMPLETED", ![s].evidence = facts]
           /\ filing' = [filing EXCEPT ![d].step = "process"]
  <2>1. row.evidence = None /\ row.made = None /\ ~row.quote /\ ~row.held /\ row \in Session
    BY <1>1, <1>5, UnclearFacts, NoneIsNoFilling DEF Capturable, FitSession, Session
  <2>2. /\ put \in Session /\ put.status = "COMPLETED" /\ put.evidence = facts
        /\ put.made = row.made /\ put.held = row.held /\ put.quote = row.quote
    BY <1>1, <2>1 DEF Session
  <2>3. sessions' = [sessions EXCEPT ![s] = put] /\ filing' = [filing EXCEPT ![d] = next]
    BY <1>1, <1>5 DEF FormInv
  <2> HIDE DEF put, next
  <2>4. put \in FitSession /\ Kept(row, put)
    BY <2>1, <2>2 DEF FitSession, Kept
  <2>5. ASSUME NEW other \in Filings, filing'[other] # Idle, filing'[other].step = "process"
        PROVE  sessions'[filing'[other].session].evidence = filing'[other].facts
    <3>1. CASE other = d
      BY <1>1, <1>3, <2>2, <2>3, <3>1 DEF FormInv
    <3>2. CASE other # d
      <4>1. filing'[other] = filing[other] /\ filing[other] \in Filing
        BY <2>3, <2>5, <3>2 DEF FormInv
      <4>2. sessions[filing[other].session].evidence = filing[other].facts
        BY <2>5, <4>1 DEF FormInv
      <4>3. filing[other].session \in Sessions /\ filing[other].facts # None
        BY <4>1, NoneIsNoFilling DEF Filing
      <4>4. filing[other].session # s
        BY <2>1, <4>2, <4>3
      <4> QED BY <2>3, <4>1, <4>2, <4>3, <4>4 DEF FormInv
    <3> QED BY <3>1, <3>2
  <2>6. RowsKept
    BY <1>1, <2>3, <2>4 DEF RowsKept, Kept, FormInv
  <2>7. /\ sessions' \in [Sessions -> FitSession]
        /\ filing' \in [Filings -> {Idle} \cup Filing]
    BY <1>1, <1>3, <2>3, <2>4 DEF FormInv
  <2> QED BY <1>1, <1>5, <2>5, <2>6, <2>7 DEF FormInv
<1> QED BY <1>2, <1>4, <1>5 DEF Capture

\* What a completed form is turned into: it is held, or a Quote is made of it.
LEMMA OutcomePut ==
  ASSUME FormInv, NEW d \in Filings, filing[d] # Idle, filing[d].step = "process",
         ~sessions[filing[d].session].quote, ~sessions[filing[d].session].held
  PROVE  LET row == sessions[filing[d].session]
         IN  /\ filing[d].session \in Sessions /\ row \in FitSession
             /\ row.evidence \in Unclear =>
                  /\ [row EXCEPT !.held = TRUE] \in FitSession
                  /\ Kept(row, [row EXCEPT !.held = TRUE])
                  /\ [row EXCEPT !.held = TRUE].evidence = row.evidence
             /\ row.evidence \notin Unclear /\ row.made \in {None, row.evidence} =>
                  /\ [row EXCEPT !.made = row.evidence] \in FitSession
                  /\ Kept(row, [row EXCEPT !.made = row.evidence])
                  /\ [row EXCEPT !.made = row.evidence].evidence = row.evidence
                  /\ [row EXCEPT !.made = row.evidence, !.quote = TRUE] \in FitSession
                  /\ Kept(row, [row EXCEPT !.made = row.evidence, !.quote = TRUE])
                  /\ [row EXCEPT !.made = row.evidence, !.quote = TRUE].evidence = row.evidence
<1> DEFINE row  == sessions[filing[d].session]
           held == [row EXCEPT !.held = TRUE]
           made == [row EXCEPT !.made = row.evidence]
           done == [made EXCEPT !.quote = TRUE]
<1>1. filing[d] \in Filing
  BY DEF FormInv
<1>2. filing[d].session \in Sessions /\ row \in FitSession /\ row \in Session
  BY <1>1 DEF Filing, FormInv, FitSession
<1>3. row.evidence = filing[d].facts /\ row.evidence \in FormFacts /\ row.evidence # None
  BY <1>1, NoneIsNoFilling DEF FormInv, Filing
<1>4. done = [row EXCEPT !.made = row.evidence, !.quote = TRUE]
  BY <1>2 DEF Session
<1>5. /\ held \in Session /\ held.status = row.status /\ held.evidence = row.evidence
      /\ held.made = row.made /\ held.quote = row.quote
  BY <1>2 DEF Session
<1>6. /\ made \in Session /\ made.status = row.status /\ made.evidence = row.evidence
      /\ made.made = row.evidence /\ made.quote = row.quote /\ made.held = row.held
  BY <1>2, <1>3 DEF Session
<1> HIDE DEF made
<1>7. /\ done \in Session /\ done.status = row.status /\ done.evidence = row.evidence
      /\ done.made = row.evidence /\ done.held = row.held
  BY <1>6 DEF Session
<1> HIDE DEF row, held, done
<1>8. ~row.quote /\ ~row.held
  BY DEF row
<1>9. row.evidence \in Unclear => /\ held \in FitSession /\ Kept(row, held)
                                  /\ held.evidence = row.evidence
  BY <1>2, <1>3, <1>5, <1>8 DEF FitSession, Kept
<1>10. row.evidence \notin Unclear /\ row.made \in {None, row.evidence} =>
         /\ made \in FitSession /\ Kept(row, made) /\ made.evidence = row.evidence
         /\ done \in FitSession /\ Kept(row, done) /\ done.evidence = row.evidence
  BY <1>2, <1>3, <1>6, <1>7, <1>8 DEF FitSession, Kept
<1> QED BY <1>2, <1>4, <1>9, <1>10 DEF row, held, made

LEMMA ProcessKeeps ==
  ASSUME FormInv, NEW d \in Filings, Process(d)
  PROVE  FormInv' /\ RowsKept
<1> DEFINE s    == filing[d].session
           row  == sessions[s]
           held == [row EXCEPT !.held = TRUE]
           done == [row EXCEPT !.made = row.evidence, !.quote = TRUE]
<1>1. filing[d].step = "process" /\ filing[d] # Idle /\ UNCHANGED offer
  BY DEF Process, Idle
<1>2. CASE AnswerFiling(d) /\ UNCHANGED sessions
  BY <1>1, <1>2, SessionsServe, FilingEnded
<1>3. CASE /\ AnswerFiling(d) /\ ~row.quote /\ ~row.held /\ row.evidence \in Unclear
           /\ sessions' = [sessions EXCEPT ![s].held = TRUE]
  <2>1. /\ s \in Sessions /\ held \in FitSession /\ Kept(row, held)
        /\ held.evidence = row.evidence
    BY <1>1, <1>3, OutcomePut
  <2>2. sessions' = [sessions EXCEPT ![s] = held]
    BY <1>3
  <2> HIDE DEF held, s
  <2>3. Serves(sessions')
    BY <2>1, <2>2, SessionsServe, RowServes
  <2> QED BY <1>1, <1>3, <2>3, FilingEnded
<1>4. CASE /\ AnswerFiling(d) /\ ~row.quote /\ ~row.held /\ row.evidence \notin Unclear
           /\ row.made \in {None, row.evidence}
           /\ sessions' = [sessions EXCEPT ![s].made = row.evidence, ![s].quote = TRUE]
  <2>1. /\ s \in Sessions /\ done \in FitSession /\ Kept(row, done)
        /\ done.evidence = row.evidence
    BY <1>1, <1>4, OutcomePut
  <2>2. sessions' = [sessions EXCEPT ![s] = done]
    BY <1>4, <2>1 DEF FormInv
  <2> HIDE DEF done, s
  <2>3. Serves(sessions')
    BY <2>1, <2>2, SessionsServe, RowServes
  <2> QED BY <1>1, <1>4, <2>3, FilingEnded
<1> QED BY <1>2, <1>3, <1>4 DEF Process

LEMMA FailFilingKeeps ==
  ASSUME FormInv, NEW d \in Filings, FailFiling(d)
  PROVE  FormInv' /\ RowsKept
<1> DEFINE s    == filing[d].session
           row  == sessions[s]
           made == [row EXCEPT !.made = row.evidence]
<1>1. filing[d] # Idle /\ UNCHANGED offer /\ RefuseFiling(d)
  BY DEF FailFiling
<1>2. CASE UNCHANGED sessions
  BY <1>1, <1>2, SessionsServe, FilingEnded
<1>3. CASE /\ filing[d].step = "process" /\ ~row.quote /\ ~row.held
           /\ row.evidence \notin Unclear /\ row.made = None
           /\ sessions' = [sessions EXCEPT ![s].made = row.evidence]
  <2>1. /\ s \in Sessions /\ made \in FitSession /\ Kept(row, made)
        /\ made.evidence = row.evidence
    BY <1>1, <1>3, OutcomePut
  <2>2. sessions' = [sessions EXCEPT ![s] = made]
    BY <1>3
  <2> HIDE DEF made, s
  <2>3. Serves(sessions')
    BY <2>1, <2>2, SessionsServe, RowServes
  <2> QED BY <1>1, <2>3, FilingEnded
<1> QED BY <1>2, <1>3 DEF FailFiling

LEMMA FormStepKeeps ==
  ASSUME FormInv, ConvInv, FormStep
  PROVE  FormInv' /\ RowsKept
<1>1. ASSUME NEW o \in Offers, AbandonOffer(o) PROVE FormInv' /\ RowsKept
  <2>1. Serves(sessions') /\ offer' \in [Offers -> {Idle} \cup Offering]
    BY <1>1, SessionsServe DEF AbandonOffer, FormInv
  <2> QED BY <1>1, <2>1, FilingsStay DEF AbandonOffer
<1>2. ASSUME NEW o \in Offers, Prepare(o) \/ Bind(o) \/ Launch(o) \/ Mark(o)
      PROVE  FormInv' /\ RowsKept
  BY <1>2, PrepareKeeps, BindKeeps, LaunchKeeps, MarkKeeps
<1>3. ASSUME NEW s \in Sessions, LaunchStatus(s) \/ Lapse(s) PROVE FormInv' /\ RowsKept
  BY <1>3, LaunchStatusKeeps, LapseKeeps
<1>4. ASSUME NEW d \in Filings, ReceiveForm(d) \/ FilingStep(d) PROVE FormInv' /\ RowsKept
  BY <1>4, ReceiveFormKeeps, CaptureKeeps, ProcessKeeps DEF FilingStep
<1> QED BY <1>1, <1>2, <1>3, <1>4, EnterGuidedFallbackKeeps DEF FormStep

LEMMA FormNextKeeps == FormInv /\ ConvInv /\ [Next]_systemVars => FormInv' /\ RowsKept
<1> SUFFICES ASSUME FormInv, ConvInv, [Next]_systemVars PROVE FormInv' /\ RowsKept
  OBVIOUS
<1>1. ASSUME NEW w \in Workers, Own(w) PROVE FormInv' /\ RowsKept
  <2>1. Serves(sessions')
    BY <1>1, ExpiredServes DEF Own
  <2> QED BY <1>1, <2>1, FilingsStay DEF Own, FormInv
<1>2. CASE UNCHANGED formVars
  <2>1. Serves(sessions')
    BY <1>2, SessionsServe DEF formVars
  <2> QED BY <1>2, <2>1, FilingsStay DEF formVars, FormInv
<1>3. CASE FormStep
  BY <1>3, FormStepKeeps
<1>4. ASSUME NEW d \in Filings, FailCompletion(d) PROVE FormInv' /\ RowsKept
  BY <1>4, FailFilingKeeps DEF FailCompletion
<1>5. CASE UNCHANGED systemVars
  BY <1>2, <1>5 DEF systemVars
<1> QED BY <1>1, <1>2, <1>3, <1>4, <1>5 DEF Next

LEMMA FormInitKeeps == Init => FormInv
<1> SUFFICES ASSUME FormInit PROVE FormInv
  BY DEF Init
<1>1. NoSession \in FitSession
  BY DEF NoSession, FitSession, Session
<1> QED BY <1>1 DEF FormInit, FormInv

LEMMA FormInvariant == Spec => []FormInv
BY FormInitKeeps, FormNextKeeps, ConvInvariant, PTL DEF Spec

\* The form sessions, the offers and the deliveries of completions stay in
\* their types, for any number of them.
THEOREM FormTyped == Spec => []FormTypeOK
<1>1. FormInv => FormTypeOK
  BY DEF FormInv, FormTypeOK, FitSession, Filing, Offering
<1> QED BY <1>1, FormInvariant, PTL

\* A form is captured once, and what came of it stays: one Quote of the facts
\* captured, or a human review, never both.
THEOREM FormOutcomeStays == Spec => FormOutcomeIsFinal
<1> DEFINE A == \A s \in Sessions :
                  LET was == sessions[s]  is == sessions'[s]
                  IN  /\ was.evidence # None => is.evidence = was.evidence
                      /\ was.made # None => is.made = was.made
                      /\ is.made \in {None, is.evidence}
                      /\ is.quote => is.made # None /\ ~is.held
<1>1. FormInv' /\ RowsKept => A
  <2> SUFFICES ASSUME FormInv', RowsKept, NEW s \in Sessions
               PROVE  /\ sessions[s].evidence # None => sessions'[s].evidence = sessions[s].evidence
                      /\ sessions[s].made # None => sessions'[s].made = sessions[s].made
                      /\ sessions'[s].made \in {None, sessions'[s].evidence}
                      /\ sessions'[s].quote => sessions'[s].made # None /\ ~sessions'[s].held
    OBVIOUS
  <2>1. sessions'[s] \in FitSession
    BY DEF FormInv
  <2> QED BY <2>1 DEF RowsKept, Kept, FitSession
<1>2. FormInv /\ ConvInv /\ [Next]_systemVars => [A]_systemVars
  BY <1>1, FormNextKeeps
<1> QED BY <1>2, ConvInvariant, FormInvariant, PTL DEF Spec, FormOutcomeIsFinal

=============================================================================
