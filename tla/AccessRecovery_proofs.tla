----------------------- MODULE AccessRecovery_proofs -----------------------
(***************************************************************************)
(* Proofs about AccessRecovery, for any messages, recoveries, credentials, *)
(* requests and webhooks in progress, calls, deaths and times.             *)
(***************************************************************************)
EXTENDS AccessRecovery, FiniteSetTheorems, SequenceTheorems, WellFoundedInduction, TLAPS

-----------------------------------------------------------------------------
(* Events and places *)

LEMMA SeqDomain ==
  ASSUME NEW S, NEW s \in Seq(S)
  PROVE  /\ Len(s) \in Nat /\ DOMAIN s = 1..Len(s)
         /\ \A i \in DOMAIN s : s[i] \in S
BY LenProperties, ElementOfSeq

LEMMA OneMoreAtTheEnd ==
  ASSUME NEW S, NEW s \in Seq(S), NEW e \in S
  PROVE  /\ Append(s, e) \in Seq(S) /\ Append(s, e) # <<>>
         /\ DOMAIN Append(s, e) = DOMAIN s \cup {Len(s) + 1}
         /\ \A i \in DOMAIN s : Append(s, e)[i] = s[i]
         /\ Append(s, e)[Len(s) + 1] = e
         /\ Last(Append(s, e)) = e
<1>1. /\ Append(s, e) \in Seq(S) /\ Len(Append(s, e)) = Len(s) + 1
      /\ \A i \in 1..Len(s) : Append(s, e)[i] = s[i]
      /\ Append(s, e)[Len(s) + 1] = e
  BY AppendProperties
<1>2. Len(s) \in Nat /\ DOMAIN s = 1..Len(s) /\ DOMAIN Append(s, e) = 1..(Len(s) + 1)
  BY <1>1, SeqDomain
<1>3. Append(s, e) # <<>>
  BY <1>1, <1>2, EmptySeq
<1> QED
  BY <1>1, <1>2, <1>3 DEF Last

\* A nonempty set of places has a greatest one: the one Max chooses.
LEMMA GreatestPlace ==
  ASSUME NEW n \in Nat, NEW T \in SUBSET (1..n), T # {}
  PROVE  Max(T) \in T
<1> DEFINE Below == {n - i : i \in T}
<1>1. PICK R : /\ R = {ss \in Nat \X Nat : ss[1] < ss[2]}
               /\ IsWellFoundedOn(R, Nat)
  BY NatLessThanWellFounded, Zenon DEF OpToRel
<1>2. Below \in SUBSET Nat /\ Below # {}
  <2>1. \A i \in T : n - i \in Nat
    OBVIOUS
  <2> QED
    BY <2>1, Zenon
<1>3. \E x \in Below : \A y \in Below : ~ (<<y, x>> \in R)
  <2> HIDE DEF Below
  <2> QED
    BY <1>1, <1>2, WFMin, Zenon
<1>4. \A x, y \in Nat : <<y, x>> \in R <=> y < x
  BY <1>1
<1>5. PICK x \in Below : \A y \in Below : ~ (y < x)
  BY <1>2, <1>3, <1>4, Zenon
<1>6. PICK i \in T : x = n - i
  BY <1>5
<1>7. \A j \in T : i >= j
  <2> TAKE j \in T
  <2>1. n - j \in Below
    OBVIOUS
  <2>2. ~ (n - j < n - i)
    BY <2>1, <1>5, <1>6
  <2> QED
    BY <2>2
<1> QED
  BY <1>7, Zenon DEF Max

-----------------------------------------------------------------------------
(* What is stored of a message *)

LEMMA MessageTyped ==
  ASSUME DeliveryTypeOK, NEW m \in Messages
  PROVE  /\ outbox[m] \in Outgoing
         /\ outbox[m].events \in Seq(Events)
         /\ \A i \in DOMAIN outbox[m].events : outbox[m].events[i] \in Events
         /\ outbox[m].calls \in 0..MaxCalls
         /\ outbox[m].taken \in SUBSET (1..MaxCalls)
<1>1. outbox[m] \in Outgoing
  BY DEF DeliveryTypeOK
<1>2. outbox[m].events \in Seq(Events)
  BY <1>1 DEF Outgoing
<1> QED
  BY <1>1, <1>2, SeqDomain DEF Outgoing

LEMMA AppendedTyped ==
  ASSUME DeliveryTypeOK, NEW m \in Messages, NEW id \in Ids,
         NEW status \in {"PENDING", "ACCEPTED", "FAILED"}
  PROVE  Appended(m, status, id) \in Seq(Events)
<1>1. [status |-> status, id |-> id, at |-> now] \in Events
  BY DEF DeliveryTypeOK, Events
<1> QED
  BY <1>1, MessageTyped, OneMoreAtTheEnd DEF Appended

LEMMA AnotherPendingTyped ==
  ASSUME DeliveryTypeOK, NEW m \in Messages
  PROVE  WithAnotherPending(m) \in Seq(Events)
<1>1. [status |-> "PENDING", id |-> 0, at |-> now] \in Events
  BY DeliveryBounds DEF DeliveryTypeOK, Events, Ids
<1> QED
  BY <1>1, MessageTyped, OneMoreAtTheEnd DEF WithAnotherPending

LEMMA AcceptedAtTyped ==
  ASSUME DeliveryTypeOK, NEW m \in Messages, Accepted(m) # {}
  PROVE  AcceptedAt(m) \in 0..MaxTime
<1> DEFINE events == outbox[m].events
<1>1. events \in Seq(Events) /\ Len(events) \in Nat /\ DOMAIN events = 1..Len(events)
  BY MessageTyped, SeqDomain
<1>2. Accepted(m) \in SUBSET (1..Len(events))
  BY <1>1 DEF Accepted, Places
<1>3. Max(Accepted(m)) \in Accepted(m)
  BY <1>1, <1>2, GreatestPlace
<1>4. events[Max(Accepted(m))] \in Events
  BY <1>1, <1>2, <1>3, SeqDomain
<1> QED
  BY <1>4 DEF AcceptedAt, Events

\* The events of one message are replaced; nothing else changes.
LEMMA EventsWritten ==
  ASSUME outbox \in [Messages -> Outgoing], NEW m \in Messages, NEW e \in Seq(Events),
         outbox' = [outbox EXCEPT ![m].events = e]
  PROVE  /\ outbox' \in [Messages -> Outgoing]
         /\ outbox'[m].events = e
         /\ \A n \in Messages : n # m => outbox'[n] = outbox[n]
         /\ \A n \in Messages : outbox'[n].taken = outbox[n].taken
BY DEF Outgoing

LEMMA CallCounted ==
  ASSUME outbox \in [Messages -> Outgoing], NEW m \in Messages, outbox[m].calls < MaxCalls,
         NEW taken \in BOOLEAN,
         outbox' = [outbox EXCEPT ![m].calls = outbox[m].calls + 1,
                                  ![m].taken = IF taken THEN @ \cup {outbox[m].calls + 1} ELSE @]
  PROVE  /\ outbox' \in [Messages -> Outgoing] /\ outbox[m].calls + 1 \in Ids
         /\ outbox[m].calls + 1 # 0
         /\ \A n \in Messages : outbox'[n].events = outbox[n].events
         /\ \A n \in Messages : n # m => outbox'[n] = outbox[n]
         /\ outbox'[m].taken = IF taken THEN outbox[m].taken \cup {outbox[m].calls + 1} ELSE outbox[m].taken
<1>1. outbox[m] \in Outgoing /\ MaxCalls \in Nat
  BY DeliveryBounds
<1>2. outbox[m].calls \in 0..MaxCalls /\ outbox[m].taken \in SUBSET (1..MaxCalls)
  BY <1>1 DEF Outgoing
<1>3. outbox[m].calls + 1 \in 1..MaxCalls
  BY <1>1, <1>2
<1> DEFINE seen == IF taken THEN outbox[m].taken \cup {outbox[m].calls + 1} ELSE outbox[m].taken
           row  == [outbox[m] EXCEPT !.calls = outbox[m].calls + 1, !.taken = seen]
<1>4. outbox' = [outbox EXCEPT ![m] = row]
  OBVIOUS
<1>5. seen \in SUBSET (1..MaxCalls) /\ outbox[m].calls + 1 \in 0..MaxCalls
  BY <1>2, <1>3
<1>6. row \in Outgoing /\ row.taken = seen /\ row.events = outbox[m].events
  <2> HIDE DEF seen
  <2> QED
    BY <1>1, <1>5 DEF Outgoing
<1> HIDE DEF row
<1>7. outbox' \in [Messages -> Outgoing] /\ outbox'[m] = row
      /\ \A n \in Messages : n # m => outbox'[n] = outbox[n]
  BY <1>4, <1>6
<1>8. \A n \in Messages : outbox'[n].events = outbox[n].events
  BY <1>6, <1>7
<1> QED
  BY <1>3, <1>6, <1>7, <1>8 DEF Ids

-----------------------------------------------------------------------------
(* The handlers *)

\* What a handler that is at a step has with it.
LEMMA Doing ==
  ASSUME work \in [Handlers -> Step], NEW h \in Handlers
  PROVE  /\ work[h].pc = "idle" <=> work[h] = Idle
         /\ work[h] # Idle => work[h].m \in Messages
         /\ work[h].pc = "answered" =>
              work[h].answer \in {"ok", "refused", "lost"} /\ work[h].id \in Ids
         /\ work[h].pc \in {"sent", "reconcile", "write"} => work[h].at \in 0..MaxTime
         /\ work[h].pc \in {"reconcile", "write"} => work[h].status \in Reported
         /\ work[h].pc \in {"write", "create", "close", "initiate"} => work[h].m \in Recoveries
         /\ work[h].pc = "create" => work[h].reply \in Replies
<1>1. work[h] \in Step
  OBVIOUS
<1>2. CASE work[h] = Idle
  BY <1>2 DEF Idle
<1>3. CASE work[h] \in [pc : {"ready", "calling", "thrown"}, m : Messages]
  BY <1>3 DEF Idle
<1>4. CASE work[h] \in [pc : {"answered"}, m : Messages, answer : {"ok", "refused", "lost"}, id : Ids]
  BY <1>4 DEF Idle
<1>5. CASE work[h] \in [pc : {"sent"}, m : Messages, at : 0..MaxTime]
  BY <1>5 DEF Idle
<1>6. CASE work[h] \in [pc : {"reconcile"}, m : Messages, status : Reported, at : 0..MaxTime]
  BY <1>6 DEF Idle
<1>7. CASE work[h] \in [pc : {"write"}, m : Recoveries, status : Reported, at : 0..MaxTime]
  BY <1>7, RecoveriesAreMessages DEF Idle
<1>8. CASE work[h] \in [pc : {"create"}, m : Recoveries, reply : Replies]
  BY <1>8, RecoveriesAreMessages DEF Idle
<1>9. CASE work[h] \in [pc : {"initiate", "close"}, m : Recoveries]
  BY <1>9, RecoveriesAreMessages DEF Idle
<1> QED
  BY <1>1, <1>2, <1>3, <1>4, <1>5, <1>6, <1>7, <1>8, <1>9 DEF Step

\* The steps there are.
LEMMA StepsTyped ==
  /\ Idle \in Step
  /\ \A m \in Messages, pc \in {"ready", "calling", "thrown"} : [pc |-> pc, m |-> m] \in Step
  /\ \A m \in Messages, answer \in {"ok", "refused", "lost"}, id \in Ids :
       [pc |-> "answered", m |-> m, answer |-> answer, id |-> id] \in Step
  /\ \A m \in Messages, at \in 0..MaxTime : Sent(m, at) \in Step
  /\ \A m \in Messages : Thrown(m) \in Step
  /\ \A m \in Messages, status \in Reported, at \in 0..MaxTime :
       [pc |-> "reconcile", m |-> m, status |-> status, at |-> at] \in Step
  /\ \A m \in Recoveries, status \in Reported, at \in 0..MaxTime :
       [pc |-> "write", m |-> m, status |-> status, at |-> at] \in Step
  /\ \A m \in Recoveries, reply \in Replies : [pc |-> "create", m |-> m, reply |-> reply] \in Step
  /\ \A m \in Recoveries : [pc |-> "close", m |-> m] \in Step
  /\ \A m \in Recoveries : [pc |-> "initiate", m |-> m] \in Step
BY DEF Step, Sent, Thrown

LEMMA OneGoes ==
  ASSUME work \in [Handlers -> Step], NEW h \in Handlers, NEW step \in Step, Goes(h, step)
  PROVE  /\ work' \in [Handlers -> Step] /\ work'[h] = step
         /\ \A g \in Handlers : g # h => work'[g] = work[g]
BY DEF Goes

-----------------------------------------------------------------------------
(* The types *)

\* What the Customer writes has a key of its own, and a recovery that waits for a
\* review has the key of what was written.
AnswersKnown ==
  /\ \A l \in letters : l.key \in Replies
  /\ \A m \in Recoveries :
       recovery[m].status = "RESPONSE_REQUIRES_REVIEW" => recovery[m].response \in Replies

\* What a pass has found was accepted, and is or has been withdrawn; what it
\* judged by was accepted too, and is none of those.
PassesKnown ==
  \A p \in Lookers :
    /\ passes[p].at # "none" =>
         \A r \in passes[p].expired :
           credentials[r] # None /\ credentials[r].status \in {"ACCEPTED", "REVOKED"}
    /\ passes[p].at = "judged" =>
         /\ passes[p].state = "RECEIVED" => passes[p].left # {}
         /\ \A r \in passes[p].left :
              /\ r \notin passes[p].expired
              /\ credentials[r] # None /\ credentials[r].status \in {"ACCEPTED", "REVOKED"}

TypeInv == TypeOK /\ AnswersKnown /\ PassesKnown

LEMMA TypesAtHand ==
  ASSUME TypeInv
  PROVE  /\ DeliveryTypeOK /\ AccessTypeOK /\ PassesKnown
         /\ now \in 0..MaxTime /\ outbox \in [Messages -> Outgoing]
         /\ work \in [Handlers -> Step] /\ recovery \in [Recoveries -> Recovery]
         /\ crashes \in 0..MaxCrashes
BY DEF TypeInv, TypeOK, DeliveryTypeOK, RecoveryTypeOK

LEMMA SendingTyped ==
  ASSUME TypeInv, NEW h \in Handlers, Sending(h)
  PROVE  TypeInv'
<1>1. UNCHANGED <<now, channel, letters, inbound, accessVars, recovery>>
  BY DEF Sending, ReadMessage, Call, Record, RecordFails, StartReply, FinishReply, StatusWebhook,
         Crash
<1>2. ASSUME outbox' \in [Messages -> Outgoing], NEW step \in Step, Goes(h, step),
             crashes' \in 0..MaxCrashes
      PROVE  TypeInv'
  BY <1>1, <1>2, TypesAtHand, OneGoes
  DEF TypeInv, TypeOK, DeliveryTypeOK, AccessTypeOK, RecoveryTypeOK, AnswersKnown, PassesKnown,
      accessVars
<1> DEFINE m == work[h].m
<1>3. work[h] # Idle => m \in Messages
  BY TypesAtHand, Doing
<1> HIDE DEF m
<1>4. CASE ReadMessage(h)
  <2>1. m \in Messages
    BY <1>3, <1>4 DEF ReadMessage, At, Idle
  <2>2. Accepted(m) # {} => Sent(m, AcceptedAt(m)) \in Step
    BY <2>1, TypesAtHand, AcceptedAtTyped, StepsTyped
  <2>3. Thrown(m) \in Step /\ [pc |-> "calling", m |-> m] \in Step
    BY <2>1, StepsTyped
  <2>4. \E step \in Step : Goes(h, step)
    BY <1>4, <2>2, <2>3 DEF ReadMessage, m
  <2> QED
    BY <1>2, <1>4, <2>4, TypesAtHand DEF ReadMessage
<1>5. CASE Call(h)
  <2>1. m \in Messages
    BY <1>3, <1>5 DEF Call, At, Idle
  <2>2. PICK taken \in BOOLEAN : \E answer \in Answers(taken) :
          /\ outbox' = [outbox EXCEPT ![m].calls = outbox[m].calls + 1,
                                      ![m].taken = IF taken THEN @ \cup {outbox[m].calls + 1} ELSE @]
          /\ Goes(h, [pc |-> "answered", m |-> m, answer |-> answer, id |-> outbox[m].calls + 1])
    BY <1>5 DEF Call, m
  <2>3. outbox[m].calls < MaxCalls /\ crashes' = crashes
    BY <1>5 DEF Call, m
  <2>4. outbox' \in [Messages -> Outgoing] /\ outbox[m].calls + 1 \in Ids
    BY <2>1, <2>2, <2>3, TypesAtHand, CallCounted
  <2>5. PICK answer \in Answers(taken) :
          Goes(h, [pc |-> "answered", m |-> m, answer |-> answer, id |-> outbox[m].calls + 1])
    BY <2>2
  <2>6. [pc |-> "answered", m |-> m, answer |-> answer, id |-> outbox[m].calls + 1] \in Step
    BY <2>1, <2>4, StepsTyped DEF Answers
  <2> QED
    BY <1>2, <2>3, <2>4, <2>5, <2>6, TypesAtHand
<1>6. CASE Record(h)
  <2>1. m \in Messages /\ work[h].id \in Ids /\ work[h].answer \in {"ok", "refused", "lost"}
    BY <1>3, <1>6, TypesAtHand, Doing DEF Record, At, Idle
  <2>2. 0 \in Ids
    BY DeliveryBounds DEF Ids
  <2>3. /\ Appended(m, "ACCEPTED", work[h].id) \in Seq(Events)
        /\ Appended(m, "FAILED", 0) \in Seq(Events)
        /\ WithAnotherPending(m) \in Seq(Events)
    BY <2>1, <2>2, TypesAtHand, AppendedTyped, AnotherPendingTyped
  <2>4. /\ Sent(m, now) \in Step /\ Thrown(m) \in Step
        /\ Accepted(m) # {} => Sent(m, AcceptedAt(m)) \in Step
    BY <2>1, TypesAtHand, AcceptedAtTyped, StepsTyped
  <2>5. \/ outbox' = outbox
        \/ \E e \in Seq(Events) : outbox' = [outbox EXCEPT ![m].events = e]
    BY <1>6, <2>3 DEF Record, m
  <2>6. outbox' \in [Messages -> Outgoing]
    BY <2>1, <2>5, TypesAtHand, EventsWritten
  <2>7. \E step \in Step : Goes(h, step)
    BY <1>6, <2>4 DEF Record, m
  <2> QED
    BY <1>2, <1>6, <2>6, <2>7, TypesAtHand DEF Record
<1>7. ASSUME NEW n \in Messages, StartReply(h, n)
      PROVE  TypeInv'
  <2>1. [pc |-> "ready", m |-> n] \in Step
    BY StepsTyped
  <2>2. <<[status |-> "PENDING", id |-> 0, at |-> now]>> \in Seq(Events)
    BY TypesAtHand, DeliveryBounds DEF Events, Ids
  <2>3. outbox' \in [Messages -> Outgoing]
    BY <1>7, <2>2, TypesAtHand, EventsWritten DEF StartReply, Store
  <2> QED
    BY <1>2, <1>7, <2>1, <2>3, TypesAtHand DEF StartReply
<1>8. CASE FinishReply(h)
  BY <1>2, <1>8, TypesAtHand, StepsTyped DEF FinishReply
<1>9. ASSUME NEW n \in Messages, NEW id \in Ids, NEW status \in Reported, StatusWebhook(h, n, id, status)
      PROVE  TypeInv'
  <2>1. [pc |-> "reconcile", m |-> n, status |-> status, at |-> now] \in Step
    BY TypesAtHand, StepsTyped
  <2>2. Appended(n, status, id) \in Seq(Events)
    BY TypesAtHand, AppendedTyped DEF Reported
  <2>3. outbox' \in [Messages -> Outgoing]
    BY <1>9, <2>2, TypesAtHand, EventsWritten DEF StatusWebhook
  <2> QED
    BY <1>2, <1>9, <2>1, <2>3, TypesAtHand DEF StatusWebhook
<1>10. CASE Crash(h)
  <2>1. crashes' \in 0..MaxCrashes
    BY <1>10, TypesAtHand, DeliveryBounds DEF Crash
  <2> QED
    BY <1>2, <1>10, <2>1, TypesAtHand, StepsTyped DEF Crash
<1>11. CASE RecordFails(h)
  <2>1. m \in Messages /\ 0 \in Ids
    BY <1>3, <1>11, DeliveryBounds DEF RecordFails, At, Idle, Ids
  <2>2. Appended(m, "FAILED", 0) \in Seq(Events) /\ Thrown(m) \in Step
    BY <2>1, TypesAtHand, AppendedTyped, StepsTyped
  <2>3. outbox' \in [Messages -> Outgoing]
    BY <1>11, <2>1, <2>2, TypesAtHand, EventsWritten DEF RecordFails, m
  <2>4. crashes' \in 0..MaxCrashes /\ Goes(h, Thrown(m))
    BY <1>11, TypesAtHand, DeliveryBounds DEF RecordFails, m
  <2> QED
    BY <1>2, <2>2, <2>3, <2>4
<1> QED
  BY <1>4, <1>5, <1>6, <1>7, <1>8, <1>9, <1>10, <1>11 DEF Sending

Rows == [status : {"PENDING_REVIEW", "ACCEPTED", "REJECTED", "REVOKED"}, span : Spans]

\* A request has no credential, or one with its fields.
LEMMA CredentialTyped ==
  ASSUME AccessTypeOK
  PROVE  /\ None \notin Rows
         /\ \A r \in Requests : credentials[r] # None => credentials[r] \in Rows
         /\ \A status : With(status) \subseteq Requests
BY NoneIsNoCredential DEF AccessTypeOK, Rows, With

\* Nothing that was accepted and perhaps withdrawn becomes anything else.
StatusesKept ==
  \A q \in Requests : credentials[q] # None /\ credentials[q].status \in {"ACCEPTED", "REVOKED"} =>
    credentials'[q] # None /\ credentials'[q].status \in {"ACCEPTED", "REVOKED"}

LEMMA PassesStay ==
  ASSUME AccessTypeOK, PassesKnown, StatusesKept, UNCHANGED passes
  PROVE  PassesKnown'
<1>1. \A p \in Lookers : passes[p].at # "none" => passes[p].expired \in SUBSET Requests
  BY DEF AccessTypeOK, Pass, Looking
<1>2. \A p \in Lookers : passes[p].at = "judged" => passes[p].left \in SUBSET Requests
  BY DEF AccessTypeOK, Pass, Looking
<1> QED
  BY <1>1, <1>2 DEF PassesKnown, StatusesKept

LEMMA SetsTyped ==
  ASSUME AccessTypeOK, NEW created \in [Requests -> {None} \cup Rows],
         NEW state \in Readiness, Sets(created, state), passes' \in [Lookers -> Pass]
  PROVE  AccessTypeOK'
BY DEF AccessTypeOK, Rows, Sets

LEMMA CreateTyped ==
  ASSUME AccessTypeOK, PassesKnown, NEW r \in Requests, NEW span \in Spans, Create(r, span)
  PROVE  /\ AccessTypeOK' /\ PassesKnown' /\ credentials'[r] # None
         /\ \A q \in Requests : credentials[q] # None => credentials'[q] # None
<1>1. CASE credentials[r] # None
  BY <1>1 DEF Create, accessVars, AccessTypeOK, PassesKnown
<1>2. CASE credentials[r] = None
  <2> DEFINE row     == [status |-> "PENDING_REVIEW", span |-> span]
             created == [credentials EXCEPT ![r] = row]
  <2>1. row \in Rows /\ row # None
    BY CredentialTyped DEF Rows
  <2>2. credentials \in [Requests -> {None} \cup Rows]
    BY DEF AccessTypeOK, Rows
  <2> HIDE DEF row
  <2>3. /\ created \in [Requests -> {None} \cup Rows] /\ created[r] # None
        /\ \A q \in Requests : credentials[q] # None => created[q] = credentials[q]
    BY <1>2, <2>1, <2>2
  <2>4. Sets(created, "NEEDS_REVIEW") /\ passes' = passes
    BY <1>2 DEF Create, row
  <2> HIDE DEF created
  <2>5. AccessTypeOK' /\ credentials' = created
    BY <2>3, <2>4, SetsTyped DEF Readiness, Unresolved, Sets, AccessTypeOK
  <2>6. PassesKnown'
    BY <2>3, <2>4, <2>5, PassesStay DEF StatusesKept
  <2> QED
    BY <2>3, <2>5, <2>6
<1> QED
  BY <1>1, <1>2

\* A review, a withdrawal or an expiry gives credentials there are another status,
\* and sets the readiness.
Regraded(created) ==
  /\ created \in [Requests -> {None} \cup Rows]
  /\ \A q \in Requests : credentials[q] # None <=> created[q] # None

LEMMA StatusGiven ==
  ASSUME AccessTypeOK, NEW r \in Requests, credentials[r] # None,
         NEW status \in {"PENDING_REVIEW", "ACCEPTED", "REJECTED", "REVOKED"}
  PROVE  /\ Regraded([credentials EXCEPT ![r].status = status])
         /\ [credentials EXCEPT ![r].status = status][r] \in Rows
         /\ [credentials EXCEPT ![r].status = status][r].status = status
         /\ \A q \in Requests : q # r => [credentials EXCEPT ![r].status = status][q] = credentials[q]
<1> DEFINE row == [credentials[r] EXCEPT !.status = status]
<1>1. credentials[r] \in Rows /\ None \notin Rows
  BY CredentialTyped
<1>2. row \in Rows /\ row.status = status /\ row # None
  BY <1>1 DEF Rows
<1>3. [credentials EXCEPT ![r].status = status] = [credentials EXCEPT ![r] = row]
  OBVIOUS
<1>4. credentials \in [Requests -> {None} \cup Rows]
  BY DEF AccessTypeOK, Rows
<1> HIDE DEF row
<1> QED
  BY <1>1, <1>2, <1>3, <1>4 DEF Regraded

LEMMA ExpiredGiven ==
  ASSUME AccessTypeOK, NEW expired \in SUBSET Requests, \A r \in expired : credentials[r] # None
  PROVE  /\ Regraded(Withdrawn(expired))
         /\ \A q \in Requests : Withdrawn(expired)[q] \in Rows =>
              Withdrawn(expired)[q].status = IF q \in expired THEN "REVOKED" ELSE credentials[q].status
<1>1. \A r \in expired : r \in Requests /\ credentials[r] \in Rows
  BY CredentialTyped
<1>2. \A r \in expired : [credentials[r] EXCEPT !.status = "REVOKED"] \in Rows
  BY <1>1 DEF Rows
<1>3. credentials \in [Requests -> {None} \cup Rows] /\ None \notin Rows
  BY CredentialTyped DEF AccessTypeOK, Rows
<1> QED
  BY <1>1, <1>2, <1>3 DEF Regraded, Withdrawn

LEMMA RemainingTyped ==
  \A created, at : Remaining(created, at) \in {"RECEIVED", "NEEDS_REVIEW", "EXPIRED"}
BY DEF Remaining

\* The readiness that remains is RECEIVED only if an accepted credential remains.
LEMMA RemainingIsUsable ==
  ASSUME NEW created, Regraded(created), NEW at, Remaining(created, at) = "RECEIVED"
  PROVE  \E r \in Requests : created[r] # None /\ Usable(created[r], at)
<1> DEFINE some == {created[r] : r \in {q \in Requests : created[q] # None}}
<1>1. \E c \in some : Usable(c, at)
  BY DEF Remaining
<1> QED
  BY <1>1

LEMMA PassTyped ==
  ASSUME AccessTypeOK, PassesKnown, NEW p \in Lookers, FindExpired(p, now) \/ JudgeRest(p, now)
  PROVE  AccessTypeOK' /\ PassesKnown'
<1>1. UNCHANGED <<job, credentials>>
  BY DEF FindExpired, JudgeRest
<1>2. ASSUME NEW pass \in Pass, passes' = [passes EXCEPT ![p] = pass],
             pass.at # "none" =>
               \A r \in pass.expired :
                 credentials[r] # None /\ credentials[r].status \in {"ACCEPTED", "REVOKED"},
             pass.at = "judged" =>
               /\ pass.state = "RECEIVED" => pass.left # {}
               /\ \A r \in pass.left :
                    /\ r \notin pass.expired
                    /\ credentials[r] # None /\ credentials[r].status \in {"ACCEPTED", "REVOKED"}
      PROVE  AccessTypeOK' /\ PassesKnown'
  <2>1. AccessTypeOK'
    BY <1>1, <1>2 DEF AccessTypeOK
  <2>2. passes'[p] = pass /\ \A q \in Lookers : q # p => passes'[q] = passes[q]
    BY <1>2 DEF AccessTypeOK
  <2>3. PassesKnown'
    BY <1>1, <1>2, <2>2 DEF PassesKnown
  <2> QED
    BY <2>1, <2>3
<1>3. CASE FindExpired(p, now)
  <2> DEFINE pass == [at |-> "found", expired |-> Expired(now)]
  <2>1. pass \in Pass
    BY DEF Pass, Expired, With
  <2>2. \A r \in pass.expired : credentials[r] # None /\ credentials[r].status = "ACCEPTED"
    BY DEF Expired, With
  <2>3. passes' = [passes EXCEPT ![p] = pass] /\ pass.at = "found"
    BY <1>3 DEF FindExpired
  <2> HIDE DEF pass
  <2> QED
    BY <1>2, <2>1, <2>2, <2>3
<1>4. CASE JudgeRest(p, now)
  <2> DEFINE expired == passes[p].expired
             left == {r \in With("ACCEPTED") \ expired : Usable(credentials[r], now)}
             state == Remaining(Withdrawn(expired), now)
             pass == [at |-> "judged", expired |-> expired, left |-> left, state |-> state]
  <2>1. passes[p] \in Pass /\ passes[p].at = "found"
    BY <1>4 DEF JudgeRest, AccessTypeOK
  <2>2. expired \in SUBSET Requests
    BY <2>1 DEF Pass, Looking
  <2>3. /\ left \in SUBSET Requests
        /\ \A r \in left : r \notin expired /\ credentials[r] # None /\ credentials[r].status = "ACCEPTED"
    BY DEF With
  <2>4. \A r \in expired : credentials[r] # None /\ credentials[r].status \in {"ACCEPTED", "REVOKED"}
    BY <2>1 DEF PassesKnown
  <2>5. state = "RECEIVED" => left # {}
    <3> SUFFICES ASSUME state = "RECEIVED" PROVE left # {}
      OBVIOUS
    <3>1. PICK r \in Requests : /\ Withdrawn(expired)[r] # None
                                /\ Usable(Withdrawn(expired)[r], now)
      BY <2>2, <2>4, ExpiredGiven, RemainingIsUsable
    <3>2. Withdrawn(expired)[r].status = "ACCEPTED"
      BY <3>1 DEF Usable
    <3>3. r \notin expired /\ Withdrawn(expired)[r] = credentials[r]
      <4>1. r \in expired => Withdrawn(expired)[r].status = "REVOKED"
        <5>1. Regraded(Withdrawn(expired))
          BY <2>2, <2>4, ExpiredGiven
        <5>2. Withdrawn(expired)[r] \in Rows
          BY <3>1, <5>1 DEF Regraded
        <5> QED
          BY <2>2, <2>4, <5>2, ExpiredGiven
      <4> QED
        BY <3>2, <4>1 DEF Withdrawn
    <3>4. r \in left
      BY <3>1, <3>2, <3>3 DEF With
    <3> QED
      BY <3>4
  <2>6. state \in Readiness
    BY RemainingTyped DEF Readiness, Unresolved
  <2>7. passes' = [passes EXCEPT ![p] = pass]
    BY <1>4 DEF JudgeRest
  <2> HIDE DEF expired, left, state
  <2>8. /\ pass \in Pass /\ pass.at = "judged" /\ pass.expired = expired /\ pass.left = left
        /\ pass.state = state
    BY <2>2, <2>3, <2>6 DEF Pass
  <2> HIDE DEF pass
  <2> QED
    BY <1>2, <2>3, <2>4, <2>5, <2>7, <2>8
<1> QED
  BY <1>3, <1>4

\* What an operation on the credentials does to them.
LEMMA CredentialChanges ==
  ASSUME AccessTypeOK, PassesKnown, Credentials
  PROVE  /\ AccessTypeOK' /\ PassesKnown'
         /\ \A q \in Requests : credentials[q] # None => credentials'[q] # None
<1> DEFINE Good == /\ AccessTypeOK' /\ PassesKnown'
                   /\ \A q \in Requests : credentials[q] # None => credentials'[q] # None
<1>1. ASSUME NEW r \in Requests, credentials[r] # None,
             NEW status \in {"ACCEPTED", "REJECTED", "REVOKED"},
             credentials[r].status \in {"ACCEPTED", "REVOKED"} => status # "REJECTED",
             NEW state \in Readiness, Sets([credentials EXCEPT ![r].status = status], state),
             UNCHANGED passes
      PROVE  Good
  <2> DEFINE created == [credentials EXCEPT ![r].status = status]
  <2>0. status \in {"PENDING_REVIEW", "ACCEPTED", "REJECTED", "REVOKED"}
    OBVIOUS
  <2>1. /\ Regraded(created) /\ created[r] \in Rows /\ created[r].status = status
        /\ \A q \in Requests : q # r => created[q] = credentials[q]
    <3>1. Regraded(created)
      BY <1>1, <2>0, StatusGiven
    <3>2. created[r] \in Rows /\ created[r].status = status
      <4>1. credentials[r] \in Rows
        BY <1>1, CredentialTyped
      <4>2. created[r] = [credentials[r] EXCEPT !.status = status]
        BY DEF AccessTypeOK
      <4> HIDE DEF created
      <4> QED
        BY <2>0, <4>1, <4>2 DEF Rows
    <3>3. \A q \in Requests : q # r => created[q] = credentials[q]
      BY DEF AccessTypeOK
    <3> QED
      BY <3>1, <3>2, <3>3
  <2>2. Sets(created, state)
    BY <1>1
  <2> HIDE DEF created
  <2>3. credentials' = created /\ created[r] # None
    BY <1>1, <2>1, <2>2 DEF Sets, Regraded
  <2>4. StatusesKept
    BY <1>1, <2>1, <2>3 DEF StatusesKept
  <2>5. AccessTypeOK'
    BY <1>1, <2>1, <2>2, SetsTyped DEF Regraded, AccessTypeOK
  <2> QED
    BY <1>1, <2>1, <2>3, <2>4, <2>5, PassesStay DEF Regraded
<1> HIDE DEF Good
<1>2. \A created, at : Remaining(created, at) \in Readiness
  BY RemainingTyped DEF Readiness, Unresolved
<1>3. ASSUME NEW r \in Requests \ Replies, NEW span \in Spans, Create(r, span)
      PROVE  Good
  BY <1>3, CreateTyped DEF Good
<1>4. ASSUME NEW r \in Requests, Accept(r, now)
      PROVE  Good
  <2>1. credentials[r] # None /\ "RECEIVED" \in Readiness
    BY <1>4 DEF Accept, With, Readiness
  <2> QED
    BY <1>1, <1>4, <2>1 DEF Accept
<1>5. ASSUME NEW r \in Requests, Reject(r, now)
      PROVE  Good
  <2> DEFINE state == Remaining([credentials EXCEPT ![r].status = "REJECTED"], now)
  <2>1. /\ credentials[r] # None /\ credentials[r].status = "PENDING_REVIEW"
        /\ Sets([credentials EXCEPT ![r].status = "REJECTED"], state) /\ UNCHANGED passes
    BY <1>5 DEF Reject, With
  <2>2. state \in Readiness
    BY <1>2
  <2> HIDE DEF state
  <2> QED
    BY <1>1, <2>1, <2>2
<1>6. ASSUME NEW r \in Requests, Revoke(r, now)
      PROVE  Good
  <2> DEFINE state == Remaining([credentials EXCEPT ![r].status = "REVOKED"], now)
  <2>1. /\ credentials[r] # None
        /\ Sets([credentials EXCEPT ![r].status = "REVOKED"], state) /\ UNCHANGED passes
    BY <1>6 DEF Revoke
  <2>2. state \in Readiness
    BY <1>2
  <2> HIDE DEF state
  <2> QED
    BY <1>1, <2>1, <2>2
<1>7. ASSUME NEW p \in Lookers, Expire(p)
      PROVE  Good
  <2> DEFINE expired == passes[p].expired
             created == Withdrawn(expired)
  <2>1. passes[p].at = "judged" /\ passes[p] \in Pass
    BY <1>7 DEF Expire, AccessTypeOK
  <2>2. expired \in SUBSET Requests /\ passes[p].state \in Readiness
    BY <2>1 DEF Pass, Looking
  <2>3. \A r \in expired : credentials[r] # None /\ credentials[r].status \in {"ACCEPTED", "REVOKED"}
    BY <2>1 DEF PassesKnown
  <2>4. /\ Regraded(created)
        /\ \A q \in Requests : created[q] \in Rows =>
             created[q].status = IF q \in expired THEN "REVOKED" ELSE credentials[q].status
    BY <2>2, <2>3, ExpiredGiven
  <2>5. Sets(created, passes[p].state) /\ passes' = [passes EXCEPT ![p] = Looking]
    BY <1>7 DEF Expire
  <2>6. passes' \in [Lookers -> Pass]
    BY <2>5 DEF AccessTypeOK, Pass
  <2> HIDE DEF created, expired
  <2>7. AccessTypeOK' /\ credentials' = created
    BY <2>2, <2>4, <2>5, <2>6, SetsTyped DEF Regraded, Sets
  <2>8. StatusesKept
    BY <2>4, <2>7 DEF StatusesKept, Regraded
  <2>9. /\ passes'[p].at = "none" /\ \A q \in Lookers : q # p => passes'[q] = passes[q]
    BY <2>5 DEF AccessTypeOK, Looking
  <2>10. \A q \in Lookers : passes[q].at # "none" => passes[q].expired \in SUBSET Requests
    BY DEF AccessTypeOK, Pass, Looking
  <2>11. \A q \in Lookers : passes[q].at = "judged" => passes[q].left \in SUBSET Requests
    BY DEF AccessTypeOK, Pass, Looking
  <2>12. PassesKnown'
    BY <2>8, <2>9, <2>10, <2>11 DEF PassesKnown, StatusesKept
  <2> QED
    BY <2>4, <2>7, <2>12 DEF Regraded, Good
<1>8. ASSUME NEW state \in Readiness, UpdateReadiness(state)
      PROVE  Good
  BY <1>8 DEF UpdateReadiness, AccessTypeOK, PassesKnown, Good
<1>9. ASSUME EditJob
       PROVE  Good
  BY <1>9 DEF EditJob, AccessTypeOK, PassesKnown, Good
<1>10. ASSUME NEW p \in Lookers, FindExpired(p, now) \/ JudgeRest(p, now)
       PROVE  Good
  BY <1>10, PassTyped DEF FindExpired, JudgeRest, Good
<1>11. Good
  BY <1>3, <1>4, <1>5, <1>6, <1>7, <1>8, <1>9, <1>10 DEF Credentials
<1> QED
  BY <1>11 DEF Good

\* What an assignment to a recovery leaves of it, and of the others.
LEMMA RecoveryWritten ==
  ASSUME recovery \in [Recoveries -> Recovery], NEW m \in Recoveries,
         NEW status \in {"NONE", "PENDING_SEND", "SENT", "SEND_FAILED", "RESPONSE_REQUIRES_REVIEW", "CLOSED"},
         \/ recovery' = [recovery EXCEPT ![m].status = status]
         \/ \E at \in 0..MaxTime :
              recovery' = [recovery EXCEPT ![m].status = status, ![m].sentAt = at]
         \/ \E reply \in Replies :
              recovery' = [recovery EXCEPT ![m].status = status, ![m].response = reply]
  PROVE  /\ recovery' \in [Recoveries -> Recovery]
         /\ recovery'[m].status = status
         /\ \A n \in Recoveries : n # m => recovery'[n] = recovery[n]
<1>1. recovery[m] \in Recovery
  OBVIOUS
<1>2. ASSUME NEW row \in Recovery, row.status = status, recovery' = [recovery EXCEPT ![m] = row]
      PROVE  /\ recovery' \in [Recoveries -> Recovery]
             /\ recovery'[m].status = status
             /\ \A n \in Recoveries : n # m => recovery'[n] = recovery[n]
  BY <1>2
<1>3. CASE recovery' = [recovery EXCEPT ![m].status = status]
  <2> DEFINE row == [recovery[m] EXCEPT !.status = status]
  <2>1. row \in Recovery /\ row.status = status
    BY <1>1 DEF Recovery
  <2>2. recovery' = [recovery EXCEPT ![m] = row]
    BY <1>3
  <2> HIDE DEF row
  <2> QED
    BY <1>2, <2>1, <2>2
<1>4. ASSUME NEW at \in 0..MaxTime,
             recovery' = [recovery EXCEPT ![m].status = status, ![m].sentAt = at]
      PROVE  /\ recovery' \in [Recoveries -> Recovery]
             /\ recovery'[m].status = status
             /\ \A n \in Recoveries : n # m => recovery'[n] = recovery[n]
  <2> DEFINE row == [recovery[m] EXCEPT !.status = status, !.sentAt = at]
  <2>1. at \in -1..MaxTime
    BY DeliveryBounds
  <2>2. row \in Recovery /\ row.status = status
    BY <1>1, <2>1 DEF Recovery
  <2>3. recovery' = [recovery EXCEPT ![m] = row]
    BY <1>4
  <2> HIDE DEF row
  <2> QED
    BY <1>2, <2>2, <2>3
<1>5. ASSUME NEW reply \in Replies,
             recovery' = [recovery EXCEPT ![m].status = status, ![m].response = reply]
      PROVE  /\ recovery' \in [Recoveries -> Recovery]
             /\ recovery'[m].status = status
             /\ \A n \in Recoveries : n # m => recovery'[n] = recovery[n]
  <2> DEFINE row == [recovery[m] EXCEPT !.status = status, !.response = reply]
  <2>1. row \in Recovery /\ row.status = status
    BY <1>1 DEF Recovery
  <2>2. recovery' = [recovery EXCEPT ![m] = row]
    BY <1>5
  <2> HIDE DEF row
  <2> QED
    BY <1>2, <2>1, <2>2
<1> QED
  BY <1>3, <1>4, <1>5

\* What a request that has read the Work Order does: it stores the recovery, or finds
\* it stored.
Initiated(h, m) ==
  /\ m = work[h].m /\ At(h, "initiate") /\ recovery[m].status = "NONE"
  /\ Store(m)
  /\ recovery' = [recovery EXCEPT ![m].status = "PENDING_SEND"]
  /\ Goes(h, [pc |-> "ready", m |-> m])

FoundThere(h) == UNCHANGED <<outbox, recovery>> /\ Goes(h, Idle)

LEMMA InitiateNewDoes ==
  ASSUME TypeInv, NEW h \in Handlers, InitiateNew(h)
  PROVE  /\ UNCHANGED <<now, channel, letters, inbound, crashes, credentials, passes>>
         /\ \E unchanged \in SUBSET Readers : job' = [job EXCEPT !.unchanged = unchanged]
         /\ (\E m \in Recoveries : Initiated(h, m)) \/ FoundThere(h)
<1>1. work[h].m \in Recoveries /\ work[h].m \in Readers
  BY TypesAtHand, Doing, TheyRead DEF InitiateNew, At
<1>2. job.unchanged \in SUBSET Readers
  BY TypesAtHand DEF AccessTypeOK
<1>3. \E unchanged \in SUBSET Readers : job' = [job EXCEPT !.unchanged = unchanged]
  <2>1. CASE recovery[work[h].m].status = "NONE" /\ h \in job.unchanged
    BY <1>1, <1>2, <2>1 DEF InitiateNew
  <2>2. CASE ~(recovery[work[h].m].status = "NONE" /\ h \in job.unchanged)
    BY <1>2, <2>2 DEF InitiateNew
  <2> QED
    BY <2>1, <2>2
<1>4. (\E m \in Recoveries : Initiated(h, m)) \/ FoundThere(h)
  BY <1>1 DEF InitiateNew, Initiated, FoundThere
<1> QED
  BY <1>3, <1>4 DEF InitiateNew

LEMMA RecoveringTyped ==
  ASSUME TypeInv, NEW h \in Handlers, Recovering(h)
  PROVE  TypeInv'
<1>1. UNCHANGED <<now, channel, letters, inbound, crashes>>
  BY DEF Recovering, ReadToInitiate, InitiateNew, InitiateAgain, Register, FinishDelivery, ReadRecovery,
         WriteRecovery, CreateCandidate, Close
<1>2. ASSUME NEW step \in Step, Goes(h, step), outbox' \in [Messages -> Outgoing],
             AccessTypeOK', PassesKnown', recovery' \in [Recoveries -> Recovery],
             \A m \in Recoveries : recovery'[m].status = "RESPONSE_REQUIRES_REVIEW" =>
               recovery'[m] = recovery[m]
      PROVE  TypeInv'
  <2>1. AnswersKnown'
    BY <1>1, <1>2 DEF TypeInv, AnswersKnown
  <2>2. work' \in [Handlers -> Step]
    BY <1>2, TypesAtHand, OneGoes
  <2> QED
    BY <1>1, <1>2, <2>1, <2>2 DEF TypeInv, TypeOK, DeliveryTypeOK, RecoveryTypeOK
<1>3. UNCHANGED accessVars => AccessTypeOK' /\ PassesKnown'
  BY TypesAtHand DEF accessVars, AccessTypeOK, PassesKnown
<1>13. ASSUME NEW unchanged \in SUBSET Readers, job' = [job EXCEPT !.unchanged = unchanged],
              UNCHANGED <<credentials, passes>>
       PROVE  AccessTypeOK' /\ PassesKnown'
  BY <1>13, TypesAtHand DEF AccessTypeOK, PassesKnown
<1>14. InitiateNew(h) => AccessTypeOK' /\ PassesKnown'
  BY <1>13, InitiateNewDoes
<1>15. ASSUME NEW m \in Recoveries, ReadToInitiate(h, m)
       PROVE  TypeInv'
  <2>1. [pc |-> "initiate", m |-> m] \in Step
    BY StepsTyped
  <2>2. job.unchanged \cup {h} \in SUBSET Readers
    BY TypesAtHand, TheyRead DEF AccessTypeOK
  <2>3. AccessTypeOK' /\ PassesKnown'
    BY <1>13, <1>15, <2>2 DEF ReadToInitiate
  <2> QED
    BY <1>2, <1>15, <2>1, <2>3, TypesAtHand DEF ReadToInitiate
<1>16. CASE InitiateNew(h) /\ FoundThere(h)
  BY <1>2, <1>14, <1>16, StepsTyped, TypesAtHand DEF FoundThere
<1>4. ASSUME InitiateNew(h), NEW m \in Recoveries, Initiated(h, m)
      PROVE  TypeInv'
  <2>1. m \in Messages
    BY RecoveriesAreMessages
  <2>2. [pc |-> "ready", m |-> m] \in Step
    BY <2>1, StepsTyped
  <2>3. <<[status |-> "PENDING", id |-> 0, at |-> now]>> \in Seq(Events)
    BY TypesAtHand, DeliveryBounds DEF Events, Ids
  <2>4. outbox' \in [Messages -> Outgoing]
    BY <1>4, <2>1, <2>3, TypesAtHand, EventsWritten DEF Initiated, Store
  <2>5. AccessTypeOK' /\ PassesKnown'
    BY <1>4, <1>14
  <2>6. recovery' = [recovery EXCEPT ![m].status = "PENDING_SEND"]
    BY <1>4 DEF Initiated
  <2>7. /\ recovery' \in [Recoveries -> Recovery] /\ recovery'[m].status = "PENDING_SEND"
        /\ \A n \in Recoveries : n # m => recovery'[n] = recovery[n]
    BY <2>6, TypesAtHand, RecoveryWritten
  <2> QED
    BY <1>2, <1>4, <2>2, <2>4, <2>5, <2>7 DEF Initiated
<1>5. ASSUME NEW m \in Recoveries, InitiateAgain(h, m)
      PROVE  TypeInv'
  <2>1. [pc |-> "ready", m |-> m] \in Step
    BY StepsTyped, RecoveriesAreMessages
  <2> QED
    BY <1>2, <1>3, <1>5, <2>1, TypesAtHand DEF InitiateAgain
<1>6. ASSUME NEW m \in Recoveries, Register(h, m)
      PROVE  TypeInv'
  <2>1. recovery[m].response \in Replies
    BY <1>6 DEF Register, TypeInv, AnswersKnown
  <2>2. [pc |-> "create", m |-> m, reply |-> recovery[m].response] \in Step
    BY <2>1, StepsTyped
  <2> QED
    BY <1>2, <1>3, <1>6, <2>2, TypesAtHand DEF Register
<1>7. CASE FinishDelivery(h)
  <2> DEFINE m == work[h].m
  <2>1. m \in Recoveries
    BY <1>7 DEF FinishDelivery
  <2>2. CASE At(h, "sent") /\ recovery' = [recovery EXCEPT ![m].status = "SENT", ![m].sentAt = work[h].at]
    <3>1. work[h].at \in 0..MaxTime
      BY <2>2, TypesAtHand, Doing DEF At
    <3>2. /\ recovery' \in [Recoveries -> Recovery] /\ recovery'[m].status = "SENT"
          /\ \A n \in Recoveries : n # m => recovery'[n] = recovery[n]
      BY <2>1, <2>2, <3>1, TypesAtHand, RecoveryWritten
    <3> QED
      BY <1>2, <1>3, <1>7, <3>2, StepsTyped, TypesAtHand DEF FinishDelivery
  <2>3. CASE recovery' = [recovery EXCEPT ![m].status = IF Latest(m).status = "FAILED" THEN "SEND_FAILED" ELSE @]
    <3>1. CASE Latest(m).status = "FAILED"
      <4>1. recovery' = [recovery EXCEPT ![m].status = "SEND_FAILED"]
        BY <2>3, <3>1
      <4>2. /\ recovery' \in [Recoveries -> Recovery] /\ recovery'[m].status = "SEND_FAILED"
            /\ \A n \in Recoveries : n # m => recovery'[n] = recovery[n]
        BY <2>1, <4>1, TypesAtHand, RecoveryWritten
      <4> QED
        BY <1>2, <1>3, <1>7, <4>2, StepsTyped, TypesAtHand DEF FinishDelivery
    <3>2. CASE Latest(m).status # "FAILED"
      <4>1. recovery' = recovery
        BY <2>1, <2>3, <3>2, TypesAtHand DEF Recovery
      <4> QED
        BY <1>2, <1>3, <1>7, <4>1, StepsTyped, TypesAtHand DEF FinishDelivery
    <3> QED
      BY <3>1, <3>2
  <2> QED
    BY <1>7, <2>2, <2>3 DEF FinishDelivery
<1>8. CASE ReadRecovery(h)
  <2> DEFINE m == work[h].m
  <2>1. work[h].at \in 0..MaxTime /\ work[h].status \in Reported
    BY <1>8, TypesAtHand, Doing DEF ReadRecovery, At
  <2>2. m \in Recoveries => recovery[m].sentAt \in -1..MaxTime
    BY TypesAtHand DEF Recovery
  <2>3. \A at \in 0..MaxTime : m \in Recoveries =>
          [pc |-> "write", m |-> m, status |-> work[h].status, at |-> at] \in Step
    BY <2>1, StepsTyped, RecoveriesAreMessages
  <2>4. m \in Recoveries => (IF recovery[m].sentAt >= 0 THEN recovery[m].sentAt ELSE work[h].at) \in 0..MaxTime
    BY <2>1, <2>2, DeliveryBounds
  <2>5. \E step \in Step : Goes(h, step)
    BY <1>8, <2>3, <2>4, StepsTyped DEF ReadRecovery
  <2> QED
    BY <1>2, <1>3, <1>8, <2>5, TypesAtHand DEF ReadRecovery
<1>9. CASE WriteRecovery(h)
  <2> DEFINE m == work[h].m
  <2>1. work[h].at \in 0..MaxTime /\ m \in Recoveries
    BY <1>9, TypesAtHand, Doing DEF WriteRecovery, At
  <2>2. PICK status \in {"SENT", "SEND_FAILED"} :
          \/ recovery' = [recovery EXCEPT ![m].status = status]
          \/ recovery' = [recovery EXCEPT ![m].status = status, ![m].sentAt = work[h].at]
    BY <1>9 DEF WriteRecovery
  <2>3. /\ recovery' \in [Recoveries -> Recovery] /\ recovery'[m].status = status
        /\ \A n \in Recoveries : n # m => recovery'[n] = recovery[n]
    BY <1>9, <2>1, <2>2, TypesAtHand, RecoveryWritten
  <2> QED
    BY <1>2, <1>3, <1>9, <2>3, StepsTyped, TypesAtHand DEF WriteRecovery
<1>10. CASE CreateCandidate(h)
  <2>1. work[h].m \in Recoveries /\ work[h].reply \in Requests
    BY <1>10, TypesAtHand, Doing, RecoveriesAreMessages DEF CreateCandidate, At
  <2>2. AccessTypeOK' /\ PassesKnown'
    BY <1>3, <1>10, <2>1, TypesAtHand, CreateTyped DEF CreateCandidate
  <2>3. \E step \in Step : Goes(h, step)
    BY <1>10, <2>1, StepsTyped DEF CreateCandidate
  <2> QED
    BY <1>2, <1>10, <2>2, <2>3, TypesAtHand DEF CreateCandidate
<1>11. CASE Close(h)
  <2> DEFINE m == work[h].m
  <2>1. m \in Recoveries
    BY <1>11, TypesAtHand, Doing DEF Close, At
  <2>2. recovery' = [recovery EXCEPT ![m].status = "CLOSED"]
    BY <1>11 DEF Close
  <2>3. /\ recovery' \in [Recoveries -> Recovery] /\ recovery'[m].status = "CLOSED"
        /\ \A n \in Recoveries : n # m => recovery'[n] = recovery[n]
    BY <2>1, <2>2, TypesAtHand, RecoveryWritten
  <2> QED
    BY <1>2, <1>3, <1>11, <2>3, StepsTyped, TypesAtHand DEF Close
<1>17. InitiateNew(h) => TypeInv'
  BY <1>4, <1>16, InitiateNewDoes
<1> QED
  BY <1>5, <1>6, <1>7, <1>8, <1>9, <1>10, <1>11, <1>15, <1>17 DEF Recovering

\* The steps that are nobody's, or the Customer's.
LEMMA OthersTyped ==
  ASSUME TypeInv,
         \/ \E l \in letters : Inbound(l)
         \/ (CustomerWrites \/ Tick) /\ UNCHANGED <<accessVars, recovery>>
         \/ Credentials
         \/ UNCHANGED recoveryVars
  PROVE  TypeInv'
<1>1. ASSUME NEW l \in letters, Inbound(l)
      PROVE  TypeInv'
  <2>1. l \in Letters /\ l.key \in Replies
    BY TypesAtHand DEF DeliveryTypeOK, TypeInv, AnswersKnown
  <2>2. recovery' \in [Recoveries -> Recovery]
        /\ \A n \in Recoveries : recovery'[n] = recovery[n] \/ recovery'[n].response = l.key
    <3>1. CASE recovery' = recovery
      BY <3>1, TypesAtHand
    <3>2. CASE \E n \in Recoveries : recovery' =
                 [recovery EXCEPT ![n].status = "RESPONSE_REQUIRES_REVIEW", ![n].response = l.key]
      <4>1. PICK n \in Recoveries : recovery' =
                 [recovery EXCEPT ![n].status = "RESPONSE_REQUIRES_REVIEW", ![n].response = l.key]
        BY <3>2
      <4>2. recovery'[n].response = l.key
        BY <4>1, TypesAtHand DEF Recovery
      <4>3. /\ recovery' \in [Recoveries -> Recovery]
            /\ \A k \in Recoveries : k # n => recovery'[k] = recovery[k]
        BY <2>1, <4>1, TypesAtHand, RecoveryWritten
      <4> QED
        BY <4>2, <4>3
    <3> QED
      BY <1>1, <3>1, <3>2 DEF Inbound
  <2>3. AnswersKnown'
    BY <1>1, <2>1, <2>2 DEF Inbound, Persist, TypeInv, AnswersKnown
  <2> QED
    BY <1>1, <2>1, <2>2, <2>3 DEF Inbound, Persist, accessVars, TypeInv, TypeOK, DeliveryTypeOK,
      AccessTypeOK, RecoveryTypeOK, PassesKnown
<1>2. CASE CustomerWrites /\ UNCHANGED <<accessVars, recovery>>
  <2>1. PICK key \in Replies : letters' = letters \cup {[key |-> key, at |-> now]}
    BY <1>2 DEF CustomerWrites
  <2>2. [key |-> key, at |-> now] \in Letters
    BY TypesAtHand DEF Letters
  <2>3. AnswersKnown'
    BY <1>2, <2>1 DEF TypeInv, AnswersKnown
  <2> QED
    BY <1>2, <2>1, <2>2, <2>3 DEF CustomerWrites, accessVars, TypeInv, TypeOK, DeliveryTypeOK,
      AccessTypeOK, RecoveryTypeOK, PassesKnown
<1>3. CASE Tick /\ UNCHANGED <<accessVars, recovery>>
  <2>1. now' \in 0..MaxTime
    BY <1>3, TypesAtHand, DeliveryBounds DEF Tick
  <2> QED
    BY <1>3, <2>1 DEF Tick, accessVars, TypeInv, TypeOK, DeliveryTypeOK, AccessTypeOK, RecoveryTypeOK,
      AnswersKnown, PassesKnown
<1>4. CASE Credentials
  <2>1. AccessTypeOK' /\ PassesKnown'
    BY <1>4, TypesAtHand, CredentialChanges
  <2> QED
    BY <1>4, <2>1 DEF Credentials, deliveryVars, TypeInv, TypeOK, DeliveryTypeOK, RecoveryTypeOK,
      AnswersKnown
<1>5. CASE UNCHANGED recoveryVars
  BY <1>5 DEF recoveryVars, deliveryVars, accessVars, TypeInv, TypeOK, DeliveryTypeOK, AccessTypeOK,
    RecoveryTypeOK, AnswersKnown, PassesKnown
<1> QED
  BY <1>1, <1>2, <1>3, <1>4, <1>5

\* The types of the state: the conversation, the messages and the provider, the
\* Work Order and its credentials, the recoveries, and what every request and
\* webhook in progress has read; and that a recovery under review names an answer.
THEOREM TypesHold == Spec => []TypeInv
<1>1. Init => TypeInv
  <2> SUFFICES ASSUME Init PROVE TypeInv
    OBVIOUS
  <2>1. DeliveryTypeOK
    <3>1. [events |-> <<>>, calls |-> 0, taken |-> {}] \in Outgoing
      BY DeliveryBounds DEF Outgoing
    <3>2. [key |-> 0, at |-> 0] \in Letters
      BY DeliveryBounds DEF Letters
    <3> QED
      BY <3>1, <3>2, DeliveryBounds DEF Init, DeliveryInit, DeliveryTypeOK
  <2>2. AccessTypeOK
    BY DEF Init, AccessInit, AccessTypeOK, Readiness, Unresolved, Pass
  <2>3. RecoveryTypeOK
    BY DeliveryBounds, StepsTyped DEF Init, DeliveryInit, RecoveryTypeOK, Recovery
  <2> QED
    BY <2>1, <2>2, <2>3 DEF Init, DeliveryInit, AccessInit, TypeInv, TypeOK, AnswersKnown, PassesKnown, Looking
<1>2. TypeInv /\ [Next]_recoveryVars => TypeInv'
  BY SendingTyped, RecoveringTyped, OthersTyped DEF Next
<1> QED
  BY <1>1, <1>2, PTL DEF Spec

-----------------------------------------------------------------------------
(* What counts as sent was taken *)

HasAccepted(events) == \E i \in DOMAIN events : events[i].status = "ACCEPTED"

\* A handler that is here has heard, or read, that the message was taken.
Told(step) ==
  \/ step.pc \in {"sent", "reconcile", "write", "create", "close"}
  \/ step.pc = "answered" /\ step.answer = "ok"

\* Every word of an acceptance is backed by the provider: the one on record, the
\* one a handler carries to the recovery, and the one the recovery has.
TakenInv ==
  /\ \A m \in Messages : HasAccepted(outbox[m].events) => outbox[m].taken # {}
  /\ \A h \in Handlers : Told(work[h]) => outbox[work[h].m].taken # {}
  /\ SentMeansTaken

LEMMA OneMoreAccepts ==
  ASSUME NEW s \in Seq(Events), NEW event \in Events, HasAccepted(Append(s, event))
  PROVE  HasAccepted(s) \/ event.status = "ACCEPTED"
<1> DEFINE new == Append(s, event)
<1>1. /\ DOMAIN new = DOMAIN s \cup {Len(s) + 1}
      /\ \A i \in DOMAIN s : new[i] = s[i]
      /\ new[Len(s) + 1] = event
  BY OneMoreAtTheEnd
<1>2. HasAccepted(new)
  OBVIOUS
<1> HIDE DEF new
<1>3. PICK i \in DOMAIN new : new[i].status = "ACCEPTED"
  BY <1>2 DEF HasAccepted
<1>4. CASE i \in DOMAIN s
  BY <1>1, <1>3, <1>4 DEF HasAccepted
<1>5. CASE i = Len(s) + 1
  BY <1>1, <1>3, <1>5
<1> QED
  BY <1>1, <1>3, <1>4, <1>5

LEMMA AppendedAccepts ==
  ASSUME DeliveryTypeOK, NEW m \in Messages, NEW id \in Ids,
         NEW status \in {"PENDING", "ACCEPTED", "FAILED"},
         HasAccepted(Appended(m, status, id))
  PROVE  HasAccepted(outbox[m].events) \/ status = "ACCEPTED"
<1> DEFINE event == [status |-> status, id |-> id, at |-> now]
<1>1. event \in Events /\ event.status = status
  BY DEF DeliveryTypeOK, Events
<1> HIDE DEF event
<1>2. Appended(m, status, id) \in {outbox[m].events, Append(outbox[m].events, event)}
  BY DEF Appended, event
<1>3. outbox[m].events \in Seq(Events)
  BY MessageTyped
<1> QED
  BY <1>1, <1>2, <1>3, OneMoreAccepts

LEMMA AnotherPendingAccepts ==
  ASSUME DeliveryTypeOK, NEW m \in Messages, HasAccepted(WithAnotherPending(m))
  PROVE  HasAccepted(outbox[m].events)
<1> DEFINE event == [status |-> "PENDING", id |-> 0, at |-> now]
<1>1. event \in Events /\ event.status = "PENDING"
  BY DeliveryBounds DEF DeliveryTypeOK, Events, Ids
<1> HIDE DEF event
<1>2. WithAnotherPending(m) \in {outbox[m].events, Append(outbox[m].events, event)}
  BY DEF WithAnotherPending, event
<1>3. outbox[m].events \in Seq(Events)
  BY MessageTyped
<1> QED
  BY <1>1, <1>2, <1>3, OneMoreAccepts

LEMMA FirstIsPending ==
  /\ DOMAIN <<[status |-> "PENDING", id |-> 0, at |-> now]>> = {1}
  /\ <<[status |-> "PENDING", id |-> 0, at |-> now]>>[1].status = "PENDING"
  /\ ~HasAccepted(<<[status |-> "PENDING", id |-> 0, at |-> now]>>)
BY DEF HasAccepted

LEMMA SendingTaken ==
  ASSUME TypeInv, TakenInv, NEW h \in Handlers, Sending(h)
  PROVE  TakenInv'
<1>1. UNCHANGED recovery
  BY DEF Sending
<1>2. ASSUME \A n \in Messages : outbox[n].taken \subseteq outbox'[n].taken,
             \A n \in Messages : HasAccepted(outbox'[n].events) => outbox'[n].taken # {},
             NEW step \in Step, Goes(h, step), Told(step) => outbox'[step.m].taken # {}
      PROVE  TakenInv'
  <2>1. \A g \in Handlers : g # h /\ Told(work[g]) => work[g].m \in Messages
    BY TypesAtHand, Doing DEF Told, Idle
  <2>2. \A g \in Handlers : Told(work'[g]) => outbox'[work'[g].m].taken # {}
    <3>1. work'[h] = step /\ \A g \in Handlers : g # h => work'[g] = work[g]
      BY <1>2, TypesAtHand, OneGoes
    <3>2. \A g \in Handlers : Told(work[g]) => outbox[work[g].m].taken # {}
      BY DEF TakenInv
    <3> QED
      BY <1>2, <2>1, <3>1, <3>2
  <2>3. SentMeansTaken'
    BY <1>1, <1>2, RecoveriesAreMessages DEF TakenInv, SentMeansTaken
  <2> QED
    BY <1>2, <2>2, <2>3 DEF TakenInv
<1>3. ASSUME UNCHANGED outbox, NEW step \in Step, Goes(h, step),
             Told(step) => outbox[step.m].taken # {}
      PROVE  TakenInv'
  BY <1>2, <1>3 DEF TakenInv
<1>4. ASSUME NEW n \in Messages, NEW e \in Seq(Events), outbox' = [outbox EXCEPT ![n].events = e],
             HasAccepted(e) => outbox[n].taken # {},
             NEW step \in Step, Goes(h, step), Told(step) => outbox[n].taken # {} /\ step.m = n
      PROVE  TakenInv'
  <2>1. \A k \in Messages : outbox'[k].taken = outbox[k].taken
    BY <1>4, TypesAtHand, EventsWritten
  <2>2. outbox'[n].events = e /\ \A k \in Messages : k # n => outbox'[k] = outbox[k]
    BY <1>4, TypesAtHand, EventsWritten
  <2>3. \A k \in Messages : HasAccepted(outbox'[k].events) => outbox'[k].taken # {}
    BY <1>4, <2>1, <2>2 DEF TakenInv
  <2> QED
    BY <1>2, <1>4, <2>1, <2>3
<1> DEFINE m == work[h].m
<1>5. work[h] # Idle => m \in Messages
  BY TypesAtHand, Doing
<1>6. m \in Messages /\ Accepted(m) # {} => HasAccepted(outbox[m].events)
  BY DEF Accepted, Places, HasAccepted
<1> HIDE DEF m
<1>7. ASSUME m \in Messages
      PROVE  /\ Thrown(m) \in Step /\ ~Told(Thrown(m))
             /\ [pc |-> "calling", m |-> m] \in Step /\ ~Told([pc |-> "calling", m |-> m])
             /\ \A at : Sent(m, at).m = m
             /\ Accepted(m) # {} => Sent(m, AcceptedAt(m)) \in Step
  BY <1>7, TypesAtHand, AcceptedAtTyped, StepsTyped DEF Told, Thrown, Sent
<1>8. Idle \in Step /\ ~Told(Idle)
  BY StepsTyped DEF Told, Idle
<1>9. CASE ReadMessage(h)
  <2>1. m \in Messages
    BY <1>5, <1>9 DEF ReadMessage, At, Idle
  <2>2. \E step \in Step : Goes(h, step) /\ (Told(step) => outbox[step.m].taken # {})
    BY <1>6, <1>7, <1>9, <2>1 DEF ReadMessage, m, TakenInv
  <2> QED
    BY <1>3, <1>9, <2>2 DEF ReadMessage
<1>10. CASE Call(h)
  <2>1. m \in Messages
    BY <1>5, <1>10 DEF Call, At, Idle
  <2>2. PICK taken \in BOOLEAN : \E answer \in Answers(taken) :
          /\ outbox' = [outbox EXCEPT ![m].calls = outbox[m].calls + 1,
                                      ![m].taken = IF taken THEN @ \cup {outbox[m].calls + 1} ELSE @]
          /\ Goes(h, [pc |-> "answered", m |-> m, answer |-> answer, id |-> outbox[m].calls + 1])
    BY <1>10 DEF Call, m
  <2>3. outbox[m].calls < MaxCalls
    BY <1>10 DEF Call, m
  <2>4. /\ outbox[m].calls + 1 \in Ids
        /\ \A n \in Messages : outbox'[n].events = outbox[n].events
        /\ \A n \in Messages : n # m => outbox'[n] = outbox[n]
        /\ outbox'[m].taken = IF taken THEN outbox[m].taken \cup {outbox[m].calls + 1} ELSE outbox[m].taken
    BY <2>1, <2>2, <2>3, TypesAtHand, CallCounted
  <2>5. PICK answer \in Answers(taken) :
          Goes(h, [pc |-> "answered", m |-> m, answer |-> answer, id |-> outbox[m].calls + 1])
    BY <2>2
  <2> DEFINE step == [pc |-> "answered", m |-> m, answer |-> answer, id |-> outbox[m].calls + 1]
  <2>6. step \in Step /\ step.m = m /\ (Told(step) => answer = "ok")
    BY <2>1, <2>4, <2>5, StepsTyped DEF Answers, Told
  <2>7. Told(step) => outbox'[step.m].taken # {}
    BY <2>4, <2>5, <2>6 DEF Answers
  <2>8. \A n \in Messages : outbox[n].taken \subseteq outbox'[n].taken
    BY <2>4
  <2>9. \A n \in Messages : HasAccepted(outbox'[n].events) => outbox'[n].taken # {}
    BY <2>4, <2>8 DEF TakenInv
  <2> HIDE DEF step
  <2> QED
    BY <1>2, <2>5, <2>6, <2>7, <2>8, <2>9 DEF step
<1>11. CASE Record(h)
  <2>1. m \in Messages /\ work[h].id \in Ids
    BY <1>5, <1>11, TypesAtHand, Doing DEF Record, At, Idle
  <2>2. 0 \in Ids
    BY DeliveryBounds DEF Ids
  <2>3. /\ Appended(m, "ACCEPTED", work[h].id) \in Seq(Events)
        /\ Appended(m, "FAILED", 0) \in Seq(Events)
        /\ WithAnotherPending(m) \in Seq(Events)
        /\ Sent(m, now) \in Step
    BY <2>1, <2>2, TypesAtHand, AppendedTyped, AnotherPendingTyped, StepsTyped
  <2>4. HasAccepted(outbox[m].events) => outbox[m].taken # {}
    BY <2>1 DEF TakenInv
  <2>5. CASE /\ work[h].answer = "ok"
             /\ outbox' = [outbox EXCEPT ![m].events = Appended(m, "ACCEPTED", work[h].id)]
             /\ Goes(h, Sent(m, now))
    <3>1. outbox[m].taken # {}
      BY <1>11, <2>5 DEF Record, At, TakenInv, Told, m
    <3> QED
      BY <1>4, <1>7, <2>1, <2>3, <2>5, <3>1
  <2>6. CASE /\ outbox' = [outbox EXCEPT ![m].events = Appended(m, "FAILED", 0)]
             /\ Goes(h, Thrown(m))
    BY <1>4, <1>7, <2>1, <2>2, <2>3, <2>4, <2>6, TypesAtHand, AppendedAccepts
  <2>7. CASE Accepted(m) # {} /\ Goes(h, Sent(m, AcceptedAt(m))) /\ UNCHANGED outbox
    BY <1>3, <1>6, <1>7, <2>1, <2>4, <2>7
  <2>8. CASE /\ outbox' = [outbox EXCEPT ![m].events = WithAnotherPending(m)]
             /\ Goes(h, Thrown(m))
    BY <1>4, <1>7, <2>1, <2>3, <2>4, <2>8, TypesAtHand, AnotherPendingAccepts
  <2> QED
    BY <1>11, <2>5, <2>6, <2>7, <2>8 DEF Record, m
<1>12. ASSUME NEW n \in Messages, StartReply(h, n)
       PROVE  TakenInv'
  <2> DEFINE step == [pc |-> "ready", m |-> n]
  <2>1. step \in Step /\ ~Told(step)
    BY StepsTyped DEF Told
  <2>2. <<[status |-> "PENDING", id |-> 0, at |-> now]>> \in Seq(Events)
    BY TypesAtHand, DeliveryBounds DEF Events, Ids
  <2>3. Goes(h, step)
    BY <1>12 DEF StartReply
  <2> HIDE DEF step
  <2> QED
    BY <1>3, <1>4, <1>12, <2>1, <2>2, <2>3, FirstIsPending DEF StartReply, Store
<1>13. CASE FinishReply(h)
  BY <1>3, <1>8, <1>13 DEF FinishReply
<1>14. ASSUME NEW n \in Messages, NEW id \in Ids, NEW status \in Reported, StatusWebhook(h, n, id, status)
       PROVE  TakenInv'
  <2> DEFINE step == [pc |-> "reconcile", m |-> n, status |-> status, at |-> now]
  <2>1. step \in Step /\ step.m = n
    BY TypesAtHand, StepsTyped
  <2>2. Appended(n, status, id) \in Seq(Events)
    BY TypesAtHand, AppendedTyped DEF Reported
  <2>3. outbox[n].taken # {} /\ Goes(h, step)
    BY <1>14 DEF StatusWebhook
  <2> HIDE DEF step
  <2> QED
    BY <1>4, <1>14, <2>1, <2>2, <2>3 DEF StatusWebhook
<1>15. CASE Crash(h)
  BY <1>3, <1>8, <1>15 DEF Crash
<1>16. CASE RecordFails(h)
  <2>1. m \in Messages /\ 0 \in Ids
    BY <1>5, <1>16, DeliveryBounds DEF RecordFails, At, Idle, Ids
  <2>2. Goes(h, Thrown(m))
    BY <1>16 DEF RecordFails, m
  <2>3. CASE UNCHANGED outbox
    BY <1>3, <1>7, <2>1, <2>2, <2>3
  <2>4. CASE outbox' = [outbox EXCEPT ![m].events = Appended(m, "FAILED", 0)]
    <3>1. Appended(m, "FAILED", 0) \in Seq(Events)
      BY <2>1, TypesAtHand, AppendedTyped
    <3>2. HasAccepted(Appended(m, "FAILED", 0)) => outbox[m].taken # {}
      BY <2>1, TypesAtHand, AppendedAccepts DEF TakenInv
    <3> QED
      BY <1>4, <1>7, <2>1, <2>2, <2>4, <3>1, <3>2
  <2> QED
    BY <1>16, <2>3, <2>4 DEF RecordFails, m
<1> QED
  BY <1>9, <1>10, <1>11, <1>12, <1>13, <1>14, <1>15, <1>16 DEF Sending

LEMMA RecoveringTaken ==
  ASSUME TypeInv, TakenInv, NEW h \in Handlers, Recovering(h)
  PROVE  TakenInv'
<1>1. ASSUME \A n \in Messages : outbox'[n].taken = outbox[n].taken,
             \A n \in Messages : HasAccepted(outbox'[n].events) => HasAccepted(outbox[n].events),
             NEW step \in Step, Goes(h, step), Told(step) => step.m \in Messages /\ outbox[step.m].taken # {},
             \A n \in Recoveries :
               recovery'[n] = recovery[n] \/ outbox[n].taken # {}
                 \/ recovery'[n].status \in {"PENDING_SEND", "SEND_FAILED"}
      PROVE  TakenInv'
  <2>1. \A g \in Handlers : g # h /\ Told(work[g]) => work[g].m \in Messages
    BY TypesAtHand, Doing DEF Told, Idle
  <2>2. \A g \in Handlers : Told(work'[g]) => outbox'[work'[g].m].taken # {}
    <3>1. work'[h] = step /\ \A g \in Handlers : g # h => work'[g] = work[g]
      BY <1>1, TypesAtHand, OneGoes
    <3>2. \A g \in Handlers : Told(work[g]) => outbox[work[g].m].taken # {}
      BY DEF TakenInv
    <3> QED
      BY <1>1, <2>1, <3>1, <3>2
  <2>3. SentMeansTaken'
    BY <1>1, RecoveriesAreMessages DEF TakenInv, SentMeansTaken
  <2> QED
    BY <1>1, <2>2, <2>3 DEF TakenInv
<1> DEFINE m == work[h].m
<1>2. Told(work[h]) => m \in Messages /\ outbox[m].taken # {}
  BY TypesAtHand, Doing DEF Told, Idle, TakenInv
<1> HIDE DEF m
<1>3. Idle \in Step /\ ~Told(Idle)
  BY StepsTyped DEF Told, Idle
<1>4. ASSUME UNCHANGED outbox, Told(work[h]), m \in Recoveries,
             NEW status \in {"SENT", "CLOSED", "SEND_FAILED"},
             \/ recovery' = [recovery EXCEPT ![m].status = status]
             \/ \E at \in 0..MaxTime :
                  recovery' = [recovery EXCEPT ![m].status = status, ![m].sentAt = at],
             Goes(h, Idle)
      PROVE  TakenInv'
  <2>1. \A n \in Recoveries : n # m => recovery'[n] = recovery[n]
    BY <1>4, TypesAtHand, RecoveryWritten
  <2> QED
    BY <1>1, <1>2, <1>3, <1>4, <2>1
<1>13. ASSUME NEW n \in Recoveries, ReadToInitiate(h, n)
       PROVE  TakenInv'
  <2>1. [pc |-> "initiate", m |-> n] \in Step /\ ~Told([pc |-> "initiate", m |-> n])
    BY StepsTyped DEF Told
  <2> QED
    BY <1>1, <1>13, <2>1 DEF ReadToInitiate
<1>14. CASE FoundThere(h)
  BY <1>1, <1>3, <1>14 DEF FoundThere
<1>5. ASSUME NEW n \in Recoveries, Initiated(h, n)
      PROVE  TakenInv'
  <2> DEFINE step == [pc |-> "ready", m |-> n]
  <2>1. step \in Step /\ ~Told(step)
    BY StepsTyped, RecoveriesAreMessages DEF Told
  <2>2. <<[status |-> "PENDING", id |-> 0, at |-> now]>> \in Seq(Events)
    BY TypesAtHand, DeliveryBounds DEF Events, Ids
  <2>3. /\ \A k \in Messages : outbox'[k].taken = outbox[k].taken
        /\ \A k \in Messages : k # n => outbox'[k] = outbox[k]
        /\ outbox'[n].events = <<[status |-> "PENDING", id |-> 0, at |-> now]>>
    BY <1>5, <2>2, TypesAtHand, EventsWritten, RecoveriesAreMessages DEF Initiated, Store
  <2>4. recovery' = [recovery EXCEPT ![n].status = "PENDING_SEND"] /\ Goes(h, step)
    BY <1>5 DEF Initiated
  <2>5. /\ recovery'[n].status = "PENDING_SEND"
        /\ \A k \in Recoveries : k # n => recovery'[k] = recovery[k]
    BY <2>4, TypesAtHand, RecoveryWritten
  <2> HIDE DEF step
  <2> QED
    BY <1>1, <2>1, <2>3, <2>4, <2>5, FirstIsPending
<1>6. ASSUME NEW n \in Recoveries, InitiateAgain(h, n)
      PROVE  TakenInv'
  <2>1. [pc |-> "ready", m |-> n] \in Step /\ ~Told([pc |-> "ready", m |-> n])
    BY StepsTyped, RecoveriesAreMessages DEF Told
  <2> QED
    BY <1>1, <1>6, <2>1 DEF InitiateAgain
<1>7. ASSUME NEW n \in Recoveries, Register(h, n)
      PROVE  TakenInv'
  <2> DEFINE step == [pc |-> "create", m |-> n, reply |-> recovery[n].response]
  <2>1. recovery[n].response \in Replies
    BY <1>7 DEF Register, TypeInv, AnswersKnown
  <2>2. step \in Step /\ step.m = n /\ n \in Messages
    BY <2>1, StepsTyped, RecoveriesAreMessages
  <2>3. outbox[n].taken # {} /\ Goes(h, step)
    BY <1>7 DEF Register, TakenInv, SentMeansTaken
  <2> HIDE DEF step
  <2> QED
    BY <1>1, <1>7, <2>2, <2>3 DEF Register
<1>8. CASE FinishDelivery(h)
  <2>1. m \in Recoveries /\ UNCHANGED outbox /\ Goes(h, Idle)
    BY <1>8 DEF FinishDelivery, m
  <2>2. CASE At(h, "sent") /\ recovery' = [recovery EXCEPT ![m].status = "SENT", ![m].sentAt = work[h].at]
    <3>1. work[h].at \in 0..MaxTime /\ Told(work[h])
      BY <2>2, TypesAtHand, Doing DEF At, Told
    <3> QED
      BY <1>4, <2>1, <2>2, <3>1
  <2>3. CASE recovery' = [recovery EXCEPT ![m].status = IF Latest(m).status = "FAILED" THEN "SEND_FAILED" ELSE @]
    <3>1. \A k \in Recoveries : recovery'[k] = recovery[k] \/ recovery'[k].status = "SEND_FAILED"
      <4>1. CASE Latest(m).status = "FAILED"
        <5>1. recovery' = [recovery EXCEPT ![m].status = "SEND_FAILED"]
          BY <2>3, <4>1
        <5> QED
          BY <2>1, <5>1, TypesAtHand, RecoveryWritten
      <4>2. CASE Latest(m).status # "FAILED"
        BY <2>1, <2>3, <4>2, TypesAtHand DEF Recovery
      <4> QED
        BY <4>1, <4>2
    <3> QED
      BY <1>1, <1>3, <2>1, <3>1
  <2> QED
    BY <1>8, <2>2, <2>3 DEF FinishDelivery, m
<1>9. CASE ReadRecovery(h)
  <2>1. Told(work[h])
    BY <1>9 DEF ReadRecovery, At, Told
  <2>2. work[h].at \in 0..MaxTime /\ work[h].status \in Reported
    BY <1>9, TypesAtHand, Doing DEF ReadRecovery, At
  <2>3. m \in Recoveries => recovery[m].sentAt \in -1..MaxTime
    BY TypesAtHand DEF Recovery
  <2>4. m \in Recoveries => (IF recovery[m].sentAt >= 0 THEN recovery[m].sentAt ELSE work[h].at) \in 0..MaxTime
    BY <2>2, <2>3, DeliveryBounds
  <2>5. \A at \in 0..MaxTime : m \in Recoveries =>
          /\ [pc |-> "write", m |-> m, status |-> work[h].status, at |-> at] \in Step
          /\ [pc |-> "write", m |-> m, status |-> work[h].status, at |-> at].m = m
    BY <2>2, StepsTyped
  <2>6. \E step \in Step : Goes(h, step) /\ (step = Idle \/ step.m = m)
    BY <1>9, <2>4, <2>5, StepsTyped DEF ReadRecovery, m
  <2> QED
    BY <1>1, <1>2, <1>3, <1>9, <2>1, <2>6 DEF ReadRecovery
<1>10. CASE WriteRecovery(h)
  <2>1. work[h].at \in 0..MaxTime /\ m \in Recoveries /\ Told(work[h])
    BY <1>10, TypesAtHand, Doing DEF WriteRecovery, At, Told, m
  <2>2. \E status \in {"SENT", "SEND_FAILED"} :
          \/ recovery' = [recovery EXCEPT ![m].status = status]
          \/ recovery' = [recovery EXCEPT ![m].status = status, ![m].sentAt = work[h].at]
    BY <1>10 DEF WriteRecovery, m
  <2> QED
    BY <1>4, <1>10, <2>1, <2>2 DEF WriteRecovery
<1>11. CASE CreateCandidate(h)
  <2>1. m \in Recoveries /\ Told(work[h])
    BY <1>11, TypesAtHand, Doing DEF CreateCandidate, At, Told, m
  <2>2. [pc |-> "close", m |-> m] \in Step /\ [pc |-> "close", m |-> m].m = m
    BY <2>1, StepsTyped
  <2> QED
    BY <1>1, <1>2, <1>3, <1>11, <2>1, <2>2 DEF CreateCandidate, m
<1>12. CASE Close(h)
  <2>1. m \in Recoveries /\ Told(work[h])
    BY <1>12, TypesAtHand, Doing DEF Close, At, Told, m
  <2> QED
    BY <1>4, <1>12, <2>1 DEF Close, m
<1> QED
  BY <1>5, <1>6, <1>7, <1>8, <1>9, <1>10, <1>11, <1>12, <1>13, <1>14, InitiateNewDoes DEF Recovering

\* A recovery counts as sent, answered or closed only if the provider has taken its
\* message: the word of it comes from an acceptance on record or from a status of
\* WhatsApp, and each of these is the provider's, whoever writes it and however late.
THEOREM SentIsTaken == Spec => []SentMeansTaken
<1>1. Init => TakenInv
  BY DEF Init, DeliveryInit, TakenInv, HasAccepted, Told, Idle, SentMeansTaken
<1>2. TypeInv /\ TakenInv /\ [Next]_recoveryVars => TakenInv'
  <2> SUFFICES ASSUME TypeInv, TakenInv, [Next]_recoveryVars PROVE TakenInv'
    OBVIOUS
  <2>1. ASSUME UNCHANGED <<outbox, work>>,
               \A m \in Recoveries : \/ recovery'[m] = recovery[m]
                                     \/ recovery[m].status = "SENT"
        PROVE  TakenInv'
    BY <2>1 DEF TakenInv, SentMeansTaken
  <2>2. ASSUME NEW l \in letters, Inbound(l)
        PROVE  TakenInv'
    <3>1. \A m \in Recoveries : recovery'[m] = recovery[m] \/ recovery[m].status = "SENT"
      BY <2>2, TypesAtHand DEF Inbound
    <3> QED
      BY <2>1, <2>2, <3>1 DEF Inbound, Persist
  <2>3. CASE (CustomerWrites \/ Tick) /\ UNCHANGED <<accessVars, recovery>>
    BY <2>1, <2>3 DEF CustomerWrites, Tick
  <2>4. CASE Credentials
    BY <2>1, <2>4 DEF Credentials, deliveryVars
  <2>5. CASE UNCHANGED recoveryVars
    BY <2>1, <2>5 DEF recoveryVars, deliveryVars
  <2> QED
    BY <2>2, <2>3, <2>4, <2>5, SendingTaken, RecoveringTaken DEF Next
<1>3. TakenInv => SentMeansTaken
  BY DEF TakenInv
<1> QED
  BY <1>1, <1>2, <1>3, TypesHold, PTL DEF Spec

-----------------------------------------------------------------------------
(* The evidence *)

\* Whatever a step does, a request that has a credential keeps one.
LEMMA CredentialsStay ==
  ASSUME TypeInv, [Next]_recoveryVars
  PROVE  \A q \in Requests : credentials[q] # None => credentials'[q] # None
<1>1. UNCHANGED credentials => \A q \in Requests : credentials[q] # None => credentials'[q] # None
  OBVIOUS
<1>2. ASSUME NEW h \in Handlers, CreateCandidate(h)
      PROVE  \A q \in Requests : credentials[q] # None => credentials'[q] # None
  <2>1. work[h].reply \in Requests
    BY <1>2, TypesAtHand, Doing, RecoveriesAreMessages DEF CreateCandidate, At
  <2> QED
    BY <1>1, <1>2, <2>1, TypesAtHand, CreateTyped DEF CreateCandidate, accessVars
<1>3. ASSUME NEW h \in Handlers, Sending(h)
      PROVE  UNCHANGED credentials
  BY <1>3 DEF Sending, accessVars
<1>4. ASSUME NEW h \in Handlers, Recovering(h), ~CreateCandidate(h)
      PROVE  UNCHANGED credentials
  BY <1>4 DEF Recovering, ReadToInitiate, InitiateNew, InitiateAgain, Register, FinishDelivery,
    ReadRecovery, WriteRecovery, Close, accessVars
<1>5. ASSUME NEW l \in letters, Inbound(l)
      PROVE  UNCHANGED credentials
  BY <1>5 DEF Inbound, accessVars
<1>6. CASE Credentials
  BY <1>6, TypesAtHand, CredentialChanges
<1>7. CASE UNCHANGED accessVars
  BY <1>1, <1>7 DEF accessVars
<1>8. UNCHANGED recoveryVars => UNCHANGED accessVars
  BY DEF recoveryVars
<1> QED
  BY <1>1, <1>2, <1>3, <1>4, <1>5, <1>6, <1>7, <1>8 DEF Next

\* No two of the Customer's messages have one key.
KeysApart ==
  /\ letters \subseteq Letters /\ inbound \subseteq Letters
  /\ \A l, k \in letters : l.key = k.key => l = k
  /\ \A l \in letters, k \in inbound : l.key # k.key

\* A recovery has among its answers one that has become a candidate.
HasOwn(owner, m) == \E k \in Replies : m \in owner[k] /\ credentials[k] # None

\* The owners of the answers: every answer that has come belongs to one recovery at
\* most, the first it was linked to.
Owned(owner) ==
  /\ \A k \in Replies : \A m, n \in owner[k] : m = n
  /\ \A k \in Replies : owner[k] # {} => \E l \in inbound : l.key = k
  /\ \A m \in Recoveries : recovery[m].response \in Replies => m \in owner[recovery[m].response]
  /\ \A h \in Handlers : work[h].pc = "create" => work[h].m \in owner[work[h].reply]
  /\ \A h \in Handlers : work[h].pc = "close" => HasOwn(owner, work[h].m)
  /\ \A m \in Closed : HasOwn(owner, m)

\* Which recovery an answer was linked to is not kept, when a late status has put the
\* recovery back and another answer has come: it is known to have been one.
EvidenceInv == KeysApart /\ \E owner \in [Replies -> SUBSET Recoveries] : Owned(owner)

\* The keys stay apart: the Customer's next message gets a key above all others.
LEMMA KeysStayApart ==
  ASSUME TypeInv, KeysApart, [Next]_recoveryVars
  PROVE  KeysApart'
<1>1. CASE UNCHANGED <<letters, inbound>>
  BY <1>1 DEF KeysApart
<1>2. CASE CustomerWrites
  <2>1. PICK key \in Replies :
          /\ \A l \in letters \cup inbound : l.key < key
          /\ letters' = letters \cup {[key |-> key, at |-> now]}
    BY <1>2 DEF CustomerWrites
  <2>2. [key |-> key, at |-> now] \in Letters /\ inbound' = inbound
    BY <1>2, TypesAtHand DEF Letters, CustomerWrites
  <2>3. \A l \in letters \cup inbound : l.key # key
    <3> SUFFICES ASSUME NEW l \in letters \cup inbound PROVE l.key # key
      OBVIOUS
    <3>1. l.key \in Int /\ key \in Int
      BY DEF KeysApart, Letters, Replies
    <3> QED
      BY <2>1, <3>1
  <2> DEFINE new == [key |-> key, at |-> now]
  <2>4. letters' = letters \cup {new} /\ new \in Letters /\ new.key = key
    BY <2>1, <2>2
  <2> HIDE DEF new
  <2> QED
    BY <2>2, <2>3, <2>4 DEF KeysApart
<1>3. ASSUME NEW l \in letters, Inbound(l)
      PROVE  KeysApart'
  BY <1>3 DEF Inbound, Persist, KeysApart
<1>4. ASSUME NEW h \in Handlers, Sending(h)
      PROVE  UNCHANGED <<letters, inbound>>
  BY <1>4 DEF Sending, ReadMessage, Call, Record, RecordFails, StartReply, FinishReply, StatusWebhook,
    Crash
<1>5. ASSUME NEW h \in Handlers, Recovering(h)
      PROVE  UNCHANGED <<letters, inbound>>
  BY <1>5 DEF Recovering, ReadToInitiate, InitiateNew, InitiateAgain, Register, FinishDelivery,
    ReadRecovery, WriteRecovery, CreateCandidate, Close
<1>6. CASE UNCHANGED deliveryVars \/ Tick
  BY <1>1, <1>6 DEF deliveryVars, Tick
<1>7. UNCHANGED recoveryVars => UNCHANGED deliveryVars
  BY DEF recoveryVars
<1> QED
  BY <1>1, <1>2, <1>3, <1>4, <1>5, <1>6, <1>7 DEF Next, Credentials

\* The writes of a status leave the answers of the recoveries.
LEMMA AnswerKept ==
  ASSUME recovery \in [Recoveries -> Recovery], NEW m, NEW status,
         \/ recovery' = [recovery EXCEPT ![m].status = status]
         \/ \E at : recovery' = [recovery EXCEPT ![m].status = status, ![m].sentAt = at]
  PROVE  \A n \in Recoveries : recovery'[n].response = recovery[n].response
BY DEF Recovery

\* What a step of h leaves of the answers: they stay with their recoveries; a handler
\* that comes to make a candidate has the answer of its recovery, one that comes to
\* close a recovery has made the candidate, and only such a one closes.
Evidenced(h) ==
  /\ \A m \in Recoveries : recovery'[m].response = recovery[m].response
  /\ \A m \in Recoveries : recovery'[m].status = "CLOSED" =>
       recovery[m].status = "CLOSED" \/ (work[h].pc = "close" /\ work[h].m = m)
  /\ \A g \in Handlers : work'[g].pc = "create" =>
       \/ work'[g] = work[g]
       \/ /\ work'[g].m \in Recoveries /\ work'[g].reply \in Replies
          /\ work'[g].reply = recovery[work'[g].m].response
  /\ \A g \in Handlers : work'[g].pc = "close" =>
       \/ work'[g] = work[g]
       \/ /\ work[g].pc = "create" /\ work'[g].m = work[g].m
          /\ credentials'[work[g].reply] # None

LEMMA OnlyEvidenceCloses ==
  ASSUME TypeInv, NEW h \in Handlers, Sending(h) \/ Recovering(h)
  PROVE  Evidenced(h)
<1>1. ASSUME UNCHANGED recovery, NEW step, Goes(h, step), step.pc \notin {"create", "close"}
      PROVE  Evidenced(h)
  <2>1. \A g \in Handlers : work'[g] = work[g] \/ work'[g].pc \notin {"create", "close"}
    BY <1>1, TypesAtHand DEF Goes
  <2> QED
    BY <1>1, <2>1 DEF Evidenced
<1>2. ASSUME NEW m \in Recoveries, Goes(h, Idle),
             NEW status \in {"SENT", "SEND_FAILED", "CLOSED"},
             status = "CLOSED" => work[h].pc = "close" /\ work[h].m = m,
             \/ recovery' = [recovery EXCEPT ![m].status = status]
             \/ \E at \in 0..MaxTime :
                  recovery' = [recovery EXCEPT ![m].status = status, ![m].sentAt = at]
      PROVE  Evidenced(h)
  <2> DEFINE Written(n) == IF n = m THEN status ELSE recovery[n].status
  <2>1. \A n \in Recoveries : recovery'[n].status = Written(n)
    BY <1>2, TypesAtHand DEF Recovery
  <2>2. \A n \in Recoveries : recovery'[n].response = recovery[n].response
    BY <1>2, TypesAtHand, AnswerKept
  <2>3. \A g \in Handlers : work'[g] = work[g] \/ work'[g].pc = "idle"
    BY <1>2, TypesAtHand DEF Goes, Idle
  <2> QED
    BY <1>2, <2>1, <2>2, <2>3 DEF Evidenced
<1> DEFINE m == work[h].m
<1>3. Idle.pc = "idle"
  BY DEF Idle
<1>4. CASE Sending(h)
  <2>1. UNCHANGED recovery
    BY <1>4 DEF Sending
  <2>2. ASSUME NEW step, Goes(h, step), step.pc \notin {"create", "close"}
        PROVE  Evidenced(h)
    BY <1>1, <2>1, <2>2
  <2>3. \A n, at : Sent(n, at).pc = "sent" /\ Thrown(n).pc = "thrown"
    BY DEF Sent, Thrown
  <2>4. CASE ReadMessage(h)
    <3>1. \/ \E n, at : Goes(h, Sent(n, at))
          \/ \E n : Goes(h, Thrown(n))
          \/ \E n : Goes(h, [pc |-> "calling", m |-> n])
      BY <2>4 DEF ReadMessage
    <3> QED
      BY <2>2, <2>3, <3>1
  <2>5. CASE Call(h)
    BY <2>2, <2>5 DEF Call
  <2>6. CASE Record(h)
    BY <2>2, <2>3, <2>6 DEF Record
  <2>7. ASSUME NEW n \in Messages, StartReply(h, n)
        PROVE  Evidenced(h)
    BY <2>2, <2>7 DEF StartReply
  <2>8. CASE FinishReply(h) \/ Crash(h)
    BY <1>3, <2>2, <2>8 DEF FinishReply, Crash
  <2>9. ASSUME NEW n \in Messages, NEW id \in Ids, NEW status \in Reported, StatusWebhook(h, n, id, status)
        PROVE  Evidenced(h)
    BY <2>2, <2>9 DEF StatusWebhook
  <2>10. CASE RecordFails(h)
    BY <2>2, <2>3, <2>10 DEF RecordFails
  <2> QED
    BY <1>4, <2>4, <2>5, <2>6, <2>7, <2>8, <2>9, <2>10 DEF Sending
<1>13. ASSUME NEW n \in Recoveries, ReadToInitiate(h, n)
       PROVE  Evidenced(h)
  BY <1>1, <1>13 DEF ReadToInitiate
<1>14. CASE FoundThere(h)
  BY <1>1, <1>3, <1>14 DEF FoundThere
<1>5. ASSUME NEW n \in Recoveries, Initiated(h, n)
      PROVE  Evidenced(h)
  <2>1. recovery' = [recovery EXCEPT ![n].status = "PENDING_SEND"] /\ Goes(h, [pc |-> "ready", m |-> n])
    BY <1>5 DEF Initiated
  <2>2. /\ recovery'[n].status = "PENDING_SEND"
        /\ \A k \in Recoveries : k # n => recovery'[k] = recovery[k]
    BY <2>1, TypesAtHand, RecoveryWritten
  <2>3. \A k \in Recoveries : recovery'[k].response = recovery[k].response
    BY <2>1, TypesAtHand, AnswerKept
  <2>4. \A g \in Handlers : work'[g] = work[g] \/ work'[g].pc = "ready"
    BY <2>1, TypesAtHand DEF Goes
  <2> QED
    BY <2>2, <2>3, <2>4 DEF Evidenced
<1>6. ASSUME NEW n \in Recoveries, InitiateAgain(h, n)
      PROVE  Evidenced(h)
  BY <1>1, <1>6 DEF InitiateAgain
<1>7. ASSUME NEW n \in Recoveries, Register(h, n)
      PROVE  Evidenced(h)
  <2> DEFINE step == [pc |-> "create", m |-> n, reply |-> recovery[n].response]
  <2>1. recovery[n].response \in Replies
    BY <1>7 DEF Register, TypeInv, AnswersKnown
  <2>2. step.pc = "create" /\ step.m = n /\ step.reply = recovery[n].response
    OBVIOUS
  <2>3. Goes(h, step) /\ UNCHANGED recovery
    BY <1>7 DEF Register
  <2> HIDE DEF step
  <2>4. \A g \in Handlers : work'[g] = work[g] \/ work'[g] = step
    BY <2>3, TypesAtHand DEF Goes
  <2> QED
    BY <2>1, <2>2, <2>3, <2>4 DEF Evidenced
<1>8. CASE FinishDelivery(h)
  <2>1. m \in Recoveries /\ Goes(h, Idle)
    BY <1>8 DEF FinishDelivery
  <2>2. CASE At(h, "sent") /\ recovery' = [recovery EXCEPT ![m].status = "SENT", ![m].sentAt = work[h].at]
    <3>1. work[h].at \in 0..MaxTime
      BY <2>2, TypesAtHand, Doing DEF At
    <3> HIDE DEF m
    <3> QED
      BY <1>2, <2>1, <2>2, <3>1
  <2>3. CASE recovery' = [recovery EXCEPT ![m].status = IF Latest(m).status = "FAILED" THEN "SEND_FAILED" ELSE @]
    <3> HIDE DEF m
    <3>1. CASE Latest(m).status = "FAILED"
      <4>1. recovery' = [recovery EXCEPT ![m].status = "SEND_FAILED"]
        BY <2>3, <3>1
      <4> QED
        BY <1>2, <2>1, <4>1
    <3>2. CASE Latest(m).status # "FAILED"
      <4>1. recovery' = recovery
        BY <2>1, <2>3, <3>2, TypesAtHand DEF Recovery
      <4> QED
        BY <1>1, <1>3, <2>1, <4>1
    <3> QED
      BY <3>1, <3>2
  <2> QED
    BY <1>8, <2>2, <2>3 DEF FinishDelivery
<1>9. CASE ReadRecovery(h)
  <2>1. UNCHANGED recovery /\ \E step : Goes(h, step) /\ step.pc \notin {"create", "close"}
    BY <1>3, <1>9 DEF ReadRecovery
  <2> QED
    BY <1>1, <2>1
<1>10. CASE WriteRecovery(h)
  <2>1. work[h].at \in 0..MaxTime /\ m \in Recoveries /\ Goes(h, Idle)
    BY <1>10, TypesAtHand, Doing DEF WriteRecovery, At
  <2>2. \E status \in {"SENT", "SEND_FAILED"} :
          \/ recovery' = [recovery EXCEPT ![m].status = status]
          \/ recovery' = [recovery EXCEPT ![m].status = status, ![m].sentAt = work[h].at]
    BY <1>10 DEF WriteRecovery
  <2> HIDE DEF m
  <2> QED
    BY <1>2, <2>1, <2>2
<1>11. CASE CreateCandidate(h)
  <2>1. m \in Recoveries /\ work[h].reply \in Requests /\ work[h].reply \in Replies
    BY <1>11, TypesAtHand, Doing, RecoveriesAreMessages DEF CreateCandidate, At
  <2>2. CASE Goes(h, Idle)
    BY <1>1, <1>3, <1>11, <2>2 DEF CreateCandidate
  <2>3. ASSUME Goes(h, [pc |-> "close", m |-> m]), NEW span \in Spans, Create(work[h].reply, span)
        PROVE  Evidenced(h)
    <3>1. credentials'[work[h].reply] # None
      BY <2>1, <2>3, TypesAtHand, CreateTyped
    <3>2. \A g \in Handlers : work'[g] = work[g] \/ (g = h /\ work'[g].pc = "close" /\ work'[g].m = m)
      BY <2>3, TypesAtHand DEF Goes
    <3>3. UNCHANGED recovery /\ work[h].pc = "create"
      BY <1>11 DEF CreateCandidate, At
    <3> QED
      BY <3>1, <3>2, <3>3 DEF Evidenced
  <2> QED
    BY <1>11, <2>2, <2>3 DEF CreateCandidate
<1>12. CASE Close(h)
  <2>1. m \in Recoveries /\ work[h].pc = "close" /\ Goes(h, Idle)
    BY <1>12, TypesAtHand, Doing DEF Close, At
  <2>2. recovery' = [recovery EXCEPT ![m].status = "CLOSED"] /\ work[h].m = m
    BY <1>12 DEF Close
  <2> HIDE DEF m
  <2> QED
    BY <1>2, <2>1, <2>2
<1> QED
  BY <1>4, <1>5, <1>6, <1>7, <1>8, <1>9, <1>10, <1>11, <1>12, <1>13, <1>14, InitiateNewDoes
  DEF Recovering

\* The first link of an answer makes the recovery its owner: the answer was a letter
\* nobody had read.
LEMMA AnswerGetsAnOwner ==
  ASSUME TypeInv, KeysApart, NEW l \in letters, Inbound(l),
         NEW owner \in [Replies -> SUBSET Recoveries], Owned(owner)
  PROVE  \E after \in [Replies -> SUBSET Recoveries] : Owned(after)'
<1>1. UNCHANGED <<work, credentials>> /\ inbound' = inbound \cup {l}
  BY DEF Inbound, Persist, accessVars
<1>2. CASE UNCHANGED recovery
  <2>1. Owned(owner)'
    BY <1>1, <1>2 DEF Owned, HasOwn, Closed
  <2> QED
    BY <2>1
<1>3. ASSUME NEW m \in Recoveries,
             recovery' = [recovery EXCEPT ![m].status = "RESPONSE_REQUIRES_REVIEW", ![m].response = l.key]
      PROVE  \E after \in [Replies -> SUBSET Recoveries] : Owned(after)'
  <2> DEFINE key == l.key
             after == [owner EXCEPT ![key] = {m}]
  <2>1. key \in Replies
    BY DEF TypeInv, AnswersKnown
  <2>2. owner[key] = {}
    BY <2>1 DEF Owned, KeysApart
  <2>3. /\ after \in [Replies -> SUBSET Recoveries]
        /\ after[key] = {m}
        /\ \A k \in Replies : k # key => after[k] = owner[k]
    BY <2>1
  <2>4. \A k \in Replies : owner[k] \subseteq after[k]
    BY <2>2, <2>3
  <2>5. /\ recovery'[m].response = key /\ recovery'[m].status = "RESPONSE_REQUIRES_REVIEW"
        /\ \A n \in Recoveries : n # m => recovery'[n] = recovery[n]
    BY <1>3, TypesAtHand DEF Recovery
  <2>6. l.key = key
    OBVIOUS
  <2>7. \A h \in Handlers : work[h].pc = "create" => work[h].reply \in Replies
    BY TypesAtHand, Doing
  <2> HIDE DEF key, after
  <2>8. \A n : HasOwn(owner, n) => HasOwn(after, n)'
    BY <1>1, <2>4 DEF HasOwn
  <2>9. Closed' \subseteq Closed
    BY <2>5 DEF Closed
  <2>10. \A k \in Replies : \A p, n \in after[k] : p = n
    BY <2>3 DEF Owned
  <2>11. \A k \in Replies : after[k] # {} => \E i \in inbound' : i.key = k
    BY <1>1, <2>3, <2>6 DEF Owned
  <2>12. \A n \in Recoveries : recovery'[n].response \in Replies => n \in after[recovery'[n].response]
    BY <2>3, <2>4, <2>5 DEF Owned
  <2>13. \A h \in Handlers : work'[h].pc = "create" => work'[h].m \in after[work'[h].reply]
    BY <1>1, <2>4, <2>7 DEF Owned
  <2>14. \A h \in Handlers : work'[h].pc = "close" => HasOwn(after, work[h].m)'
    BY <1>1, <2>8 DEF Owned
  <2>15. \A n \in Closed' : HasOwn(after, n)'
    BY <2>8, <2>9 DEF Owned
  <2>16. Owned(after)'
    BY <2>10, <2>11, <2>12, <2>13, <2>14, <2>15 DEF Owned
  <2> QED
    BY <2>3, <2>16
<1> QED
  BY <1>2, <1>3 DEF Inbound

\* A recovery is closed only when an answer of the Customer, of its own, has become a
\* candidate for a credential: no crash between the two, no rival, no late status and
\* no second recovery that waits for the same answer closes one that has none.
THEOREM ClosedIsEvident == Spec => []ClosedHasEvidence
<1>1. Init => EvidenceInv
  <2> SUFFICES ASSUME Init PROVE EvidenceInv
    OBVIOUS
  <2> DEFINE owner == [k \in Replies |-> {}]
  <2>1. owner \in [Replies -> SUBSET Recoveries] /\ \A k \in Replies : owner[k] = {}
    OBVIOUS
  <2>2. 0 \notin Replies /\ Closed = {}
    BY DEF Replies, Init, Closed
  <2>3. \A m \in Recoveries : recovery[m].response = 0
    BY DEF Init
  <2>4. \A h \in Handlers : work[h].pc = "idle"
    BY DEF Init, DeliveryInit, Idle
  <2> HIDE DEF owner
  <2>5. Owned(owner)
    BY <2>1, <2>2, <2>3, <2>4 DEF Owned
  <2>6. KeysApart
    BY DeliveryBounds DEF Init, DeliveryInit, KeysApart, Letters, Replies
  <2> QED
    BY <2>1, <2>5, <2>6 DEF EvidenceInv
<1>2. TypeInv /\ EvidenceInv /\ [Next]_recoveryVars => EvidenceInv'
  <2> SUFFICES ASSUME TypeInv, EvidenceInv, [Next]_recoveryVars PROVE EvidenceInv'
    OBVIOUS
  <2>1. PICK owner \in [Replies -> SUBSET Recoveries] : Owned(owner)
    BY DEF EvidenceInv
  <2>2. KeysApart /\ KeysApart'
    BY KeysStayApart DEF EvidenceInv
  <2>3. \A q \in Replies : credentials[q] # None => credentials'[q] # None
    BY CredentialsStay, RecoveriesAreMessages
  <2>4. \A m : HasOwn(owner, m) => HasOwn(owner, m)'
    BY <2>3 DEF HasOwn
  <2>5. ASSUME UNCHANGED <<work, inbound, recovery>>
        PROVE  EvidenceInv'
    <3>1. Owned(owner)'
      BY <2>1, <2>4, <2>5 DEF Owned, Closed
    <3> QED
      BY <2>2, <3>1 DEF EvidenceInv
  <2>6. ASSUME NEW h \in Handlers, Sending(h) \/ Recovering(h)
        PROVE  EvidenceInv'
    <3>1. Evidenced(h)
      BY <2>6, OnlyEvidenceCloses
    <3>2. UNCHANGED inbound
      BY <2>6 DEF Sending, ReadMessage, Call, Record, RecordFails, StartReply, FinishReply,
        StatusWebhook, Crash, Recovering, ReadToInitiate, InitiateNew, InitiateAgain, Register,
        FinishDelivery, ReadRecovery, WriteRecovery, CreateCandidate, Close
    <3>3. \A g \in Handlers : work[g].pc = "create" => work[g].reply \in Replies
      BY TypesAtHand, Doing
    <3>4. \A m \in Recoveries : recovery'[m].response \in Replies => m \in owner[recovery'[m].response]
      BY <2>1, <3>1 DEF Owned, Evidenced
    <3>5. \A g \in Handlers : work'[g].pc = "create" => work'[g].m \in owner[work'[g].reply]
      BY <2>1, <3>1 DEF Owned, Evidenced
    <3>6. ASSUME NEW g \in Handlers, work'[g].pc = "close"
          PROVE  HasOwn(owner, work[g].m)'
      <4>1. CASE work'[g] = work[g]
        BY <2>1, <2>4, <3>6, <4>1 DEF Owned
      <4>2. CASE /\ work[g].pc = "create" /\ work'[g].m = work[g].m
                 /\ credentials'[work[g].reply] # None
        BY <2>1, <3>3, <4>2 DEF Owned, HasOwn
      <4> QED
        BY <3>1, <3>6, <4>1, <4>2 DEF Evidenced
    <3>7. \A m \in Closed' : HasOwn(owner, m)'
      <4> SUFFICES ASSUME NEW m \in Recoveries, recovery'[m].status = "CLOSED"
                   PROVE  HasOwn(owner, m)'
        BY DEF Closed
      <4>1. m \in Closed \/ (work[h].pc = "close" /\ work[h].m = m)
        BY <3>1 DEF Evidenced, Closed
      <4> QED
        BY <2>1, <2>4, <4>1 DEF Owned
    <3>8. Owned(owner)'
      BY <2>1, <3>2, <3>4, <3>5, <3>6, <3>7 DEF Owned
    <3> QED
      BY <2>2, <3>8 DEF EvidenceInv
  <2>7. ASSUME NEW l \in letters, Inbound(l)
        PROVE  EvidenceInv'
    BY <2>1, <2>2, <2>7, AnswerGetsAnOwner DEF EvidenceInv
  <2>8. CASE (CustomerWrites \/ Tick) /\ UNCHANGED <<accessVars, recovery>>
    BY <2>5, <2>8 DEF CustomerWrites, Tick
  <2>9. CASE Credentials
    BY <2>5, <2>9 DEF Credentials, deliveryVars
  <2>10. CASE UNCHANGED recoveryVars
    BY <2>5, <2>10 DEF recoveryVars, deliveryVars
  <2> QED
    BY <2>6, <2>7, <2>8, <2>9, <2>10 DEF Next
<1>3. EvidenceInv => ClosedHasEvidence
  <2> SUFFICES ASSUME NEW owner \in [Replies -> SUBSET Recoveries], Owned(owner)
               PROVE  ClosedHasEvidence
    BY DEF EvidenceInv
  <2> DEFINE evidence == [m \in Closed |-> CHOOSE k \in Replies : m \in owner[k] /\ credentials[k] # None]
  <2>1. \A m \in Closed : /\ evidence[m] \in Replies
                          /\ m \in owner[evidence[m]] /\ credentials[evidence[m]] # None
    BY DEF Owned, HasOwn
  <2>2. evidence \in [Closed -> Replies]
    BY <2>1
  <2> HIDE DEF evidence
  <2>3. \A m, n \in Closed : evidence[m] = evidence[n] => m = n
    BY <2>1 DEF Owned
  <2> QED
    BY <2>1, <2>2, <2>3 DEF ClosedHasEvidence
<1> QED
  BY <1>1, <1>2, <1>3, TypesHold, PTL DEF Spec

-----------------------------------------------------------------------------
(* The readiness *)

\* What the property excepts: a pass that judged by what has since been withdrawn.
Overtaken(p) ==
  Expire(p) /\ passes[p].left # {} /\ \A r \in passes[p].left : credentials[r].status = "REVOKED"

LEMMA CredentialsBacked ==
  ASSUME TypeInv, Backed, [Next]_recoveryVars
  PROVE  Backed' \/ \E p \in Lookers : Overtaken(p)
<1>1. ASSUME NEW created, Regraded(created), NEW state, Sets(created, state),
             state = "RECEIVED" =>
               \E r \in Requests : created[r] # None /\ created[r].status = "ACCEPTED"
      PROVE  Backed'
  <2>1. job' = [job EXCEPT !.readiness = state, !.by = "evidence",
                           !.unchanged = IF state = job.readiness THEN @ ELSE {}]
        /\ credentials' = created
    BY <1>1 DEF Sets
  <2>2. job'.readiness = state
    BY <2>1, TypesAtHand DEF AccessTypeOK
  <2> QED
    BY <1>1, <2>1, <2>2 DEF Backed, With
<1>2. ASSUME UNCHANGED <<job, credentials>>
      PROVE  Backed'
  BY <1>2 DEF Backed, With
<1>3. ASSUME NEW r \in Requests, NEW span \in Spans, Create(r, span)
      PROVE  Backed'
  <2>1. CASE credentials[r] # None
    BY <1>2, <1>3, <2>1 DEF Create, accessVars
  <2>2. CASE credentials[r] = None
    <3>1. job' = [job EXCEPT !.readiness = "NEEDS_REVIEW", !.by = "evidence",
                             !.unchanged = IF "NEEDS_REVIEW" = job.readiness THEN @ ELSE {}]
      BY <1>3, <2>2 DEF Create, Sets
    <3>2. job'.readiness = "NEEDS_REVIEW"
      BY <3>1, TypesAtHand DEF AccessTypeOK
    <3> QED
      BY <3>2 DEF Backed
  <2> QED
    BY <2>1, <2>2
<1>4. ASSUME NEW r \in Requests, Accept(r, now)
      PROVE  Backed'
  <2> DEFINE created == [credentials EXCEPT ![r].status = "ACCEPTED"]
  <2>1. credentials[r] # None
    BY <1>4 DEF Accept, With
  <2>2. Regraded(created) /\ created[r] # None /\ created[r].status = "ACCEPTED"
    <3>1. Regraded(created) /\ created[r] \in Rows /\ created[r].status = "ACCEPTED"
      BY <2>1, TypesAtHand, StatusGiven
    <3> HIDE DEF created
    <3> QED
      BY <3>1, TypesAtHand, CredentialTyped
  <2>3. Sets(created, "RECEIVED")
    BY <1>4 DEF Accept
  <2> HIDE DEF created
  <2> QED
    BY <1>1, <2>2, <2>3
<1>5. ASSUME NEW r \in Requests, NEW status \in {"REJECTED", "REVOKED"},
             Sets([credentials EXCEPT ![r].status = status],
                  Remaining([credentials EXCEPT ![r].status = status], now)),
             credentials[r] # None
      PROVE  Backed'
  <2> DEFINE created == [credentials EXCEPT ![r].status = status]
  <2>1. Regraded(created)
    BY <1>5, TypesAtHand, StatusGiven
  <2>2. Sets(created, Remaining(created, now))
    BY <1>5
  <2> HIDE DEF created
  <2>3. Remaining(created, now) = "RECEIVED" =>
          \E q \in Requests : created[q] # None /\ created[q].status = "ACCEPTED"
    BY <2>1, RemainingIsUsable DEF Usable
  <2> QED
    BY <1>1, <2>1, <2>2, <2>3
<1>6. ASSUME NEW r \in Requests, Reject(r, now) \/ Revoke(r, now)
      PROVE  Backed'
  <2>1. CASE Reject(r, now)
    <3>1. /\ credentials[r] # None
          /\ Sets([credentials EXCEPT ![r].status = "REJECTED"],
                  Remaining([credentials EXCEPT ![r].status = "REJECTED"], now))
      BY <2>1 DEF Reject, With
    <3> QED
      BY <1>5, <3>1
  <2>2. CASE Revoke(r, now)
    <3>1. /\ credentials[r] # None
          /\ Sets([credentials EXCEPT ![r].status = "REVOKED"],
                  Remaining([credentials EXCEPT ![r].status = "REVOKED"], now))
      BY <2>2 DEF Revoke
    <3> QED
      BY <1>5, <3>1
  <2> QED
    BY <1>6, <2>1, <2>2
<1>7. ASSUME NEW p \in Lookers, Expire(p)
      PROVE  Backed' \/ Overtaken(p)
  <2> DEFINE expired == passes[p].expired
             created == Withdrawn(expired)
  <2>1. passes[p].at = "judged" /\ passes[p] \in Pass
    BY <1>7, TypesAtHand DEF Expire, AccessTypeOK
  <2>2. expired \in SUBSET Requests /\ passes[p].left \in SUBSET Requests
    BY <2>1 DEF Pass, Looking
  <2>3. \A r \in expired : credentials[r] # None
    BY <2>1, TypesAtHand DEF PassesKnown
  <2>4. Regraded(created)
    BY <2>2, <2>3, TypesAtHand, ExpiredGiven
  <2>5. Sets(created, passes[p].state)
    BY <1>7 DEF Expire
  <2>6. ASSUME passes[p].state = "RECEIVED", ~Overtaken(p)
        PROVE  \E r \in Requests : created[r] # None /\ created[r].status = "ACCEPTED"
    <3>1. passes[p].left # {}
      BY <2>1, <2>6, TypesAtHand DEF PassesKnown
    <3>2. PICK r \in passes[p].left : credentials[r].status # "REVOKED"
      BY <1>7, <2>6, <3>1 DEF Overtaken
    <3>3. /\ r \in Requests /\ r \notin expired
          /\ credentials[r] # None /\ credentials[r].status = "ACCEPTED"
      BY <2>1, <2>2, <3>2, TypesAtHand DEF PassesKnown
    <3>4. created[r] = credentials[r]
      BY <3>3 DEF Withdrawn
    <3> QED
      BY <3>3, <3>4
  <2> HIDE DEF created
  <2> QED
    BY <1>1, <2>4, <2>5, <2>6
<1>8. ASSUME NEW state \in Readiness, UpdateReadiness(state)
      PROVE  Backed'
  <2>1. job'.by = "hand"
    BY <1>8, TypesAtHand DEF UpdateReadiness, AccessTypeOK
  <2> QED
    BY <2>1 DEF Backed
<1>9. ASSUME EditJob
      PROVE  Backed'
  BY <1>9, TypesAtHand DEF EditJob, AccessTypeOK, Backed, With
<1>10. ASSUME NEW h \in Handlers, CreateCandidate(h)
       PROVE  Backed'
  <2>1. work[h].reply \in Requests
    BY <1>10, TypesAtHand, Doing, RecoveriesAreMessages DEF CreateCandidate, At
  <2> QED
    BY <1>2, <1>3, <1>10, <2>1 DEF CreateCandidate, accessVars
<1>11. ASSUME NEW h \in Handlers, InitiateNew(h) \/ \E m \in Recoveries : ReadToInitiate(h, m)
       PROVE  Backed'
  <2>1. credentials' = credentials /\ \E unchanged : job' = [job EXCEPT !.unchanged = unchanged]
    BY <1>11, InitiateNewDoes DEF ReadToInitiate
  <2> QED
    BY <2>1, TypesAtHand DEF AccessTypeOK, Backed, With
<1>12. ASSUME NEW h \in Handlers, Recovering(h), ~CreateCandidate(h), ~InitiateNew(h),
              \A m \in Recoveries : ~ReadToInitiate(h, m)
       PROVE  UNCHANGED accessVars
  BY <1>12 DEF Recovering, InitiateAgain, Register, FinishDelivery, ReadRecovery, WriteRecovery, Close
<1>13. ASSUME NEW h \in Handlers, Sending(h)
       PROVE  UNCHANGED accessVars
  BY <1>13 DEF Sending
<1>14. ASSUME NEW l \in letters, Inbound(l)
       PROVE  UNCHANGED accessVars
  BY <1>14 DEF Inbound
<1>15. UNCHANGED recoveryVars => UNCHANGED accessVars
  BY DEF recoveryVars
<1>16. UNCHANGED accessVars => Backed'
  BY <1>2 DEF accessVars
<1>17. ASSUME NEW p \in Lookers, FindExpired(p, now) \/ JudgeRest(p, now)
       PROVE  Backed'
  BY <1>2, <1>17 DEF FindExpired, JudgeRest
<1>18. Credentials => Backed' \/ \E p \in Lookers : Overtaken(p)
  BY <1>3, <1>4, <1>6, <1>7, <1>8, <1>9, <1>17 DEF Credentials
<1> QED
  BY <1>10, <1>11, <1>12, <1>13, <1>14, <1>15, <1>16, <1>18 DEF Next

\* A readiness of RECEIVED that nobody set by hand and that rests on a credential that
\* was accepted and not withdrawn goes on resting on one: in whatever order credentials
\* are created, reviewed, revoked and found expired, the operation that takes the last
\* one away says so, but for a pass over the expired ones that judged by credentials
\* of which every one was withdrawn before it committed.
THEOREM ReceivedHasCredential == Spec => ReceivedIsBacked
<1> DEFINE Excepted == Backed => \/ Backed'
                                 \/ \E p \in Lookers :
                                      /\ Expire(p) /\ passes[p].left # {}
                                      /\ \A r \in passes[p].left : credentials[r].status = "REVOKED"
<1>1. TypeInv /\ [Next]_recoveryVars => [Excepted]_accessVars
  BY CredentialsBacked DEF Overtaken
<1> QED
  BY <1>1, TypesHold, PTL DEF Spec, ReceivedIsBacked

-----------------------------------------------------------------------------
(* A Messenger message is heard once *)

\* Each time the provider has taken m, a process has died over it, or could not store it.
Excused(m) == Cardinality(outbox[m].taken) <= crashes

\* The provider has answered, and the answer is not a refusal.
Open(step) == step.pc = "answered" /\ step.answer # "refused"

\* A handler that has come to a message that is stored.
Busy(step) == step.pc \notin {"idle", "initiate"}

\* What was taken without such an excuse is on record as accepted, blocked for good,
\* or about to be one of the two: no call is made for it.
OnceInv ==
  /\ TakenOnce
  /\ \A m \in Messages :
       /\ \/ Excused(m) \/ Accepted(m) # {} \/ Blocked(m)
          \/ \E h \in Handlers : Open(work[h]) /\ work[h].m = m
       /\ Stored(m) => outbox[m].events[1].status = "PENDING"
       /\ PendingTwice(m) => Latest(m).status = "PENDING"
  /\ \A m \in Recoveries : recovery[m].status = "NONE" <=> ~Stored(m)
  /\ \A h \in Handlers :
       /\ Busy(work[h]) => Stored(work[h].m)
       /\ work[h].pc \in {"calling", "answered"} => ~PendingTwice(work[h].m)
       /\ work[h].pc = "calling" \/ (work[h].pc = "answered" /\ work[h].answer = "refused")
            => Excused(work[h].m)
       /\ work[h].pc = "answered" => work[h].id # 0

LEMMA TakenCounted ==
  ASSUME NEW S \in SUBSET (1..MaxCalls)
  PROVE  IsFiniteSet(S) /\ Cardinality(S) \in Nat
<1>1. IsFiniteSet(1..MaxCalls)
  BY DeliveryBounds, FS_Interval
<1> QED
  BY <1>1, FS_Subset, FS_CardinalityType

\* When one handler is at work, or begins, the others are idle.
LEMMA OthersIdle ==
  ASSUME TypeInv, Alone, Alone', NEW h \in Handlers, NEW step \in Step, Goes(h, step),
         work[h] # Idle \/ step # Idle
  PROVE  /\ work'[h] = step
         /\ \A g \in Handlers : g # h => work[g] = Idle /\ work'[g] = Idle
<1>1. work'[h] = step /\ \A g \in Handlers : g # h => work'[g] = work[g]
  BY TypesAtHand, OneGoes
<1> QED
  BY <1>1 DEF Alone

LEMMA SameEvents ==
  ASSUME NEW n \in Messages, outbox'[n].events = outbox[n].events
  PROVE  /\ Accepted(n)' = Accepted(n)
         /\ Blocked(n)' <=> Blocked(n)
         /\ Stored(n)' <=> Stored(n)
         /\ PendingTwice(n)' <=> PendingTwice(n)
         /\ Latest(n)' = Latest(n)
BY DEF Accepted, Places, Blocked, Stored, PendingTwice, Latest

\* An event that is not PENDING is appended, or there is one like it.
LEMMA AppendedOnce ==
  ASSUME DeliveryTypeOK, NEW m \in Messages, Stored(m), ~PendingTwice(m),
         NEW id \in Ids, NEW status \in {"ACCEPTED", "FAILED"},
         outbox'[m].events = Appended(m, status, id)
  PROVE  /\ Stored(m)' /\ outbox'[m].events[1] = outbox[m].events[1]
         /\ ~PendingTwice(m)'
         /\ status = "ACCEPTED" /\ id # 0 => Accepted(m)' # {}
<1> DEFINE events == outbox[m].events
           event  == [status |-> status, id |-> id, at |-> now]
<1>1. events \in Seq(Events) /\ Len(events) \in Nat /\ DOMAIN events = 1..Len(events)
      /\ events # <<>> /\ Len(events) # 0
  BY MessageTyped, SeqDomain, EmptySeq DEF Stored
<1>2. CASE \E i \in DOMAIN events : events[i].status = status /\ events[i].id = id
  <2>1. outbox'[m].events = events
    BY <1>2 DEF Appended
  <2> QED
    BY <1>2, <2>1, SameEvents DEF Accepted, Places
<1>3. CASE ~ \E i \in DOMAIN events : events[i].status = status /\ events[i].id = id
  <2>1. outbox'[m].events = Append(events, event)
    BY <1>3 DEF Appended
  <2>2. event \in Events /\ event.status = status /\ event.id = id
    BY DEF DeliveryTypeOK, Events
  <2> HIDE DEF event
  <2> DEFINE new == Append(events, event)
  <2>3. /\ new # <<>> /\ DOMAIN new = DOMAIN events \cup {Len(events) + 1}
        /\ \A i \in DOMAIN events : new[i] = events[i]
        /\ new[Len(events) + 1] = event
    BY <1>1, <2>2, OneMoreAtTheEnd
  <2> HIDE DEF new
  <2>4. 1 \in DOMAIN events
    BY <1>1
  <2>5. \A i \in DOMAIN new : new[i].status = "PENDING" => i \in DOMAIN events /\ events[i].status = "PENDING"
    BY <2>2, <2>3
  <2>6. outbox'[m].events = new
    BY <2>1 DEF new
  <2>7. ~PendingTwice(m)'
    BY <2>5, <2>6 DEF PendingTwice, Places
  <2>8. status = "ACCEPTED" /\ id # 0 => Len(events) + 1 \in Accepted(m)'
    BY <2>2, <2>3, <2>6 DEF Accepted, Places
  <2> QED
    BY <2>3, <2>4, <2>6, <2>7, <2>8 DEF Stored
<1> QED
  BY <1>2, <1>3

\* One more PENDING blocks the message.
LEMMA AnotherPendingBlocks ==
  ASSUME DeliveryTypeOK, NEW m \in Messages, Stored(m), ~PendingTwice(m),
         outbox[m].events[1].status = "PENDING",
         outbox'[m].events = WithAnotherPending(m)
  PROVE  Stored(m)' /\ outbox'[m].events[1] = outbox[m].events[1] /\ Blocked(m)'
<1> DEFINE events == outbox[m].events
           event  == [status |-> "PENDING", id |-> 0, at |-> now]
           new    == Append(events, event)
<1>1. events \in Seq(Events) /\ Len(events) \in Nat /\ DOMAIN events = 1..Len(events)
      /\ events # <<>> /\ Len(events) # 0
  BY MessageTyped, SeqDomain, EmptySeq DEF Stored
<1>2. outbox'[m].events = new
  BY DEF WithAnotherPending
<1>3. event \in Events /\ event.status = "PENDING"
  BY DeliveryBounds DEF DeliveryTypeOK, Events, Ids
<1> HIDE DEF event
<1>4. /\ new # <<>> /\ DOMAIN new = DOMAIN events \cup {Len(events) + 1}
      /\ \A i \in DOMAIN events : new[i] = events[i]
      /\ new[Len(events) + 1] = event /\ Last(new) = event
  BY <1>1, <1>3, OneMoreAtTheEnd
<1> HIDE DEF new
<1>5. 1 \in DOMAIN events /\ 1 # Len(events) + 1
  BY <1>1
<1>6. 1 \in Places(m, "PENDING")' /\ Len(events) + 1 \in Places(m, "PENDING")'
  BY <1>2, <1>3, <1>4, <1>5 DEF Places
<1>7. PendingTwice(m)'
  BY <1>5, <1>6 DEF PendingTwice
<1>8. Latest(m)'.status = "PENDING"
  BY <1>2, <1>3, <1>4 DEF Latest
<1> QED
  BY <1>2, <1>4, <1>5, <1>7, <1>8 DEF Blocked, Stored

\* A message that has just been stored.
LEMMA StoredOnce ==
  ASSUME NEW m \in Messages,
         outbox'[m].events = <<[status |-> "PENDING", id |-> 0, at |-> now]>>
  PROVE  Stored(m)' /\ outbox'[m].events[1].status = "PENDING" /\ ~PendingTwice(m)'
<1> DEFINE first == <<[status |-> "PENDING", id |-> 0, at |-> now]>>
<1>1. DOMAIN first = {1} /\ first[1].status = "PENDING" /\ first # <<>>
  BY FirstIsPending, EmptySeq
<1> HIDE DEF first
<1>2. outbox'[m].events = first
  BY DEF first
<1> QED
  BY <1>1, <1>2 DEF Stored, PendingTwice, Places

\* What has to be shown of a step of one handler about one message.
LEMMA OneStep ==
  ASSUME TypeInv, OnceInv, Alone, Alone', NEW h \in Handlers, NEW m \in Messages,
         NEW step \in Step, Goes(h, step), work[h] # Idle \/ step # Idle,
         work[h] # Idle => work[h].m = m,
         step # Idle => step.m = m,
         \A n \in Messages : n # m => outbox'[n] = outbox[n],
         UNCHANGED crashes, Cardinality(outbox'[m].taken) <= 1 + crashes,
         Excused(m)' \/ Accepted(m)' # {} \/ Blocked(m)' \/ Open(step),
         Stored(m)' /\ outbox'[m].events[1].status = "PENDING",
         PendingTwice(m)' => Latest(m)'.status = "PENDING",
         \A n \in Recoveries : recovery'[n].status = "NONE" <=> n # m /\ recovery[n].status = "NONE",
         step.pc \in {"calling", "answered"} => ~PendingTwice(m)',
         step.pc = "calling" \/ (step.pc = "answered" /\ step.answer = "refused")
           => Excused(m)',
         step.pc = "answered" => step.id # 0
  PROVE  OnceInv'
<1>1. work'[h] = step /\ \A g \in Handlers : g # h => work[g] = Idle /\ work'[g] = Idle
  BY OthersIdle
<1>2. \A n \in Messages : n # m => /\ Accepted(n)' = Accepted(n)
                                   /\ Blocked(n)' <=> Blocked(n)
                                   /\ Stored(n)' <=> Stored(n)
                                   /\ PendingTwice(n)' <=> PendingTwice(n)
                                   /\ Latest(n)' = Latest(n)
                                   /\ outbox'[n] = outbox[n]
                                   /\ Excused(n)' <=> Excused(n)
  BY SameEvents DEF Excused
<1>3. Idle.pc = "idle" /\ ~Open(Idle)
  BY DEF Idle, Open
<1>4. \A n \in Messages : n # m => ~ \E g \in Handlers : Open(work[g]) /\ work[g].m = n
  BY <1>1, <1>3
<1>5. TakenOnce'
  BY <1>2 DEF OnceInv, TakenOnce
<1>6. ASSUME NEW n \in Messages
      PROVE  /\ \/ Excused(n)' \/ Accepted(n)' # {} \/ Blocked(n)'
                \/ \E g \in Handlers : Open(work'[g]) /\ work'[g].m = n
             /\ Stored(n)' => outbox'[n].events[1].status = "PENDING"
             /\ PendingTwice(n)' => Latest(n)'.status = "PENDING"
  <2>1. CASE n = m
    BY <1>1, <1>3, <2>1
  <2>2. CASE n # m
    BY <1>2, <1>4, <2>2 DEF OnceInv
  <2> QED
    BY <2>1, <2>2
<1>7. \A n \in Recoveries : recovery'[n].status = "NONE" <=> ~Stored(n)'
  BY <1>2, RecoveriesAreMessages DEF OnceInv
<1>8. ASSUME NEW g \in Handlers, work'[g] # Idle
      PROVE  g = h /\ work'[g] = step /\ step.m = m
  BY <1>1, <1>8
<1>9. ASSUME NEW g \in Handlers
       PROVE  /\ Busy(work'[g]) => outbox'[work'[g].m].events # <<>>
              /\ work'[g].pc \in {"calling", "answered"} =>
                   work'[g].m = m /\ ~PendingTwice(m)'
              /\ work'[g].pc = "calling" \/ (work'[g].pc = "answered" /\ work'[g].answer = "refused")
                   => work'[g].m = m /\ Excused(m)'
              /\ work'[g].pc = "answered" => work'[g].id # 0
  BY <1>1, <1>3, <1>8 DEF Stored, Busy
<1> QED
  BY <1>5, <1>6, <1>7, <1>9 DEF OnceInv, Stored, PendingTwice, Places, Excused

\* A step that leaves the messages alone, of a handler that is not about to hear an
\* answer and does not go on to call.
LEMMA QuietStep ==
  ASSUME TypeInv, OnceInv, Alone, Alone', NEW h \in Handlers, NEW m \in Messages,
         NEW step \in Step, Goes(h, step), work[h] # Idle \/ step # Idle,
         work[h] # Idle => work[h].m = m,
         step # Idle => step.m = m,
         UNCHANGED <<outbox, crashes>>, Stored(m), ~Open(work[h]), step.pc \notin {"calling", "answered"},
         \A n \in Recoveries : recovery'[n].status = "NONE" <=> recovery[n].status = "NONE"
  PROVE  OnceInv'
<1>1. \A g \in Handlers : g # h => work[g] = Idle
  BY OthersIdle
<1>2. /\ Accepted(m)' = Accepted(m) /\ (Blocked(m)' <=> Blocked(m)) /\ Stored(m)'
      /\ (PendingTwice(m)' <=> PendingTwice(m)) /\ Latest(m)' = Latest(m)
      /\ (Excused(m)' <=> Excused(m))
  BY SameEvents DEF Excused
<1>3. Excused(m) \/ Accepted(m) # {} \/ Blocked(m)
  BY <1>1 DEF OnceInv, Open, Idle
<1>4. m \in Recoveries => recovery[m].status # "NONE"
  BY DEF OnceInv
<1>5. /\ Cardinality(outbox[m].taken) <= 1 + crashes
      /\ outbox[m].events[1].status = "PENDING"
      /\ PendingTwice(m) => Latest(m).status = "PENDING"
  BY DEF OnceInv, TakenOnce
<1> QED
  BY <1>2, <1>3, <1>4, <1>5, OneStep

OnePending(events) == \A i, j \in {k \in DOMAIN events : events[k].status = "PENDING"} : i = j

\* A handler that takes no message up, or leaves it, and heard nothing.
LEMMA LeavesAlone ==
  ASSUME TypeInv, OnceInv, NEW h \in Handlers, NEW step \in Step, Goes(h, step),
         UNCHANGED <<outbox, recovery, crashes>>, ~Open(work[h]), ~Busy(step)
  PROVE  OnceInv'
<1>1. work'[h] = step /\ \A g \in Handlers : g # h => work'[g] = work[g]
  BY TypesAtHand, OneGoes
<1>2. step.pc \notin {"calling", "answered"}
  BY DEF Busy
<1>3. \A n \in Messages : /\ Accepted(n)' = Accepted(n)
                          /\ Blocked(n)' <=> Blocked(n)
                          /\ Stored(n)' <=> Stored(n)
                          /\ PendingTwice(n)' <=> PendingTwice(n)
                          /\ Latest(n)' = Latest(n)
                          /\ Excused(n)' <=> Excused(n)
  BY SameEvents DEF Excused
<1>4. \A n \in Messages : (\E g \in Handlers : Open(work[g]) /\ work[g].m = n) =>
                           \E g \in Handlers : Open(work'[g]) /\ work'[g].m = n
  BY <1>1
<1>5. TakenOnce'
  BY DEF OnceInv, TakenOnce
<1>6. \A n \in Messages :
        /\ \/ Excused(n)' \/ Accepted(n)' # {} \/ Blocked(n)'
           \/ \E g \in Handlers : Open(work'[g]) /\ work'[g].m = n
        /\ Stored(n)' => outbox'[n].events[1].status = "PENDING"
        /\ PendingTwice(n)' => Latest(n)'.status = "PENDING"
  BY <1>3, <1>4 DEF OnceInv
<1>7. \A n \in Recoveries : recovery'[n].status = "NONE" <=> ~Stored(n)'
  BY <1>3, RecoveriesAreMessages DEF OnceInv
<1>8. \A g \in Handlers : work'[g] = work[g] \/ work'[g] = step
  BY <1>1
<1>9. /\ TakenOnce' /\ UNCHANGED <<outbox, crashes>>
  BY <1>5
<1>10. \A g \in Handlers :
         /\ Busy(work'[g]) => outbox'[work'[g].m].events # <<>>
         /\ work'[g].pc \in {"calling", "answered"} => OnePending(outbox'[work'[g].m].events)
         /\ work'[g].pc = "calling" \/ (work'[g].pc = "answered" /\ work'[g].answer = "refused")
              => Cardinality(outbox'[work'[g].m].taken) <= crashes'
         /\ work'[g].pc = "answered" => work'[g].id # 0
  BY <1>2, <1>8, <1>9 DEF OnceInv, Stored, PendingTwice, Places, OnePending, Excused, Busy
<1> QED
  BY <1>5, <1>6, <1>7, <1>10 DEF OnceInv, Stored, PendingTwice, Places, OnePending, Excused

LEMMA SendingOnce ==
  ASSUME TypeInv, OnceInv, Alone, Alone', NEW h \in Handlers, Sending(h)
  PROVE  OnceInv'
<1>1. UNCHANGED recovery
  BY DEF Sending
<1>2. ASSUME At(h, "ready") \/ At(h, "calling") \/ At(h, "answered") \/ At(h, "sent") \/ At(h, "thrown")
      PROVE  /\ work[h] # Idle /\ Busy(work[h])
             /\ \E m \in Messages : work[h].m = m
  BY <1>2, TypesAtHand, Doing DEF At, Idle, Busy
<1>3. ASSUME NEW m \in Messages, Busy(work[h]), work[h].m = m
      PROVE  /\ Stored(m) /\ outbox[m].events[1].status = "PENDING"
             /\ PendingTwice(m) => Latest(m).status = "PENDING"
             /\ Cardinality(outbox[m].taken) <= 1 + crashes
             /\ m \in Recoveries => recovery[m].status # "NONE"
  BY <1>3 DEF OnceInv, TakenOnce
<1>4. \A m, at : Sent(m, at).m = m /\ Sent(m, at).pc = "sent" /\ Thrown(m).m = m /\ Thrown(m).pc = "thrown"
  BY DEF Sent, Thrown
<1>5. CASE ReadMessage(h)
  <2>1. PICK m \in Messages : work[h].m = m /\ work[h] # Idle /\ Busy(work[h]) /\ ~Open(work[h])
    BY <1>2, <1>5 DEF ReadMessage, At, Open
  <2>2. Stored(m) /\ (PendingTwice(m) => Latest(m).status = "PENDING")
    BY <1>3, <2>1
  <2>3. /\ Thrown(m) \in Step /\ [pc |-> "calling", m |-> m] \in Step
        /\ Accepted(m) # {} => Sent(m, AcceptedAt(m)) \in Step
    BY TypesAtHand, AcceptedAtTyped, StepsTyped
  <2>4. UNCHANGED <<outbox, crashes>>
    BY <1>5 DEF ReadMessage
  <2>5. CASE \E step \in Step : Goes(h, step) /\ step.m = m /\ step.pc \notin {"calling", "answered"}
    BY <1>1, <2>1, <2>2, <2>4, <2>5, QuietStep
  <2>6. CASE /\ Accepted(m) = {} /\ ~Blocked(m)
             /\ Goes(h, [pc |-> "calling", m |-> m])
    <3> DEFINE step == [pc |-> "calling", m |-> m]
    <3>1. step \in Step /\ Goes(h, step) /\ step.m = m /\ step.pc = "calling"
      BY <2>3, <2>6
    <3> HIDE DEF step
    <3>2. \A g \in Handlers : g # h => work[g] = Idle
      BY <2>1, <3>1, OthersIdle
    <3>3. Excused(m) /\ ~PendingTwice(m)
      BY <2>1, <2>2, <2>6, <3>2 DEF OnceInv, Open, Idle, Blocked
    <3>4. Stored(m)' /\ ~PendingTwice(m)' /\ outbox'[m] = outbox[m] /\ Excused(m)'
      BY <2>2, <2>4, <3>3, SameEvents DEF Excused
    <3> QED
      BY <1>1, <1>3, <2>1, <2>4, <3>1, <3>3, <3>4, OneStep
  <2> QED
    BY <1>4, <1>5, <2>1, <2>3, <2>5, <2>6 DEF ReadMessage
<1>6. CASE Call(h)
  <2>1. PICK m \in Messages : work[h].m = m /\ work[h] # Idle /\ Busy(work[h]) /\ work[h].pc = "calling"
    BY <1>2, <1>6 DEF Call, At
  <2>2. PICK taken \in BOOLEAN : \E answer \in Answers(taken) :
          /\ outbox' = [outbox EXCEPT ![m].calls = outbox[m].calls + 1,
                                      ![m].taken = IF taken THEN @ \cup {outbox[m].calls + 1} ELSE @]
          /\ Goes(h, [pc |-> "answered", m |-> m, answer |-> answer, id |-> outbox[m].calls + 1])
    BY <1>6, <2>1 DEF Call
  <2>3. outbox[m].calls < MaxCalls
    BY <1>6, <2>1 DEF Call
  <2>4. /\ outbox[m].calls + 1 \in Ids /\ outbox[m].calls + 1 # 0
        /\ \A n \in Messages : outbox'[n].events = outbox[n].events
        /\ \A n \in Messages : n # m => outbox'[n] = outbox[n]
        /\ outbox'[m].taken = IF taken THEN outbox[m].taken \cup {outbox[m].calls + 1} ELSE outbox[m].taken
    BY <2>1, <2>2, <2>3, TypesAtHand, CallCounted
  <2>5. PICK answer \in Answers(taken) :
          Goes(h, [pc |-> "answered", m |-> m, answer |-> answer, id |-> outbox[m].calls + 1])
    BY <2>2
  <2> DEFINE step == [pc |-> "answered", m |-> m, answer |-> answer, id |-> outbox[m].calls + 1]
  <2>6. /\ step \in Step /\ step.m = m /\ step.pc = "answered" /\ step.answer = answer
        /\ step.id = outbox[m].calls + 1 /\ Goes(h, step)
    BY <2>4, <2>5, StepsTyped DEF Answers
  <2> HIDE DEF step
  <2>7. Excused(m) /\ ~PendingTwice(m)
    BY <2>1 DEF OnceInv
  <2>8. /\ Cardinality(outbox'[m].taken) <= 1 + crashes
        /\ Excused(m)' \/ Open(step)
        /\ step.answer = "refused" => Excused(m)'
    <3>1. UNCHANGED crashes /\ crashes \in Nat
      BY <1>6, TypesAtHand, DeliveryBounds DEF Call
    <3>2. CASE taken
      <4>1. IsFiniteSet(outbox[m].taken) /\ Cardinality(outbox[m].taken) \in Nat
        BY TypesAtHand, MessageTyped, TakenCounted
      <4>2. \A x : Cardinality(outbox[m].taken \cup {x})
                   \in {Cardinality(outbox[m].taken), Cardinality(outbox[m].taken) + 1}
        BY <4>1, FS_AddElement
      <4>3. Cardinality(outbox'[m].taken)
              \in {Cardinality(outbox[m].taken), Cardinality(outbox[m].taken) + 1}
        BY <2>4, <3>2, <4>2
      <4>4. Cardinality(outbox'[m].taken) <= 1 + crashes
        BY <2>7, <3>1, <4>1, <4>3 DEF Excused
      <4>5. Open(step) /\ step.answer # "refused"
        BY <2>5, <2>6, <3>2 DEF Answers, Open
      <4> QED
        BY <4>4, <4>5
    <3>3. CASE ~taken
      <4>1. outbox'[m].taken = outbox[m].taken
        BY <2>4, <3>3
      <4> QED
        BY <1>3, <2>1, <2>7, <3>1, <4>1 DEF Excused
    <3> QED
      BY <3>2, <3>3
  <2>9. Stored(m)' /\ ~PendingTwice(m)' /\ UNCHANGED crashes
    BY <1>3, <1>6, <2>1, <2>4, <2>7, SameEvents DEF Call
  <2> QED
    BY <1>1, <1>3, <2>1, <2>4, <2>6, <2>8, <2>9, OneStep
<1>7. CASE Record(h)
  <2>1. PICK m \in Messages : work[h].m = m /\ work[h] # Idle /\ Busy(work[h]) /\ work[h].pc = "answered"
    BY <1>2, <1>7 DEF Record, At
  <2>2. /\ Stored(m) /\ ~PendingTwice(m) /\ work[h].id \in Ids /\ work[h].id # 0 /\ 0 \in Ids
        /\ outbox[m].events[1].status = "PENDING"
        /\ work[h].answer = "refused" => Excused(m)
    BY <1>3, <2>1, TypesAtHand, Doing, DeliveryBounds DEF OnceInv, Ids
  <2>3. /\ Appended(m, "ACCEPTED", work[h].id) \in Seq(Events)
        /\ Appended(m, "FAILED", 0) \in Seq(Events)
        /\ WithAnotherPending(m) \in Seq(Events)
        /\ Thrown(m) \in Step /\ Sent(m, now) \in Step
        /\ Accepted(m) # {} => Sent(m, AcceptedAt(m)) \in Step
    BY <2>2, TypesAtHand, AppendedTyped, AnotherPendingTyped, AcceptedAtTyped, StepsTyped
  <2>4. ASSUME NEW e \in Seq(Events), outbox' = [outbox EXCEPT ![m].events = e],
               NEW step \in Step, Goes(h, step), step.m = m, step.pc \notin {"calling", "answered"},
               Stored(m)' /\ outbox'[m].events[1] = outbox[m].events[1],
               Excused(m) \/ Accepted(m)' # {} \/ Blocked(m)',
               PendingTwice(m)' => Latest(m)'.status = "PENDING"
        PROVE  OnceInv'
    <3>1. /\ \A n \in Messages : outbox'[n].taken = outbox[n].taken
          /\ \A n \in Messages : n # m => outbox'[n] = outbox[n]
      BY <2>4, TypesAtHand, EventsWritten
    <3>2. UNCHANGED crashes /\ (Excused(m)' <=> Excused(m))
      BY <1>7, <3>1 DEF Record, Excused
    <3> QED
      BY <1>1, <1>3, <2>1, <2>2, <2>4, <3>1, <3>2, OneStep
  <2>5. \A e \in Seq(Events) : outbox' = [outbox EXCEPT ![m].events = e] => outbox'[m].events = e
    BY TypesAtHand, EventsWritten
  <2>6. CASE /\ outbox' = [outbox EXCEPT ![m].events = Appended(m, "ACCEPTED", work[h].id)]
             /\ Goes(h, Sent(m, now))
    <3>1. /\ Stored(m)' /\ outbox'[m].events[1] = outbox[m].events[1]
          /\ ~PendingTwice(m)' /\ Accepted(m)' # {}
      BY <2>2, <2>3, <2>5, <2>6, TypesAtHand, AppendedOnce
    <3> QED
      BY <1>4, <2>3, <2>4, <2>6, <3>1
  <2>7. CASE /\ work[h].answer = "refused"
             /\ outbox' = [outbox EXCEPT ![m].events = Appended(m, "FAILED", 0)]
             /\ Goes(h, Thrown(m))
    <3>1. /\ Stored(m)' /\ outbox'[m].events[1] = outbox[m].events[1]
          /\ ~PendingTwice(m)'
      BY <2>2, <2>3, <2>5, <2>7, TypesAtHand, AppendedOnce
    <3> QED
      BY <1>4, <2>2, <2>3, <2>4, <2>7, <3>1
  <2>8. CASE Accepted(m) # {} /\ Goes(h, Sent(m, AcceptedAt(m))) /\ UNCHANGED outbox
    <3>1. \A e \in Seq(Events) : e = outbox[m].events => outbox' = [outbox EXCEPT ![m].events = e]
      BY <2>8, TypesAtHand DEF Outgoing
    <3>2. outbox[m].events \in Seq(Events) /\ Stored(m)' /\ Accepted(m)' # {} /\ ~PendingTwice(m)'
      BY <2>2, <2>8, TypesAtHand, MessageTyped, SameEvents
    <3> QED
      BY <1>4, <2>3, <2>4, <2>8, <3>1, <3>2
  <2>9. CASE /\ outbox' = [outbox EXCEPT ![m].events = WithAnotherPending(m)]
             /\ Goes(h, Thrown(m))
    <3>1. Stored(m)' /\ outbox'[m].events[1] = outbox[m].events[1] /\ Blocked(m)'
      BY <2>2, <2>3, <2>5, <2>9, TypesAtHand, AnotherPendingBlocks
    <3> QED
      BY <1>4, <2>3, <2>4, <2>9, <3>1 DEF Blocked
  <2> QED
    BY <1>7, <2>1, <2>6, <2>7, <2>8, <2>9 DEF Record
<1>8. ASSUME NEW m \in Messages \ Recoveries, StartReply(h, m)
      PROVE  OnceInv'
  <2> DEFINE step == [pc |-> "ready", m |-> m]
  <2>1. step \in Step /\ step # Idle /\ step.m = m /\ step.pc = "ready" /\ Goes(h, step)
    BY <1>8, StepsTyped DEF Idle, StartReply
  <2> HIDE DEF step
  <2>2. work[h] = Idle /\ ~Open(work[h])
    BY <1>8, TypesAtHand, Doing DEF StartReply, At, Open
  <2>3. CASE Stored(m)
    BY <1>1, <1>8, <2>1, <2>2, <2>3, QuietStep DEF StartReply
  <2>4. CASE ~Stored(m)
    <3>1. outbox' = [outbox EXCEPT ![m].events = <<[status |-> "PENDING", id |-> 0, at |-> now]>>]
      BY <1>8, <2>4 DEF StartReply, Store
    <3>2. <<[status |-> "PENDING", id |-> 0, at |-> now]>> \in Seq(Events)
      BY TypesAtHand, DeliveryBounds DEF Events, Ids
    <3>3. /\ \A n \in Messages : outbox'[n].taken = outbox[n].taken
          /\ \A n \in Messages : n # m => outbox'[n] = outbox[n]
          /\ Stored(m)' /\ outbox'[m].events[1].status = "PENDING" /\ ~PendingTwice(m)'
      BY <3>1, <3>2, TypesAtHand, EventsWritten, StoredOnce
    <3>4. \A g \in Handlers : work[g] = Idle
      BY <2>1, <2>2, OthersIdle
    <3>5. Excused(m) /\ Cardinality(outbox[m].taken) <= 1 + crashes
      BY <2>4, <3>4 DEF OnceInv, TakenOnce, Open, Idle, Stored, Accepted, Blocked, PendingTwice, Places
    <3>6. UNCHANGED crashes /\ Excused(m)' /\ Cardinality(outbox'[m].taken) <= 1 + crashes
      BY <1>8, <3>3, <3>5 DEF StartReply, Excused
    <3> QED
      BY <1>1, <1>8, <2>1, <2>2, <3>3, <3>6, OneStep
  <2> QED
    BY <2>3, <2>4
<1>9. CASE FinishReply(h)
  <2>1. PICK m \in Messages : work[h].m = m /\ work[h] # Idle /\ Busy(work[h]) /\ ~Open(work[h])
    BY <1>2, <1>9 DEF FinishReply, At, Open
  <2> QED
    BY <1>1, <1>3, <1>9, <2>1, QuietStep, StepsTyped DEF FinishReply, Idle
<1>10. ASSUME NEW step \in Step, Goes(h, step), crashes' = crashes + 1,
              \A n \in Messages : /\ outbox'[n].taken = outbox[n].taken
                                  /\ Stored(n)' <=> Stored(n)
                                  /\ Stored(n) => outbox'[n].events[1].status = "PENDING"
                                  /\ PendingTwice(n)' <=> PendingTwice(n)
                                  /\ PendingTwice(n) => Latest(n)'.status = "PENDING",
              Busy(step) => step.m \in Messages /\ Stored(step.m),
              step.pc \notin {"calling", "answered"}
       PROVE  OnceInv'
  <2>1. crashes \in Nat /\ \A n \in Messages : Cardinality(outbox[n].taken) \in Nat
    BY TypesAtHand, DeliveryBounds, MessageTyped, TakenCounted
  <2>2. TakenOnce' /\ \A n \in Messages : Excused(n)'
    BY <1>10, <2>1 DEF OnceInv, TakenOnce, Excused
  <2>3. work'[h] = step /\ \A g \in Handlers : g # h => work'[g] = work[g]
    BY <1>10, TypesAtHand, OneGoes
  <2>4. ASSUME NEW g \in Handlers, Busy(work'[g])
        PROVE  /\ work'[g].m \in Messages /\ Stored(work'[g].m)
               /\ work'[g].pc \in {"calling", "answered"} =>
                    ~PendingTwice(work'[g].m) /\ work'[g] = work[g]
    <3>1. CASE g = h
      BY <1>10, <2>3, <2>4, <3>1
    <3>2. CASE g # h
      <4>1. work'[g] = work[g] /\ work[g].m \in Messages
        BY <2>3, <2>4, <3>2, TypesAtHand, Doing DEF Busy, Idle
      <4> QED
        BY <2>4, <4>1 DEF OnceInv
    <3> QED
      BY <3>1, <3>2
  <2>5. \A n \in Messages : /\ Stored(n)' => outbox'[n].events[1].status = "PENDING"
                            /\ PendingTwice(n)' => Latest(n)'.status = "PENDING"
    BY <1>10
  <2>6. \A n \in Recoveries : recovery'[n].status = "NONE" <=> ~Stored(n)'
    BY <1>1, <1>10, RecoveriesAreMessages DEF OnceInv
  <2>7. ASSUME NEW g \in Handlers
        PROVE  /\ Busy(work'[g]) => outbox'[work'[g].m].events # <<>>
               /\ work'[g].pc \in {"calling", "answered"} =>
                    OnePending(outbox'[work'[g].m].events)
               /\ work'[g].pc = "calling" \/ (work'[g].pc = "answered" /\ work'[g].answer = "refused")
                    => Cardinality(outbox'[work'[g].m].taken) <= crashes'
               /\ work'[g].pc = "answered" => work'[g].id # 0
    <3>1. work'[g].pc \in {"calling", "answered"} => Busy(work'[g])
      BY DEF Busy
    <3>2. Busy(work'[g]) => outbox'[work'[g].m].events # <<>>
      BY <1>10, <2>4 DEF Stored
    <3>3. work'[g].pc \in {"calling", "answered"} => OnePending(outbox'[work'[g].m].events)
      <4>1. \A n \in Messages : ~PendingTwice(n)' => OnePending(outbox'[n].events)
        BY DEF PendingTwice, Places, OnePending
      <4>2. \A n \in Messages : ~PendingTwice(n) => ~PendingTwice(n)'
        BY <1>10
      <4> QED
        BY <2>4, <3>1, <4>1, <4>2
    <3>4. work'[g].pc \in {"calling", "answered"} => Cardinality(outbox'[work'[g].m].taken) <= crashes'
      BY <2>2, <2>4, <3>1 DEF Excused
    <3>5. work'[g].pc = "answered" => work'[g].id # 0
      BY <2>4, <3>1 DEF OnceInv
    <3> QED
      BY <3>2, <3>3, <3>4, <3>5
  <2> QED
    BY <2>2, <2>5, <2>6, <2>7 DEF OnceInv, Stored, PendingTwice, Places, OnePending, Excused
<1>12. CASE Crash(h)
  <2>1. UNCHANGED outbox /\ crashes' = crashes + 1 /\ Goes(h, Idle)
    BY <1>12 DEF Crash
  <2>2. Idle \in Step /\ ~Busy(Idle) /\ Idle.pc = "idle"
    BY StepsTyped DEF Idle, Busy
  <2>3. \A n \in Messages : /\ Stored(n)' <=> Stored(n)
                            /\ PendingTwice(n)' <=> PendingTwice(n)
                            /\ Latest(n)' = Latest(n)
    BY <2>1, SameEvents
  <2> QED
    BY <1>10, <2>1, <2>2, <2>3 DEF OnceInv
<1>13. CASE RecordFails(h)
  <2>1. PICK m \in Messages : work[h].m = m /\ work[h] # Idle /\ Busy(work[h]) /\ work[h].pc = "answered"
    BY <1>2, <1>13 DEF RecordFails, At
  <2>2. /\ Stored(m) /\ ~PendingTwice(m) /\ 0 \in Ids /\ outbox[m].events[1].status = "PENDING"
        /\ Thrown(m) \in Step /\ Thrown(m).m = m /\ Thrown(m).pc = "thrown"
    BY <1>3, <1>4, <2>1, StepsTyped, DeliveryBounds DEF OnceInv, Ids
  <2>3. crashes' = crashes + 1 /\ Goes(h, Thrown(m))
    BY <1>13, <2>1 DEF RecordFails
  <2>4. ASSUME \A n \in Messages : outbox'[n].taken = outbox[n].taken,
               \A n \in Messages : n # m => outbox'[n] = outbox[n],
               Stored(m)' /\ outbox'[m].events[1] = outbox[m].events[1] /\ ~PendingTwice(m)'
        PROVE  OnceInv'
    <3>1. ASSUME NEW n \in Messages
          PROVE  /\ outbox'[n].taken = outbox[n].taken
                 /\ Stored(n)' <=> Stored(n)
                 /\ Stored(n) => outbox'[n].events[1].status = "PENDING"
                 /\ PendingTwice(n)' <=> PendingTwice(n)
                 /\ PendingTwice(n) => Latest(n)'.status = "PENDING"
      <4>1. CASE n = m
        BY <2>2, <2>4, <4>1
      <4>2. CASE n # m
        <5>1. /\ outbox'[n] = outbox[n]
              /\ Stored(n)' <=> Stored(n)
              /\ PendingTwice(n)' <=> PendingTwice(n)
              /\ Latest(n)' = Latest(n)
          BY <2>4, <4>2, SameEvents
        <5> QED
          BY <5>1 DEF OnceInv
      <4> QED
        BY <4>1, <4>2
    <3> QED
      BY <1>10, <2>2, <2>3, <3>1
  <2>5. CASE UNCHANGED outbox
    BY <2>2, <2>4, <2>5, SameEvents
  <2>6. CASE outbox' = [outbox EXCEPT ![m].events = Appended(m, "FAILED", 0)]
    <3>1. Appended(m, "FAILED", 0) \in Seq(Events)
      BY <2>2, TypesAtHand, AppendedTyped
    <3>2. /\ outbox'[m].events = Appended(m, "FAILED", 0)
          /\ \A n \in Messages : n # m => outbox'[n] = outbox[n]
          /\ \A n \in Messages : outbox'[n].taken = outbox[n].taken
      BY <2>6, <3>1, TypesAtHand, EventsWritten
    <3>3. Stored(m)' /\ outbox'[m].events[1] = outbox[m].events[1] /\ ~PendingTwice(m)'
      BY <2>2, <3>2, TypesAtHand, AppendedOnce
    <3> QED
      BY <2>4, <3>2, <3>3
  <2> QED
    BY <1>13, <2>1, <2>5, <2>6 DEF RecordFails
<1>11. \A n \in Messages, id \in Ids, status \in Reported : ~StatusWebhook(h, n, id, status)
  BY DEF StatusWebhook, Alone
<1> QED
  BY <1>5, <1>6, <1>7, <1>8, <1>9, <1>11, <1>12, <1>13 DEF Sending

LEMMA RecoveringOnce ==
  ASSUME TypeInv, OnceInv, Alone, Alone', NEW h \in Handlers, Recovering(h)
  PROVE  OnceInv'
<1>1. ASSUME NEW m \in Messages, Busy(work[h]), work[h].m = m
      PROVE  /\ Stored(m)
             /\ m \in Recoveries => recovery[m].status # "NONE"
  BY <1>1 DEF OnceInv
<1>2. work[h] # Idle => \E m \in Messages : work[h].m = m
  BY TypesAtHand, Doing
<1>3. At(h, "idle") => work[h] = Idle /\ ~Open(work[h])
  BY TypesAtHand, Doing DEF At, Open
<1>13. ASSUME NEW m \in Recoveries, ReadToInitiate(h, m)
       PROVE  OnceInv'
  <2> DEFINE step == [pc |-> "initiate", m |-> m]
  <2>1. step \in Step /\ ~Busy(step) /\ Goes(h, step)
    BY <1>13, StepsTyped DEF Busy, ReadToInitiate
  <2>2. ~Open(work[h]) /\ UNCHANGED <<outbox, recovery, crashes>>
    BY <1>3, <1>13 DEF ReadToInitiate
  <2> HIDE DEF step
  <2> QED
    BY <2>1, <2>2, LeavesAlone
<1>14. CASE InitiateNew(h) /\ FoundThere(h)
  <2>1. ~Open(work[h]) /\ UNCHANGED <<outbox, recovery, crashes>>
    BY <1>14 DEF InitiateNew, FoundThere, At, Open
  <2>2. Idle \in Step /\ ~Busy(Idle) /\ Goes(h, Idle)
    BY <1>14, StepsTyped DEF FoundThere, Busy, Idle
  <2> QED
    BY <2>1, <2>2, LeavesAlone
<1>4. ASSUME InitiateNew(h), NEW m \in Recoveries, Initiated(h, m)
      PROVE  OnceInv'
  <2> DEFINE step == [pc |-> "ready", m |-> m]
  <2>1. step \in Step /\ step # Idle /\ step.m = m /\ step.pc = "ready" /\ Goes(h, step)
    BY <1>4, StepsTyped, RecoveriesAreMessages DEF Idle, Initiated
  <2> HIDE DEF step
  <2>2. /\ work[h] # Idle /\ work[h].m = m /\ ~Open(work[h]) /\ m \in Messages
        /\ ~Stored(m) /\ recovery[m].status = "NONE"
    BY <1>4, RecoveriesAreMessages DEF Initiated, OnceInv, At, Open, Idle
  <2>3. outbox' = [outbox EXCEPT ![m].events = <<[status |-> "PENDING", id |-> 0, at |-> now]>>]
        /\ recovery' = [recovery EXCEPT ![m].status = "PENDING_SEND"]
    BY <1>4 DEF Initiated, Store
  <2>4. <<[status |-> "PENDING", id |-> 0, at |-> now]>> \in Seq(Events)
    BY TypesAtHand, DeliveryBounds DEF Events, Ids
  <2>5. /\ \A n \in Messages : outbox'[n].taken = outbox[n].taken
        /\ \A n \in Messages : n # m => outbox'[n] = outbox[n]
        /\ Stored(m)' /\ outbox'[m].events[1].status = "PENDING" /\ ~PendingTwice(m)'
    BY <2>2, <2>3, <2>4, TypesAtHand, EventsWritten, StoredOnce
  <2>6. /\ recovery'[m].status = "PENDING_SEND"
        /\ \A n \in Recoveries : n # m => recovery'[n] = recovery[n]
    BY <2>3, TypesAtHand, RecoveryWritten
  <2>7. \A g \in Handlers : g # h => work[g] = Idle
    BY <2>1, <2>2, OthersIdle
  <2>8. Excused(m) /\ Cardinality(outbox[m].taken) <= 1 + crashes
    BY <2>2, <2>7 DEF OnceInv, TakenOnce, Open, Idle, Stored, Accepted, Blocked, PendingTwice, Places
  <2>9. UNCHANGED crashes /\ Excused(m)' /\ Cardinality(outbox'[m].taken) <= 1 + crashes
    BY <1>4, <2>2, <2>5, <2>8 DEF InitiateNew, Excused
  <2> QED
    BY <2>1, <2>2, <2>5, <2>6, <2>9, OneStep
<1>5. ASSUME NEW m \in Recoveries, InitiateAgain(h, m) \/ Register(h, m)
      PROVE  OnceInv'
  <2>1. m \in Messages /\ work[h] = Idle /\ ~Open(work[h]) /\ Stored(m)
    BY <1>3, <1>5, RecoveriesAreMessages DEF InitiateAgain, Register, OnceInv
  <2>2. CASE InitiateAgain(h, m)
    <3> DEFINE step == [pc |-> "ready", m |-> m]
    <3>1. step \in Step /\ step # Idle /\ step.m = m /\ step.pc = "ready" /\ Goes(h, step)
      BY <2>2, StepsTyped, RecoveriesAreMessages DEF Idle, InitiateAgain
    <3> HIDE DEF step
    <3> QED
      BY <2>1, <2>2, <3>1, QuietStep DEF InitiateAgain
  <2>3. CASE Register(h, m)
    <3> DEFINE step == [pc |-> "create", m |-> m, reply |-> recovery[m].response]
    <3>1. recovery[m].response \in Replies
      BY <2>3 DEF Register, TypeInv, AnswersKnown
    <3>2. step \in Step /\ step # Idle /\ step.m = m /\ step.pc = "create" /\ Goes(h, step)
      BY <2>3, <3>1, StepsTyped DEF Idle, Register
    <3> HIDE DEF step
    <3> QED
      BY <2>1, <2>3, <3>2, QuietStep DEF Register
  <2> QED
    BY <1>5, <2>2, <2>3
<1>6. ASSUME NEW m \in Recoveries, work[h].m = m, work[h] # Idle, Busy(work[h]), ~Open(work[h]),
             UNCHANGED <<outbox, crashes>>,
             NEW step \in Step, Goes(h, step), step = Idle \/ (step.m = m /\ step.pc \notin {"calling", "answered"}),
             \A n \in Recoveries : n # m => recovery'[n] = recovery[n],
             recovery'[m].status = "NONE" => recovery[m].status = "NONE"
      PROVE  OnceInv'
  <2>1. m \in Messages /\ Stored(m) /\ recovery[m].status # "NONE"
    BY <1>1, <1>6, RecoveriesAreMessages
  <2>2. step.pc \notin {"calling", "answered"}
    BY <1>6 DEF Idle
  <2>3. step # Idle => step.m = m
    BY <1>6
  <2> QED
    BY <1>6, <2>1, <2>2, <2>3, QuietStep
<1>7. CASE FinishDelivery(h)
  <2>1. PICK m \in Recoveries : m = work[h].m
    BY <1>7 DEF FinishDelivery
  <2>2. UNCHANGED <<outbox, crashes>> /\ Goes(h, Idle) /\ work[h] # Idle /\ Busy(work[h]) /\ ~Open(work[h])
    BY <1>7 DEF FinishDelivery, At, Idle, Open, Busy
  <2>3. \E status \in {"SENT", "SEND_FAILED"} :
          \/ recovery' = recovery
          \/ recovery' = [recovery EXCEPT ![m].status = status]
          \/ At(h, "sent") /\ recovery' = [recovery EXCEPT ![m].status = status, ![m].sentAt = work[h].at]
    <3>1. CASE At(h, "sent") /\ recovery' = [recovery EXCEPT ![m].status = "SENT", ![m].sentAt = work[h].at]
      BY <3>1
    <3>2. CASE recovery' = [recovery EXCEPT ![m].status = IF Latest(m).status = "FAILED" THEN "SEND_FAILED" ELSE @]
      <4>1. Latest(m).status # "FAILED" => recovery' = recovery
        BY <3>2, TypesAtHand DEF Recovery
      <4>2. Latest(m).status = "FAILED" => recovery' = [recovery EXCEPT ![m].status = "SEND_FAILED"]
        BY <3>2
      <4> QED
        BY <4>1, <4>2
    <3> QED
      BY <1>7, <2>1, <3>1, <3>2 DEF FinishDelivery
  <2>4. At(h, "sent") => work[h].at \in 0..MaxTime
    BY TypesAtHand, Doing DEF At
  <2>5. /\ \A n \in Recoveries : n # m => recovery'[n] = recovery[n]
        /\ recovery'[m].status = "NONE" => recovery[m].status = "NONE"
    BY <2>3, <2>4, TypesAtHand, RecoveryWritten
  <2> QED
    BY <1>6, <2>1, <2>2, <2>5, StepsTyped
<1>8. ~ReadRecovery(h) \/ UNCHANGED <<outbox, recovery, crashes>>
  BY DEF ReadRecovery
<1>9. CASE ReadRecovery(h)
  <2>1. PICK m \in Messages : work[h].m = m /\ work[h] # Idle /\ Busy(work[h]) /\ ~Open(work[h])
    BY <1>2, <1>9 DEF ReadRecovery, At, Idle, Open, Busy
  <2>2. work[h].at \in 0..MaxTime /\ work[h].status \in Reported
    BY <1>9, TypesAtHand, Doing DEF ReadRecovery, At
  <2>3. m \in Recoveries => recovery[m].sentAt \in -1..MaxTime
    BY TypesAtHand DEF Recovery
  <2>4. m \in Recoveries => (IF recovery[m].sentAt >= 0 THEN recovery[m].sentAt ELSE work[h].at) \in 0..MaxTime
    BY <2>2, <2>3, DeliveryBounds
  <2>5. \A at \in 0..MaxTime : m \in Recoveries =>
          /\ [pc |-> "write", m |-> m, status |-> work[h].status, at |-> at] \in Step
          /\ [pc |-> "write", m |-> m, status |-> work[h].status, at |-> at].m = m
          /\ [pc |-> "write", m |-> m, status |-> work[h].status, at |-> at].pc = "write"
    BY <2>2, StepsTyped
  <2>6. \E step \in Step : Goes(h, step) /\ step.pc \notin {"calling", "answered"} /\ (step = Idle \/ step.m = m)
    BY <1>9, <2>1, <2>4, <2>5, StepsTyped DEF ReadRecovery, Idle
  <2> QED
    BY <1>1, <1>8, <1>9, <2>1, <2>6, QuietStep
<1>10. CASE WriteRecovery(h)
  <2>1. PICK m \in Recoveries : m = work[h].m
    BY <1>10, TypesAtHand, Doing DEF WriteRecovery, At
  <2>2. UNCHANGED <<outbox, crashes>> /\ Goes(h, Idle) /\ work[h] # Idle /\ Busy(work[h]) /\ ~Open(work[h]) /\ work[h].at \in 0..MaxTime
    BY <1>10, TypesAtHand, Doing DEF WriteRecovery, At, Idle, Open, Busy
  <2>3. PICK status \in {"SENT", "SEND_FAILED"} :
          \/ recovery' = [recovery EXCEPT ![m].status = status]
          \/ recovery' = [recovery EXCEPT ![m].status = status, ![m].sentAt = work[h].at]
    BY <1>10, <2>1 DEF WriteRecovery
  <2>4. /\ \A n \in Recoveries : n # m => recovery'[n] = recovery[n]
        /\ recovery'[m].status = status
    <3>1. status \in {"NONE", "PENDING_SEND", "SENT", "SEND_FAILED", "RESPONSE_REQUIRES_REVIEW", "CLOSED"}
      OBVIOUS
    <3>2. CASE recovery' = [recovery EXCEPT ![m].status = status]
      BY <3>1, <3>2, TypesAtHand, RecoveryWritten
    <3>3. CASE recovery' = [recovery EXCEPT ![m].status = status, ![m].sentAt = work[h].at]
      BY <2>2, <3>1, <3>3, TypesAtHand, RecoveryWritten
    <3> QED
      BY <2>3, <3>2, <3>3
  <2> QED
    BY <1>6, <2>1, <2>2, <2>4, StepsTyped
<1>11. CASE CreateCandidate(h)
  <2>1. PICK m \in Recoveries : m = work[h].m
    BY <1>11, TypesAtHand, Doing DEF CreateCandidate, At
  <2>2. UNCHANGED <<outbox, recovery, crashes>> /\ work[h] # Idle /\ Busy(work[h]) /\ ~Open(work[h])
    BY <1>11 DEF CreateCandidate, At, Idle, Open, Busy
  <2>3. [pc |-> "close", m |-> m] \in Step /\ [pc |-> "close", m |-> m].m = m
        /\ [pc |-> "close", m |-> m].pc = "close"
    BY StepsTyped
  <2>4. Goes(h, [pc |-> "close", m |-> m]) \/ Goes(h, Idle)
    BY <1>11, <2>1 DEF CreateCandidate
  <2> QED
    BY <1>6, <2>1, <2>2, <2>3, <2>4, StepsTyped
<1>12. CASE Close(h)
  <2>1. PICK m \in Recoveries : m = work[h].m
    BY <1>12, TypesAtHand, Doing DEF Close, At
  <2>2. UNCHANGED <<outbox, crashes>> /\ Goes(h, Idle) /\ work[h] # Idle /\ Busy(work[h]) /\ ~Open(work[h])
    BY <1>12 DEF Close, At, Idle, Open, Busy
  <2>3. recovery' = [recovery EXCEPT ![m].status = "CLOSED"]
    BY <1>12, <2>1 DEF Close
  <2>4. /\ \A n \in Recoveries : n # m => recovery'[n] = recovery[n]
        /\ recovery'[m].status # "NONE"
    BY <2>3, TypesAtHand, RecoveryWritten
  <2> QED
    BY <1>6, <2>1, <2>2, <2>4, StepsTyped
<1> QED
  BY <1>4, <1>5, <1>7, <1>9, <1>10, <1>11, <1>12, <1>13, <1>14, InitiateNewDoes DEF Recovering

\* While one request at a time sends, the Customer on Messenger has every message once
\* at most, and once more for each process that died over one and each answer that could
\* not be stored: a second call is made only when the first was refused, for an unknown
\* outcome is one more PENDING, and the second PENDING blocks the message.
THEOREM OneAtATimeIsHeardOnce == Spec => HeardOnce
<1>1. Init => OnceInv
  <2> SUFFICES ASSUME Init PROVE OnceInv
    OBVIOUS
  <2>1. \A m \in Messages : outbox[m].events = <<>> /\ outbox[m].taken = {}
    BY DEF Init, DeliveryInit
  <2>2. \A m \in Messages : ~Stored(m) /\ Places(m, "PENDING") = {}
    BY <2>1 DEF Stored, Places
  <2>3. crashes = 0 /\ \A m \in Messages : Cardinality(outbox[m].taken) = 0
    BY <2>1, FS_EmptySet DEF Init, DeliveryInit
  <2> QED
    BY <2>1, <2>2, <2>3, RecoveriesAreMessages
    DEF Init, DeliveryInit, OnceInv, TakenOnce, Excused, Idle, Busy, PendingTwice
<1>2. TypeInv /\ OnceInv /\ Alone /\ Alone' /\ [Next]_recoveryVars => OnceInv'
  <2> SUFFICES ASSUME TypeInv, OnceInv, Alone, Alone', [Next]_recoveryVars PROVE OnceInv'
    OBVIOUS
  <2>1. ASSUME UNCHANGED <<outbox, work, crashes>>,
               \A m \in Recoveries : recovery'[m].status = "NONE" <=> recovery[m].status = "NONE"
        PROVE  OnceInv'
    BY <2>1 DEF OnceInv, TakenOnce, Excused, Accepted, Blocked, Stored, PendingTwice, Places, Latest
  <2>2. ASSUME NEW l \in letters, Inbound(l)
        PROVE  OnceInv'
    <3>1. \A m \in Recoveries : recovery'[m].status = "NONE" <=> recovery[m].status = "NONE"
      BY <2>2, TypesAtHand DEF Inbound, Recovery
    <3> QED
      BY <2>1, <2>2, <3>1 DEF Inbound, Persist
  <2>3. CASE (CustomerWrites \/ Tick) /\ UNCHANGED <<accessVars, recovery>>
    BY <2>1, <2>3 DEF CustomerWrites, Tick
  <2>4. CASE Credentials
    BY <2>1, <2>4 DEF Credentials, deliveryVars
  <2>5. CASE UNCHANGED recoveryVars
    BY <2>1, <2>5 DEF recoveryVars, deliveryVars
  <2> QED
    BY <2>2, <2>3, <2>4, <2>5, SendingOnce, RecoveringOnce DEF Next
<1>3. OnceInv => TakenOnce
  BY DEF OnceInv
<1> QED
  BY <1>1, <1>2, <1>3, TypesHold, PTL DEF Spec, HeardOnce

-----------------------------------------------------------------------------
(* The review *)

\* A handler that has the message of m on its way, or a status of it to write.
Sends(step, m) == step.pc \in {"ready", "calling", "answered", "sent", "thrown", "write"} /\ step.m = m

\* An answer is linked to a recovery only while no request has its message on the way
\* and no webhook has a status of it in hand.
AnsweredInQuiet ==
  [][\A m \in Recoveries :
       recovery[m].status # "RESPONSE_REQUIRES_REVIEW" /\ recovery'[m].status = "RESPONSE_REQUIRES_REVIEW" =>
         \A h \in Handlers : ~Sends(work[h], m)]_recoveryVars

\* Nobody writes the status of a recovery that waits for its review.
ReviewInv ==
  \A m \in Recoveries : recovery[m].status = "RESPONSE_REQUIRES_REVIEW" =>
    \A h \in Handlers : ~Sends(work[h], m)

\* The message of a recovery in review is not taken up again, neither by the request
\* nor by a webhook; and what a handler sends is what it has sent before.
LEMMA SendersStay ==
  ASSUME TypeInv, NEW h \in Handlers, Sending(h) \/ Recovering(h),
         NEW m \in Recoveries, recovery[m].status = "RESPONSE_REQUIRES_REVIEW"
  PROVE  \A g \in Handlers : Sends(work'[g], m) => Sends(work[g], m)
<1>1. ASSUME NEW step, Goes(h, step), Sends(step, m) => Sends(work[h], m)
      PROVE  \A g \in Handlers : Sends(work'[g], m) => Sends(work[g], m)
  BY <1>1, TypesAtHand DEF Goes
<1>2. ~Sends(Idle, m)
  BY DEF Sends, Idle
<1>3. \A n, at : Sends(Sent(n, at), m) <=> n = m
  BY DEF Sends, Sent
<1>4. \A n : Sends(Thrown(n), m) <=> n = m
  BY DEF Sends, Thrown
<1>5. \A n : Sends([pc |-> "ready", m |-> n], m) <=> n = m
  BY DEF Sends
<1>6. CASE ReadMessage(h)
  <2>1. Sends([pc |-> "calling", m |-> work[h].m], m) <=> work[h].m = m
    BY DEF Sends
  <2>2. work[h].m = m => Sends(work[h], m)
    BY <1>6 DEF ReadMessage, At, Sends
  <2>3. \/ \E at : Goes(h, Sent(work[h].m, at))
        \/ Goes(h, Thrown(work[h].m))
        \/ Goes(h, [pc |-> "calling", m |-> work[h].m])
    BY <1>6 DEF ReadMessage
  <2> QED
    BY <1>1, <1>3, <1>4, <2>1, <2>2, <2>3
<1>7. CASE Call(h)
  <2>1. \A answer, id :
          Sends([pc |-> "answered", m |-> work[h].m, answer |-> answer, id |-> id], m) <=> work[h].m = m
    BY DEF Sends
  <2>2. work[h].m = m => Sends(work[h], m)
    BY <1>7 DEF Call, At, Sends
  <2>3. \E answer, id : Goes(h, [pc |-> "answered", m |-> work[h].m, answer |-> answer, id |-> id])
    BY <1>7 DEF Call
  <2> QED
    BY <1>1, <2>1, <2>2, <2>3
<1>8. CASE Record(h)
  <2>1. work[h].m = m => Sends(work[h], m)
    BY <1>8 DEF Record, At, Sends
  <2>2. \/ \E at : Goes(h, Sent(work[h].m, at))
        \/ Goes(h, Thrown(work[h].m))
    BY <1>8 DEF Record
  <2> QED
    BY <1>1, <1>3, <1>4, <2>1, <2>2
<1>9. ASSUME NEW n \in Messages \ Recoveries, StartReply(h, n)
      PROVE  \A g \in Handlers : Sends(work'[g], m) => Sends(work[g], m)
  BY <1>1, <1>5, <1>9 DEF StartReply
<1>10. ASSUME NEW n \in Messages, NEW id \in Ids, NEW status \in Reported, StatusWebhook(h, n, id, status)
       PROVE  \A g \in Handlers : Sends(work'[g], m) => Sends(work[g], m)
  <2>1. ~Sends([pc |-> "reconcile", m |-> n, status |-> status, at |-> now], m)
    BY DEF Sends
  <2> QED
    BY <1>1, <1>10, <2>1 DEF StatusWebhook
<1>11. CASE FinishReply(h) \/ Crash(h) \/ FinishDelivery(h) \/ WriteRecovery(h) \/ Close(h)
  BY <1>1, <1>2, <1>11 DEF FinishReply, Crash, FinishDelivery, WriteRecovery, Close
<1>12. ASSUME NEW n \in Recoveries, Initiated(h, n) \/ InitiateAgain(h, n)
       PROVE  \A g \in Handlers : Sends(work'[g], m) => Sends(work[g], m)
  BY <1>1, <1>5, <1>12 DEF Initiated, InitiateAgain
<1>16. CASE FoundThere(h)
  BY <1>1, <1>2, <1>16 DEF FoundThere
<1>17. ASSUME NEW n \in Recoveries, ReadToInitiate(h, n)
       PROVE  \A g \in Handlers : Sends(work'[g], m) => Sends(work[g], m)
  <2>1. ~Sends([pc |-> "initiate", m |-> n], m)
    BY DEF Sends
  <2> QED
    BY <1>1, <1>17, <2>1 DEF ReadToInitiate
<1>18. CASE RecordFails(h)
  <2>1. work[h].m = m => Sends(work[h], m)
    BY <1>18 DEF RecordFails, At, Sends
  <2>2. Goes(h, Thrown(work[h].m))
    BY <1>18 DEF RecordFails
  <2> QED
    BY <1>1, <1>4, <2>1, <2>2
<1>13. ASSUME NEW n \in Recoveries, Register(h, n)
       PROVE  \A g \in Handlers : Sends(work'[g], m) => Sends(work[g], m)
  <2>1. ~Sends([pc |-> "create", m |-> n, reply |-> recovery[n].response], m)
    BY DEF Sends
  <2> QED
    BY <1>1, <1>13, <2>1 DEF Register
<1>14. CASE ReadRecovery(h)
  <2>1. \A n, status, at : n # m => ~Sends([pc |-> "write", m |-> n, status |-> status, at |-> at], m)
    BY DEF Sends
  <2>2. \/ Goes(h, Idle)
        \/ \E status, at : /\ work[h].m # m
                           /\ Goes(h, [pc |-> "write", m |-> work[h].m, status |-> status, at |-> at])
    BY <1>14 DEF ReadRecovery
  <2> QED
    BY <1>1, <1>2, <2>1, <2>2
<1>15. CASE CreateCandidate(h)
  <2>1. ~Sends([pc |-> "close", m |-> work[h].m], m)
    BY DEF Sends
  <2>2. Goes(h, Idle) \/ Goes(h, [pc |-> "close", m |-> work[h].m])
    BY <1>15 DEF CreateCandidate
  <2> QED
    BY <1>1, <1>2, <2>1, <2>2
<1> QED
  BY <1>6, <1>7, <1>8, <1>9, <1>10, <1>11, <1>12, <1>13, <1>14, <1>15, <1>16, <1>17, <1>18,
     InitiateNewDoes
  DEF Sending, Recovering

\* What a handler writes of a recovery is that it waits to be sent, or the status of a
\* message it sends; or it closes the recovery.
LEMMA WritersSend ==
  ASSUME TypeInv, NEW h \in Handlers, Sending(h) \/ Recovering(h), NEW m \in Recoveries
  PROVE  \/ recovery'[m] = recovery[m]
         \/ recovery'[m].status = "CLOSED"
         \/ recovery[m].status = "NONE" /\ recovery'[m].status = "PENDING_SEND"
         \/ Sends(work[h], m) /\ recovery'[m].status \in {"SENT", "SEND_FAILED"}
<1> DEFINE n == work[h].m
<1>1. UNCHANGED recovery => recovery'[m] = recovery[m]
  OBVIOUS
<1>2. Sending(h) => UNCHANGED recovery
  BY DEF Sending
<1>3. ASSUME NEW k \in Recoveries, Initiated(h, k)
      PROVE  \/ recovery'[m] = recovery[m]
             \/ recovery[m].status = "NONE" /\ recovery'[m].status = "PENDING_SEND"
  BY <1>3, TypesAtHand, RecoveryWritten DEF Initiated
<1>4. ASSUME NEW k \in Recoveries, ReadToInitiate(h, k) \/ InitiateAgain(h, k) \/ Register(h, k)
      PROVE  UNCHANGED recovery
  BY <1>4 DEF ReadToInitiate, InitiateAgain, Register
<1>9. FoundThere(h) => UNCHANGED recovery
  BY DEF FoundThere
<1>5. CASE FinishDelivery(h)
  <2>1. n \in Recoveries /\ (n = m => Sends(work[h], m))
    BY <1>5 DEF FinishDelivery, At, Sends
  <2>2. CASE At(h, "sent") /\ recovery' = [recovery EXCEPT ![n].status = "SENT", ![n].sentAt = work[h].at]
    <3>1. work[h].at \in 0..MaxTime
      BY <2>2, TypesAtHand, Doing DEF At
    <3> HIDE DEF n
    <3> QED
      BY <2>1, <2>2, <3>1, TypesAtHand, RecoveryWritten
  <2>3. CASE recovery' = [recovery EXCEPT ![n].status = IF Latest(n).status = "FAILED" THEN "SEND_FAILED" ELSE @]
    <3> HIDE DEF n
    <3>1. CASE Latest(n).status = "FAILED"
      <4>1. recovery' = [recovery EXCEPT ![n].status = "SEND_FAILED"]
        BY <2>3, <3>1
      <4> QED
        BY <2>1, <4>1, TypesAtHand, RecoveryWritten
    <3>2. CASE Latest(n).status # "FAILED"
      BY <2>1, <2>3, <3>2, TypesAtHand DEF Recovery
    <3> QED
      BY <3>1, <3>2
  <2> QED
    BY <1>5, <2>2, <2>3 DEF FinishDelivery
<1>6. CASE ReadRecovery(h) \/ CreateCandidate(h)
  BY <1>6 DEF ReadRecovery, CreateCandidate
<1>7. CASE WriteRecovery(h)
  <2>1. work[h].at \in 0..MaxTime /\ n \in Recoveries /\ (n = m => Sends(work[h], m))
    BY <1>7, TypesAtHand, Doing DEF WriteRecovery, At, Sends
  <2>2. \E status \in {"SENT", "SEND_FAILED"} :
          \/ recovery' = [recovery EXCEPT ![n].status = status]
          \/ recovery' = [recovery EXCEPT ![n].status = status, ![n].sentAt = work[h].at]
    BY <1>7 DEF WriteRecovery
  <2> HIDE DEF n
  <2> QED
    BY <2>1, <2>2, TypesAtHand, RecoveryWritten
<1>8. CASE Close(h)
  <2>1. n \in Recoveries /\ recovery' = [recovery EXCEPT ![n].status = "CLOSED"]
    BY <1>8, TypesAtHand, Doing DEF Close, At
  <2> HIDE DEF n
  <2> QED
    BY <2>1, TypesAtHand, RecoveryWritten
<1> QED
  BY <1>1, <1>2, <1>3, <1>4, <1>5, <1>6, <1>7, <1>8, <1>9, InitiateNewDoes DEF Recovering

\* The answer of the Customer can only be lost to a status that was on its way when it
\* came: if none was, the recovery waits for the review until it is closed, whatever
\* requests, webhooks, retries and crashes follow.
THEOREM OnlyOvertakenAnswersAreLost == Spec => (AnsweredInQuiet => AnswerStaysForReview)
<1> DEFINE Quiet == \A m \in Recoveries :
                      recovery[m].status # "RESPONSE_REQUIRES_REVIEW"
                        /\ recovery'[m].status = "RESPONSE_REQUIRES_REVIEW" =>
                        \A h \in Handlers : ~Sends(work[h], m)
           Stays == \A m \in Recoveries : recovery[m].status = "RESPONSE_REQUIRES_REVIEW" =>
                      recovery'[m].status \in {"RESPONSE_REQUIRES_REVIEW", "CLOSED"}
<1>1. Init => ReviewInv
  BY DEF Init, ReviewInv
<1>2. TypeInv /\ ReviewInv /\ [Quiet]_recoveryVars /\ [Next]_recoveryVars => ReviewInv' /\ Stays
  <2> SUFFICES ASSUME TypeInv, ReviewInv, [Quiet]_recoveryVars, [Next]_recoveryVars
               PROVE  ReviewInv' /\ Stays
    OBVIOUS
  <2>1. ASSUME UNCHANGED <<recovery, work>>
        PROVE  ReviewInv' /\ Stays
    BY <2>1 DEF ReviewInv
  <2>2. ASSUME NEW h \in Handlers, Sending(h) \/ Recovering(h)
        PROVE  ReviewInv' /\ Stays
    <3>1. ASSUME NEW m \in Recoveries, recovery[m].status = "RESPONSE_REQUIRES_REVIEW"
          PROVE  recovery'[m].status \in {"RESPONSE_REQUIRES_REVIEW", "CLOSED"}
      <4>1. ~Sends(work[h], m)
        BY <3>1 DEF ReviewInv
      <4> QED
        BY <2>2, <3>1, <4>1, WritersSend
    <3>2. ASSUME NEW m \in Recoveries, recovery'[m].status = "RESPONSE_REQUIRES_REVIEW",
                 NEW g \in Handlers
          PROVE  ~Sends(work'[g], m)
      <4>1. recovery[m].status = "RESPONSE_REQUIRES_REVIEW"
        BY <2>2, <3>2, WritersSend
      <4> QED
        BY <2>2, <4>1, SendersStay DEF ReviewInv
    <3> QED
      BY <3>1, <3>2 DEF ReviewInv
  <2>3. ASSUME NEW l \in letters, Inbound(l)
        PROVE  ReviewInv' /\ Stays
    <3>1. UNCHANGED work
      BY <2>3 DEF Inbound, Persist
    <3>2. \A m \in Recoveries : recovery'[m] = recovery[m] \/ recovery[m].status = "SENT"
      BY <2>3, TypesAtHand DEF Inbound
    <3>3. Quiet
      BY <2>1, <3>1 DEF recoveryVars
    <3> QED
      BY <3>1, <3>2, <3>3 DEF ReviewInv
  <2>4. CASE (CustomerWrites \/ Tick) /\ UNCHANGED <<accessVars, recovery>>
    BY <2>1, <2>4 DEF CustomerWrites, Tick
  <2>5. CASE Credentials
    BY <2>1, <2>5 DEF Credentials, deliveryVars
  <2>6. CASE UNCHANGED recoveryVars
    BY <2>1, <2>6 DEF recoveryVars, deliveryVars
  <2> QED
    BY <2>2, <2>3, <2>4, <2>5, <2>6 DEF Next
<1> QED
  BY <1>1, <1>2, TypesHold, PTL DEF Spec, AnsweredInQuiet, AnswerStaysForReview

=============================================================================
