--------------------------- MODULE MessageDelivery ---------------------------
(***************************************************************************)
(* The messages the API sends into one Customer conversation, over a       *)
(* provider whose answer may not come.  A message is stored before it is   *)
(* sent, with a PENDING status; a definite refusal is stored as FAILED, an *)
(* unknown outcome as one more PENDING, and WhatsApp tells the outcome     *)
(* later, by webhook.  Messenger never does.                               *)
(*                                                                         *)
(* The look-up before a status is appended is part of the step that        *)
(* appends it.                                                             *)
(***************************************************************************)
EXTENDS Integers, SequencesExt

CONSTANTS
  Messages,        \* the messages, by their idempotency keys
  Handlers,        \* requests and webhooks in progress at once
  Window,          \* the 24 hours Messenger allows for an answer
  MaxTime,         \* bound on the clock
  MaxCalls,        \* bound on the calls to the provider for a message
  MaxReplies,      \* bound on what the Customer writes
  MaxCrashes       \* bound on handlers that die, or fail to store an answer

ASSUME DeliveryBounds == {Window, MaxTime, MaxCalls, MaxReplies, MaxCrashes} \subseteq Nat

VARIABLES
  now,             \* the clock
  channel,         \* of the conversation
  outbox,          \* per message: its status events, and the provider's side
  letters,         \* what the Customer wrote and no webhook has brought yet
  inbound,         \* the Customer's messages stored
  work,            \* the handlers
  crashes          \* how often one has died, or failed so

deliveryVars == <<now, channel, outbox, letters, inbound, work, crashes>>

Replies == 1..MaxReplies
Letters == [key : Replies \cup {0}, at : 0..MaxTime]
Ids     == 0..MaxCalls                         \* provider message ids, 0 for none
Events  == [status : {"PENDING", "ACCEPTED", "FAILED"}, id : Ids, at : 0..MaxTime]

Outgoing == [events : Seq(Events), calls : 0..MaxCalls, taken : SUBSET (1..MaxCalls)]

Idle == [pc |-> "idle"]

DeliveryTypeOK ==
  /\ now \in 0..MaxTime
  /\ channel \in {"WHATSAPP", "MESSENGER"}
  /\ outbox \in [Messages -> Outgoing]
  /\ letters \subseteq Letters /\ inbound \subseteq Letters
  /\ crashes \in 0..MaxCrashes

\* The conversation exists because the Customer once wrote.
DeliveryInit ==
  /\ now = 0
  /\ channel \in {"WHATSAPP", "MESSENGER"}
  /\ outbox = [m \in Messages |-> [events |-> <<>>, calls |-> 0, taken |-> {}]]
  /\ letters = {}
  /\ inbound = {[key |-> 0, at |-> 0]}
  /\ work = [h \in Handlers |-> Idle]
  /\ crashes = 0

-----------------------------------------------------------------------------
(* What is stored of a message. *)

Stored(m)   == outbox[m].events # <<>>
Latest(m)   == Last(outbox[m].events)

\* The places of the events, by status; those of the acceptances that name the
\* message of the provider.
Places(m, status) == {i \in DOMAIN outbox[m].events : outbox[m].events[i].status = status}
Accepted(m)       == {i \in Places(m, "ACCEPTED") : outbox[m].events[i].id # 0}
AcceptedAt(m)     == outbox[m].events[Max(Accepted(m))].at

\* pendingCount >= 2
PendingTwice(m) == \E i, j \in Places(m, "PENDING") : i # j

\* Mutant of Blocked: an unknown outcome may be tried once more.
BlockedLater(m) == Latest(m).status = "PENDING" /\ Cardinality(Places(m, "PENDING")) >= 3

Blocked(m) == Latest(m).status = "PENDING" /\ PendingTwice(m)

InWindow == \E l \in inbound : l.at >= now - Window

Answerable == channel = "WHATSAPP" \/ InWindow

\* The events of m with one more, unless there is one like it.
Appended(m, status, id) ==
  LET events == outbox[m].events IN
  IF \E i \in DOMAIN events : events[i].status = status /\ events[i].id = id
    THEN events
    ELSE Append(events, [status |-> status, id |-> id, at |-> now])

WithAnotherPending(m) ==
  IF PendingTwice(m)
    THEN outbox[m].events
    ELSE Append(outbox[m].events, [status |-> "PENDING", id |-> 0, at |-> now])

Store(m) == outbox' = [outbox EXCEPT ![m].events = <<[status |-> "PENDING", id |-> 0, at |-> now]>>]

-----------------------------------------------------------------------------
(* Sending a message.  A handler goes through ready, calling and answered   *)
(* to sent or thrown, and its caller goes on from there.                    *)

At(h, pc) == work[h].pc = pc

Goes(h, step) == work' = [work EXCEPT ![h] = step]

Sent(m, at) == [pc |-> "sent", m |-> m, at |-> at]
Thrown(m)   == [pc |-> "thrown", m |-> m]

ReadMessage(h) ==
  LET m == work[h].m IN
  /\ At(h, "ready")
  /\ Goes(h, IF ~Answerable THEN Thrown(m)
             ELSE IF Accepted(m) # {} THEN Sent(m, AcceptedAt(m))
             ELSE IF Blocked(m) THEN Thrown(m) ELSE [pc |-> "calling", m |-> m])
  /\ UNCHANGED <<now, channel, outbox, letters, inbound, crashes>>

\* What send() of an adapter makes of the answer: a refusal, and a success, are
\* true, but any answer may be lost.
Answers(taken) == {IF taken THEN "ok" ELSE "refused", "lost"}

\* The provider takes the message or not.
Call(h) ==
  LET m == work[h].m
      id == outbox[m].calls + 1 IN
  /\ At(h, "calling")
  /\ outbox[m].calls < MaxCalls
  /\ \E taken \in BOOLEAN : \E answer \in Answers(taken) :
       /\ outbox' = [outbox EXCEPT ![m].calls = id,
                                   ![m].taken = IF taken THEN @ \cup {id} ELSE @]
       /\ Goes(h, [pc |-> "answered", m |-> m, answer |-> answer, id |-> id])
  /\ UNCHANGED <<now, channel, letters, inbound, crashes>>

Record(h) ==
  LET m == work[h].m
      Writes(events) == outbox' = [outbox EXCEPT ![m].events = events] IN
  /\ At(h, "answered")
  /\ \/ /\ work[h].answer = "ok"
        /\ Writes(Appended(m, "ACCEPTED", work[h].id))
        /\ Goes(h, Sent(m, now))
     \/ /\ work[h].answer = "refused"
        /\ Writes(Appended(m, "FAILED", 0))
        /\ Goes(h, Thrown(m))
     \/ /\ work[h].answer = "lost" /\ Accepted(m) # {}     \* the webhook was first
        /\ Goes(h, Sent(m, AcceptedAt(m)))
        /\ UNCHANGED outbox
     \/ /\ work[h].answer = "lost" /\ Accepted(m) = {}
        /\ Writes(WithAnotherPending(m))
        /\ Goes(h, Thrown(m))
  /\ UNCHANGED <<now, channel, letters, inbound, crashes>>

\* The answer is not stored: the database refuses the ACCEPTED, which the handler
\* takes for a refusal of the provider, or whatever it would write.
RecordFails(h) ==
  LET m == work[h].m IN
  /\ At(h, "answered") /\ crashes < MaxCrashes
  /\ crashes' = crashes + 1
  /\ \/ UNCHANGED outbox
     \/ /\ work[h].answer = "ok"
        /\ outbox' = [outbox EXCEPT ![m].events = Appended(m, "FAILED", 0)]
  /\ Goes(h, Thrown(m))
  /\ UNCHANGED <<now, channel, letters, inbound>>

\* A manual Messenger answer: it is stored once, and sent as often as asked.
StartReply(h, m) ==
  /\ At(h, "idle")
  /\ channel = "MESSENGER" /\ InWindow
  /\ IF Stored(m) THEN UNCHANGED outbox ELSE Store(m)
  /\ Goes(h, [pc |-> "ready", m |-> m])
  /\ UNCHANGED <<now, channel, letters, inbound, crashes>>

FinishReply(h) ==
  /\ work[h].pc \in {"sent", "thrown"}
  /\ Goes(h, Idle)
  /\ UNCHANGED <<now, channel, outbox, letters, inbound, crashes>>

-----------------------------------------------------------------------------
(* The provider, and the process. *)

\* The statuses WhatsApp reports, as they are stored.
Reported == {"ACCEPTED", "FAILED"}

\* WhatsApp's status of a message it took: sent, and perhaps failed, in any order.
StatusWebhook(h, m, id, status) ==
  /\ At(h, "idle")
  /\ channel = "WHATSAPP" /\ id \in outbox[m].taken
  /\ outbox' = [outbox EXCEPT ![m].events = Appended(m, status, id)]
  /\ Goes(h, [pc |-> "reconcile", m |-> m, status |-> status, at |-> now])
  /\ UNCHANGED <<now, channel, letters, inbound, crashes>>

CustomerWrites ==
  /\ \E key \in Replies :
       /\ \A l \in letters \cup inbound : l.key < key
       /\ \E l \in letters \cup inbound : l.key = key - 1
       /\ letters' = letters \cup {[key |-> key, at |-> now]}
  /\ UNCHANGED <<now, channel, outbox, inbound, work, crashes>>

\* A webhook that comes again finds the message stored and changes nothing.
Persist(l) ==
  /\ letters' = letters \ {l}
  /\ inbound' = inbound \cup {l}
  /\ UNCHANGED <<now, channel, outbox, work, crashes>>

Crash(h) ==
  /\ ~At(h, "idle") /\ crashes < MaxCrashes
  /\ crashes' = crashes + 1
  /\ Goes(h, Idle)
  /\ UNCHANGED <<now, channel, outbox, letters, inbound>>

Tick ==
  /\ now < MaxTime
  /\ now' = now + 1
  /\ UNCHANGED <<channel, outbox, letters, inbound, work, crashes>>

=============================================================================
