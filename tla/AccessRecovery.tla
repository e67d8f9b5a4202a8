--------------------------- MODULE AccessRecovery ---------------------------
(***************************************************************************)
(* Asking the Customer how to get in.  An administrator sends a request    *)
(* into the conversation; the first answer after it is linked to it and    *)
(* waits for review; the administrator registers it as a candidate for a   *)
(* credential, which closes the recovery.                                  *)
(*                                                                         *)
(* Three parties write the status of a recovery: the request that sends,   *)
(* the webhook that reports what became of the message, and the webhook    *)
(* that brings the answer.  The first two read it, and write it later      *)
(* without looking again.                                                  *)
(***************************************************************************)
EXTENDS MessageDelivery, AccessCredentials

CONSTANT Recoveries   \* the access recoveries of the Work Order

VARIABLE recovery

recoveryVars == <<deliveryVars, accessVars, recovery>>

ASSUME RecoveriesAreMessages == Recoveries \subseteq Messages /\ Replies \subseteq Requests
ASSUME TheyRead              == Recoveries \cup Handlers \subseteq Readers

Recovery ==
  [status   : {"NONE", "PENDING_SEND", "SENT", "SEND_FAILED", "RESPONSE_REQUIRES_REVIEW", "CLOSED"},
   sentAt   : -1..MaxTime,
   response : Replies \cup {0}]

\* What a handler is doing, with what it has read.
Step ==
  {Idle}
  \cup [pc : {"ready", "calling", "thrown"}, m : Messages]
  \cup [pc : {"answered"}, m : Messages, answer : {"ok", "refused", "lost"}, id : Ids]
  \cup [pc : {"sent"}, m : Messages, at : 0..MaxTime]
  \cup [pc : {"reconcile"}, m : Messages, status : Reported, at : 0..MaxTime]
  \cup [pc : {"write"}, m : Recoveries, status : Reported, at : 0..MaxTime]
  \cup [pc : {"create"}, m : Recoveries, reply : Replies]
  \cup [pc : {"initiate", "close"}, m : Recoveries]

RecoveryTypeOK ==
  /\ recovery \in [Recoveries -> Recovery]
  /\ work \in [Handlers -> Step]

TypeOK == DeliveryTypeOK /\ AccessTypeOK /\ RecoveryTypeOK

Init ==
  /\ DeliveryInit /\ AccessInit
  /\ recovery = [m \in Recoveries |-> [status |-> "NONE", sentAt |-> -1, response |-> 0]]

-----------------------------------------------------------------------------
(* The request. *)

\* The Work Order and its conversations are read ...
ReadToInitiate(h, m) ==
  /\ At(h, "idle")
  /\ recovery[m].status = "NONE" /\ Eligible /\ Answerable
  /\ job' = [job EXCEPT !.unchanged = @ \cup {h}]
  /\ Goes(h, [pc |-> "initiate", m |-> m])
  /\ UNCHANGED <<now, channel, outbox, letters, inbound, crashes, credentials, passes, recovery>>

\* ... before the recovery is stored with the updatedAt they had, once for a
\* request identity.
InitiateNew(h) ==
  LET m == work[h].m IN
  /\ At(h, "initiate")
  /\ job' = [job EXCEPT !.unchanged = IF recovery[m].status = "NONE" /\ h \in @ THEN (@ \ {h}) \cup {m}
                                     ELSE @ \ {h}]
  /\ IF recovery[m].status = "NONE"
       THEN /\ Store(m)
            /\ recovery' = [recovery EXCEPT ![m].status = "PENDING_SEND"]
            /\ Goes(h, [pc |-> "ready", m |-> m])
       ELSE UNCHANGED <<outbox, recovery>> /\ Goes(h, Idle)
  /\ UNCHANGED <<now, channel, letters, inbound, crashes, credentials, passes>>

\* The same request identity again: what was not sent is sent.
InitiateAgain(h, m) ==
  /\ At(h, "idle")
  /\ recovery[m].status \in {"PENDING_SEND", "SEND_FAILED"}
  /\ Goes(h, [pc |-> "ready", m |-> m])
  /\ UNCHANGED <<now, channel, outbox, letters, inbound, crashes, accessVars, recovery>>

\* Mutant of FinishDelivery: what is not refused is taken to be sent.
FinishAsSent(h) ==
  LET m == work[h].m IN
  /\ m \in Recoveries
  /\ work[h].pc \in {"sent", "thrown"}
  /\ recovery' = [recovery EXCEPT ![m].status = IF Latest(m).status = "FAILED" THEN "SEND_FAILED" ELSE "SENT",
                                  ![m].sentAt = now]
  /\ Goes(h, Idle)
  /\ UNCHANGED <<now, channel, outbox, letters, inbound, crashes, accessVars>>

FinishDelivery(h) ==
  LET m == work[h].m IN
  /\ m \in Recoveries
  /\ \/ /\ At(h, "sent")
        /\ recovery' = [recovery EXCEPT ![m].status = "SENT", ![m].sentAt = work[h].at]
     \/ /\ At(h, "thrown")
        /\ recovery' = [recovery EXCEPT ![m].status =
                          IF Latest(m).status = "FAILED" THEN "SEND_FAILED" ELSE @]
  /\ Goes(h, Idle)
  /\ UNCHANGED <<now, channel, outbox, letters, inbound, crashes, accessVars>>

-----------------------------------------------------------------------------
(* The webhooks. *)

ReadRecovery(h) ==
  LET m == work[h].m IN
  /\ At(h, "reconcile")
  /\ Goes(h, IF m \notin Recoveries \/ recovery[m].status \in {"RESPONSE_REQUIRES_REVIEW", "CLOSED"}
               THEN Idle
               ELSE [pc |-> "write", m |-> m, status |-> work[h].status,
                     at |-> IF recovery[m].sentAt >= 0 THEN recovery[m].sentAt ELSE work[h].at])
  /\ UNCHANGED <<now, channel, outbox, letters, inbound, crashes, accessVars, recovery>>

WriteRecovery(h) ==
  LET m == work[h].m IN
  /\ At(h, "write")
  /\ recovery' = IF work[h].status = "ACCEPTED"
       THEN [recovery EXCEPT ![m].status = "SENT", ![m].sentAt = work[h].at]
       ELSE [recovery EXCEPT ![m].status = "SEND_FAILED"]
  /\ Goes(h, Idle)
  /\ UNCHANGED <<now, channel, outbox, letters, inbound, crashes, accessVars>>

\* The latest recovery sent before the answer was written gets it.
Inbound(l) ==
  LET asked == {m \in Recoveries : recovery[m].status = "SENT" /\ recovery[m].sentAt <= l.at} IN
  /\ Persist(l)
  /\ \/ asked = {} /\ UNCHANGED recovery
     \/ \E m \in asked :
          /\ \A n \in asked : recovery[n].sentAt <= recovery[m].sentAt
          /\ recovery' = [recovery EXCEPT ![m].status = "RESPONSE_REQUIRES_REVIEW",
                                          ![m].response = l.key]
  /\ UNCHANGED accessVars

-----------------------------------------------------------------------------
(* The candidate. *)

\* Mutant of Register: the recovery is closed without waiting for the evidence.
RegisterBlindly(h, m) ==
  /\ At(h, "idle")
  /\ recovery[m].status = "RESPONSE_REQUIRES_REVIEW"
  /\ m \in job.unchanged /\ Eligible
  /\ Goes(h, [pc |-> "close", m |-> m])
  /\ UNCHANGED <<now, channel, outbox, letters, inbound, crashes, accessVars, recovery>>

\* Refused once the Work Order has changed since the request.
Register(h, m) ==
  /\ At(h, "idle")
  /\ recovery[m].status = "RESPONSE_REQUIRES_REVIEW"
  /\ m \in job.unchanged /\ Eligible
  /\ Goes(h, [pc |-> "create", m |-> m, reply |-> recovery[m].response])
  /\ UNCHANGED <<now, channel, outbox, letters, inbound, crashes, accessVars, recovery>>

CreateCandidate(h) ==
  LET reply == work[h].reply
      linked == \E m \in Recoveries : recovery[m].response = reply IN
  /\ At(h, "create")
  /\ IF linked \/ credentials[reply] # None
       THEN /\ \E span \in Spans : Create(reply, span)
            /\ Goes(h, [pc |-> "close", m |-> work[h].m])
       ELSE Goes(h, Idle) /\ UNCHANGED accessVars
  /\ UNCHANGED <<now, channel, outbox, letters, inbound, crashes, recovery>>

Close(h) ==
  /\ At(h, "close")
  /\ recovery' = [recovery EXCEPT ![work[h].m].status = "CLOSED"]
  /\ Goes(h, Idle)
  /\ UNCHANGED <<now, channel, outbox, letters, inbound, crashes, accessVars>>

-----------------------------------------------------------------------------

Credentials ==
  /\ \/ \E r \in Requests \ Replies, span \in Spans : Create(r, span)
     \/ \E r \in Requests : Accept(r, now) \/ Reject(r, now) \/ Revoke(r, now)
     \/ \E p \in Lookers : FindExpired(p, now) \/ JudgeRest(p, now) \/ Expire(p)
     \/ \E state \in Readiness : UpdateReadiness(state)
     \/ EditJob
  /\ UNCHANGED <<deliveryVars, recovery>>

Sending(h) ==
  /\ ReadMessage(h) \/ Call(h) \/ Record(h) \/ RecordFails(h)
     \/ (\E m \in Messages \ Recoveries : StartReply(h, m))
     \/ (work[h].pc \in {"sent", "thrown"} /\ work[h].m \notin Recoveries /\ FinishReply(h))
     \/ (\E m \in Messages, id \in Ids, status \in Reported :
           StatusWebhook(h, m, id, status))
     \/ Crash(h)
  /\ UNCHANGED <<accessVars, recovery>>

Recovering(h) ==
  \/ \E m \in Recoveries : ReadToInitiate(h, m) \/ InitiateAgain(h, m) \/ Register(h, m)
  \/ InitiateNew(h)
  \/ work[h].pc \in {"sent", "thrown"} /\ FinishDelivery(h)
  \/ ReadRecovery(h) \/ WriteRecovery(h) \/ CreateCandidate(h) \/ Close(h)

Next ==
  \/ \E h \in Handlers : Sending(h) \/ Recovering(h)
  \/ \E l \in letters : Inbound(l)
  \/ (CustomerWrites \/ Tick) /\ UNCHANGED <<accessVars, recovery>>
  \/ Credentials

Spec == Init /\ [][Next]_recoveryVars

-----------------------------------------------------------------------------
(* Properties *)

\* A recovery counts as sent, answered or closed only if the provider has taken
\* its message, whichever of the request and the webhooks wrote the status.
SentMeansTaken ==
  \A m \in Recoveries :
    recovery[m].status \in {"SENT", "RESPONSE_REQUIRES_REVIEW", "CLOSED"} => outbox[m].taken # {}

Closed == {m \in Recoveries : recovery[m].status = "CLOSED"}

\* Every closed recovery has an answer of the Customer for its own that has become a
\* candidate for a credential, also if the process died between the two: no answer
\* closes two recoveries.
ClosedHasEvidence ==
  \E evidence \in [Closed -> Replies] :
    /\ \A m \in Closed : credentials[evidence[m]] # None
    /\ \A m, n \in Closed : evidence[m] = evidence[n] => m = n

\* On Messenger, one request at a time is at work.
Alone ==
  /\ channel = "MESSENGER"
  /\ \A h, g \in Handlers : work[h] # Idle /\ work[g] # Idle => h = g

\* The Customer has a message once, and once more at most for every process that has
\* died or could not store the answer of the provider.
TakenOnce == \A m \in Messages : Cardinality(outbox[m].taken) <= 1 + crashes

\* docs/decisions/ADR-0079: an unknown outcome blocks another provider call, to
\* prevent duplicates.  Messenger never tells what became of a message: as long
\* as its senders are Alone, the Customer has it once, however many of its sends
\* were asked for, refused or left without an answer; only a process that dies
\* after the call, and tells nobody of it, or that takes a status it cannot store
\* for a refusal, lets the message be sent once more.
HeardOnce == []Alone => []TakenOnce

\* docs/WORK_ORDER_ACCESS_RECOVERY_V1.md: "The first subsequent response [...]
\* is linked to the latest sent recovery and surfaced as
\* RESPONSE_REQUIRES_REVIEW": it stays there until it is dealt with.
AnswerStaysForReview ==
  [][\A m \in Recoveries : recovery[m].status = "RESPONSE_REQUIRES_REVIEW" =>
       recovery'[m].status \in {"RESPONSE_REQUIRES_REVIEW", "CLOSED"}]_recoveryVars

=============================================================================
