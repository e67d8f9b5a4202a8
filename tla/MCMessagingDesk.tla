--------------------------- MODULE MCMessagingDesk ---------------------------
(* A small instance of AccessRecovery for TLC, in views: the status of a    *)
(* WhatsApp message that two requests and the webhooks write, the answer    *)
(* from its arrival to the credential, two recoveries that wait for answers *)
(* in one conversation, the credentials by themselves, and a Messenger      *)
(* answer that one request at a time sends.                                 *)
EXTENDS AccessRecovery

CONSTANTS ask, again, answer, up, other, h1

VARIABLE view

Always    == <<0, MaxTime + 1>>
Today     == <<0, 1>>
Tomorrow  == <<1, MaxTime + 1>>
SpanSet   == {Always, Today, Tomorrow}
AllRequests == Replies \cup {up, other}
AllReaders  == Recoveries \cup Handlers

Bound ==
  [statuses  |-> [channel |-> "WHATSAPP", time |-> 0, calls |-> 2, replies |-> 0, hands |-> 2, crashes |-> 1],
   late      |-> [channel |-> "WHATSAPP", time |-> 1, calls |-> 1, replies |-> 1, hands |-> 2, crashes |-> 0],
   answers   |-> [channel |-> "WHATSAPP", time |-> 0, calls |-> 1, replies |-> 2, hands |-> 2, crashes |-> 1],
   evidence  |-> [channel |-> "WHATSAPP", time |-> 1, calls |-> 0, replies |-> 0, hands |-> 1, crashes |-> 0],
   retry     |-> [channel |-> "WHATSAPP", time |-> 0, calls |-> 2, replies |-> 0, hands |-> 1, crashes |-> 0],
   two       |-> [channel |-> "WHATSAPP", time |-> 0, calls |-> 1, replies |-> 2, hands |-> 1, crashes |-> 0],
   messenger |-> [channel |-> "MESSENGER", time |-> 2, calls |-> 3, replies |-> 1, hands |-> 1, crashes |-> 1]]

MCInit ==
  /\ view \in DOMAIN Bound
  /\ Init
  /\ channel = Bound[view].channel

Candidate == [status |-> "PENDING_REVIEW", span |-> Always]

Busy(w) == {h \in Handlers : w[h] # Idle}

\* A handler that sets to work is the first one, when it is free: the others are the
\* same, so that nothing is lost.
FirstFree ==
  work[h1] = Idle /\ work'[h1] = Idle => \A h \in Handlers : work[h] = Idle => work'[h] = Idle

Bounded ==
  LET bound == Bound[view] IN
  /\ now' <= bound.time
  /\ \A m \in Messages : outbox'[m].calls <= bound.calls
  /\ \A l \in letters' : l.key <= bound.replies
  /\ Cardinality(Busy(work')) <= bound.hands
  /\ crashes' <= bound.crashes
  /\ FirstFree
  /\ view = "messenger" => recovery' = recovery
  /\ view # "two" => recovery'[again] = recovery[again]
  /\ view \in {"statuses", "late", "retry", "messenger"} => job' = job \/ recovery' # recovery
  /\ view = "answers" =>
       /\ job'.active
       /\ job'.by = "evidence" \/ job'.readiness = job.readiness
       /\ \A r \in Requests : credentials'[r] \in {None, Candidate, [Candidate EXCEPT !.status = "ACCEPTED"]}
       /\ \A i \in DOMAIN outbox'[ask].events : outbox'[ask].events[i].status # "FAILED"
  /\ view = "two" =>
       /\ job'.active
       /\ job'.by = "evidence" \/ job'.readiness = job.readiness
       /\ \A r \in Requests : credentials'[r] \in (IF r \in Replies THEN {None, Candidate} ELSE {None})
       /\ \A m \in Messages, i \in 1..2 :
            i \in DOMAIN outbox'[m].events => outbox'[m].events[i].status # "FAILED"
  /\ view = "evidence" => work' = work
  /\ view # "evidence" => passes' = passes

mcVars == <<recoveryVars, view>>
MCSpec == MCInit /\ [][Next /\ Bounded /\ UNCHANGED view]_mcVars

AnswerSpec == MCInit /\ view = "answers" /\ [][Next /\ Bounded /\ UNCHANGED view]_mcVars

=============================================================================
