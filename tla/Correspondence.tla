--------------------------- MODULE Correspondence ---------------------------
(***************************************************************************)
(* The versions of one template, the records made from them, by hand or of *)
(* an event, and the attempts to deliver a record.  A serializable         *)
(* transaction is one step; a record made by hand reads its version first. *)
(***************************************************************************)
EXTENDS Naturals, SequencesExt

CONSTANTS
  NoEvent,
  Bookings,        \* the events a record may be made of: accepted Quotes,
  Changes,         \* material changes,
  Completions,     \* and completions, which a correction may withdraw
  Writers,         \* requests in progress at once
  MaxVersions,     \* bounds on what is made
  MaxRecords,
  MaxAttempts

VARIABLES
  versions,        \* the status of each version of the template
  authoritative,   \* the events a record may be made of now
  records,         \* version, event, and the outcome of each attempt
  writers          \* the version each request has read

correspondenceVars == <<versions, authoritative, records, writers>>

Events == Bookings \cup Changes \cup Completions

Outcomes  == {"PENDING", "ACCEPTED", "FAILED"}
RecordRow == [version : Nat, event : Events \cup {NoEvent}, attempts : Seq(Outcomes)]

CorrespondenceTypeOK ==
  /\ versions \in Seq({"DRAFT", "PUBLISHED", "RETIRED"})
  /\ authoritative \subseteq Events
  /\ records \in Seq(RecordRow)
  /\ \A i \in DOMAIN records : records[i].version \in DOMAIN versions
  /\ writers \in [Writers -> {0} \cup DOMAIN versions]

CorrespondenceInit ==
  /\ versions = <<"DRAFT">>
  /\ authoritative = {}
  /\ records = <<>>
  /\ writers = [w \in Writers |-> 0]

-----------------------------------------------------------------------------
(* Templates. *)

CreateVersion ==
  /\ Len(versions) < MaxVersions
  /\ ~Contains(versions, "DRAFT")
  /\ versions' = Append(versions, "DRAFT")
  /\ UNCHANGED <<authoritative, records, writers>>

Publish(v) ==
  /\ versions[v] = "DRAFT"
  /\ versions' = [u \in DOMAIN versions |->
                   CASE u = v                     -> "PUBLISHED"
                     [] versions[u] = "PUBLISHED" -> "RETIRED"
                     [] OTHER                     -> versions[u]]
  /\ UNCHANGED <<authoritative, records, writers>>

Retire(v) ==
  /\ versions[v] = "PUBLISHED"
  /\ versions' = [versions EXCEPT ![v] = "RETIRED"]
  /\ UNCHANGED <<authoritative, records, writers>>

-----------------------------------------------------------------------------
(* Records. *)

Made(v, e) == records' = Append(records, [version |-> v, event |-> e, attempts |-> <<>>])

ReadVersion(w, v) ==
  /\ writers[w] = 0
  /\ versions[v] = "PUBLISHED"
  /\ writers' = [writers EXCEPT ![w] = v]
  /\ UNCHANGED <<versions, authoritative, records>>

Materialize(w) ==
  /\ writers[w] # 0
  /\ Len(records) < MaxRecords
  /\ Made(writers[w], NoEvent)
  /\ writers' = [writers EXCEPT ![w] = 0]
  /\ UNCHANGED <<versions, authoritative>>

\* A Quote is accepted, a change of the Work Order recorded, a completion acknowledged.
Happens(e) ==
  /\ e \notin authoritative
  /\ authoritative' = authoritative \cup {e}
  /\ UNCHANGED <<versions, records, writers>>

\* The first corrected outcome withdraws the acknowledgement of a completion.
Corrected(e) ==
  /\ e \in authoritative
  /\ authoritative' = authoritative \ {e}
  /\ UNCHANGED <<versions, records, writers>>

\* A record of an event is the answer to every later request for one.
Known(e) == \E i \in DOMAIN records : records[i].event = e

MadeOf(e, v) ==
  /\ Len(records) < MaxRecords
  /\ ~Known(e)
  /\ versions[v] = "PUBLISHED"
  /\ Made(v, e)
  /\ UNCHANGED <<versions, authoritative, writers>>

MaterializeBooking(e, v)    == e \in Bookings \cap authoritative /\ MadeOf(e, v)
MaterializeChange(e, v)     == e \in Changes \cap authoritative /\ MadeOf(e, v)
MaterializeCompletion(e, v) == e \in Completions \cap authoritative /\ MadeOf(e, v)

-----------------------------------------------------------------------------
(* Deliveries: the first of a record, or a retry of the latest, failed. *)

CreateDeliveryAttempt(i, previous) ==
  LET attempts == records[i].attempts IN
  /\ Len(attempts) < MaxAttempts
  /\ previous = Len(attempts)
  /\ previous # 0 => Last(attempts) = "FAILED"
  /\ records' = [records EXCEPT ![i].attempts = Append(@, "PENDING")]
  /\ UNCHANGED <<versions, authoritative, writers>>

\* Mutant of Open: only an accepted attempt has its outcome for good.
OpenUnlessAccepted(outcome) == outcome # "ACCEPTED"

Open(outcome) == outcome = "PENDING"

RecordDeliveryOutcome(i, n, outcome) ==
  /\ Open(records[i].attempts[n])
  /\ records' = [records EXCEPT ![i].attempts[n] = outcome]
  /\ UNCHANGED <<versions, authoritative, writers>>

CorrespondenceNext ==
  \/ CreateVersion
  \/ \E v \in DOMAIN versions : Publish(v) \/ Retire(v) \/ \E w \in Writers : ReadVersion(w, v)
  \/ \E v \in DOMAIN versions, e \in Events :
       MaterializeBooking(e, v) \/ MaterializeChange(e, v) \/ MaterializeCompletion(e, v)
  \/ \E w \in Writers : Materialize(w)
  \/ \E e \in Events : Happens(e)
  \/ \E e \in Completions : Corrected(e)
  \/ \E i \in DOMAIN records : \E previous \in 0..MaxAttempts : CreateDeliveryAttempt(i, previous)
  \/ \E i \in DOMAIN records : \E n \in DOMAIN records[i].attempts, outcome \in {"ACCEPTED", "FAILED"} :
       RecordDeliveryOutcome(i, n, outcome)

CorrespondenceSpec == CorrespondenceInit /\ [][CorrespondenceNext]_correspondenceVars

-----------------------------------------------------------------------------
(* Properties. *)

\* The Customer is not written to twice of one thing: an event has one record,
\* of a wording that has been published, though a version may retire while a
\* record is made of it; and every attempt but the last is one that failed, and
\* stays so when a late answer comes for it (correspondence.service.ts,
\* createDeliveryAttempt and recordDeliveryOutcome).
WrittenToOnce ==
  \A i \in DOMAIN records :
    LET attempts == records[i].attempts IN
    /\ \A j \in DOMAIN records : records[i].event = records[j].event /\ records[i].event # NoEvent => i = j
    /\ versions[records[i].version] # "DRAFT"
    /\ \A n \in DOMAIN attempts : n < Len(attempts) => attempts[n] = "FAILED"

=============================================================================
