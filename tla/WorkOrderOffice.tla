-------------------------- MODULE WorkOrderOffice --------------------------
(***************************************************************************)
(* The office endpoints of a Work Order: the generic edit and status       *)
(* endpoints, assignment, the controlled material change, completion       *)
(* acknowledgement and deletion.                                           *)
(*                                                                         *)
(* The generic edit and the assignment read the row outside the            *)
(* transaction that writes it, so each is a handler with a program         *)
(* counter; the others are one Serializable transaction.                   *)
(***************************************************************************)
EXTENDS WorkOrder

CONSTANTS
  Editors,     \* generic edit or status requests the API may be serving at once
  Assigners,   \* assignment requests the API may be serving at once
  Targets      \* the statuses the generic requests ask for

ASSUME TargetsAreEditable == Targets \subseteq Statuses \ {"INTERRUPTED"}
ASSUME NoneIsNoStatus == None \notin Statuses

VARIABLE request    \* the local state of each generic request

Requests == Editors \cup Assigners

Phases == {"idle", "guarded", "ready", "assign", "replacing"}

Request ==
  [phase       : Phases,
   target      : Targets \cup {None},        \* input.status
   booking     : Bookings \cup {None},       \* material input
   seen        : Statuses \cup {None},       \* existing.status
   technicians : SUBSET Technicians,         \* uniqueIds
   leader      : Technicians \cup {None},    \* jobLeaderId
   dropped     : SUBSET Technicians]         \* rows deleteMany removes

Idle == [phase |-> "idle", target |-> None, booking |-> None, seen |-> None,
         technicians |-> {}, leader |-> None, dropped |-> {}]

OfficeTypeOK == request \in [Requests -> Request]

OfficeInit == request = [r \in Requests |-> Idle]

Finish(r) == request' = [request EXCEPT ![r] = Idle]

-----------------------------------------------------------------------------
(* PATCH :id and PATCH :id/status *)

\* Mutant of Material: the status endpoint is not guarded.
MaterialFields(target, booking) == booking # None

\* The edit asks for a change the material-change policy governs.
Material(target, booking) == target = "CANCELLED" \/ booking # None

\* The controller's guard: assertGenericUpdateAllowed,
\* assertGenericCancellationAllowed.
EditGuard(r) ==
  \E target \in Targets \cup {None},
     booking \in Bookings \cup {None} :
    /\ request[r].phase = "idle"
    /\ Exists
    /\ Material(target, booking) => job.status = "NEW"
    /\ request' = [request EXCEPT ![r] =
         [Idle EXCEPT !.phase = "guarded", !.target = target, !.booking = booking]]
    /\ UNCHANGED rows

\* Mutant of EditAllowed: only the transition table is consulted.
TableAllowed(status, target) == target \in {None, status} \cup ValidTransitions[status]

\* What update() accepts of the status it has read.
EditAllowed(status, target) ==
  /\ status = "COMPLETED" => target \in {None, "COMPLETED", "CLOSED"}
  /\ status = "INTERRUPTED" => target = None
  /\ target = "COMPLETED" => job.completedBy # None
  /\ target \in {None, status} \cup ValidTransitions[status]

\* update() reads the row and validates the request against it.
EditRead(r) ==
  /\ request[r].phase = "guarded"
  /\ IF Exists /\ EditAllowed(job.status, request[r].target)
       THEN request' = [request EXCEPT ![r].phase = "ready", ![r].seen = job.status]
       ELSE Finish(r)
  /\ UNCHANGED rows

\* The transaction of update(): the status is written when the request's
\* status differs from the one that was read, whatever the row holds now.
EditWrite(r) ==
  LET asked == request[r] IN
  /\ asked.phase = "ready"
  /\ IF Exists
       THEN WriteJob([job EXCEPT
              !.status  = IF asked.target \in {None, asked.seen} THEN @ ELSE asked.target,
              !.booking = IF asked.booking = None THEN @ ELSE asked.booking])
       ELSE UNCHANGED <<job, current>>
  /\ Finish(r)
  /\ UNCHANGED <<revision, sections, corrections, changes, interruptedBy,
                 route, replacements, attention, sectionCopies>>

-----------------------------------------------------------------------------
(* PATCH :id/assignment *)

AssignRead(r) ==
  \E technicians \in SUBSET Technicians : \E leader \in JobLeaders(technicians) :
    /\ request[r].phase = "idle"
    /\ Exists
    /\ request' = [request EXCEPT ![r] =
         [Idle EXCEPT !.phase = "assign", !.seen = job.status,
                      !.technicians = technicians, !.leader = leader]]
    /\ UNCHANGED rows

\* The first statement of the READ COMMITTED transaction: deleteMany removes
\* the join rows committed by now, and none that a rival commits later.
AssignDelete(r) ==
  /\ request[r].phase = "assign"
  /\ request' = [request EXCEPT ![r].phase = "replacing", ![r].dropped = job.technicians]
  /\ UNCHANGED rows

\* The join rows inserted now are new ones: a rival's delete, begun before,
\* does not remove them, also where it found a row of the same Technician.
Inserted(r) ==
  request' = [q \in Requests |->
    IF q = r THEN Idle
    ELSE [request[q] EXCEPT !.dropped = @ \ request[r].technicians]]

\* The rest of the transaction.  A join row that a rival inserted meanwhile
\* survives the delete; if it is one of ours, createMany fails on the key.
AssignCommit(r) ==
  LET asked == request[r]
      kept  == job.technicians \ asked.dropped
  IN
  /\ asked.phase = "replacing"
  /\ IF Exists /\ kept \cap asked.technicians = {}
       THEN /\ WriteJob([job EXCEPT
                 !.technicians = kept \cup asked.technicians,
                 !.leader = asked.leader,
                 !.status = IF asked.technicians # {} /\ asked.seen = "NEW"
                              THEN "ASSIGNED" ELSE @])
            /\ Inserted(r)
       ELSE UNCHANGED <<job, current>> /\ Finish(r)
  /\ UNCHANGED <<revision, sections, corrections, changes, interruptedBy,
                 route, replacements, attention, sectionCopies>>

-----------------------------------------------------------------------------
(* Material change, acknowledgement, deletion *)

\* POST :id/material-change/preview hands the reviewer the row's updatedAt.
Preview(v) ==
  /\ Exists
  /\ current' = current \cup {v}
  /\ UNCHANGED <<job, revision, sections, corrections, changes, interruptedBy,
                 route, replacements, attention, sectionCopies, request>>

\* The policy allows a material change now.
MayChange == Stage(job.status) \in ChangeStages

\* findOperation: an operation that is on record is answered from the record.
NewOperation(c) == changes[c] = "ABSENT"

\* assertExpectedUpdatedAt: the row is the one the reviewer was shown.
UpToDate(v) == v \in current

\* POST :id/material-change: a booking change, a cancellation, or both.
CommitChange(v, c) ==
  \E booking \in Bookings \cup {None}, cancel \in BOOLEAN :
    /\ NewOperation(c)
    /\ Exists
    /\ UpToDate(v)
    /\ booking # None \/ cancel
    /\ MayChange
    /\ WriteJob([job EXCEPT
         !.booking = IF booking = None THEN @ ELSE booking,
         !.status  = IF cancel THEN "CANCELLED" ELSE @])
    /\ changes' = [changes EXCEPT ![c] = Stage(job.status)]
    /\ UNCHANGED <<revision, sections, corrections, interruptedBy, route,
                   replacements, attention, sectionCopies, request>>

\* Mutant of Reviewable: corrections in progress are not looked for.
ReviewableAnyway == job.status = "COMPLETED" /\ job.completedBy # None

\* There is an authoritative completion with nothing left to resubmit.
Reviewable ==
  job.status = "COMPLETED" /\ job.completedBy # None /\ ~CorrectionInProgress

\* POST :id/completion/acknowledge
AcknowledgeCompletion(m) ==
  /\ Reviewable
  /\ job.ackBy = None
  /\ WriteJob([job EXCEPT !.ackBy = m])
  /\ UNCHANGED <<revision, sections, corrections, changes, interruptedBy, route,
                 replacements, attention, sectionCopies, request>>

\* Mutants of Unreferenced: outcome events, or material changes, are deleted
\* with the Work Order.
UnreferencedByChanges == interruptedBy = None /\ \A c \in ChangeOps : changes[c] = "ABSENT"

\* Outcome events, evidence, corrections, material changes and the
\* interruption refer to the Work Order with ON DELETE RESTRICT.
Unreferenced ==
  /\ \A s \in Sections : sections[s].by = None /\ ~sections[s].evidence
  /\ \A c \in CorrectionOps : corrections[c].status = "ABSENT"
  /\ \A c \in ChangeOps : changes[c] = "ABSENT"
  /\ interruptedBy = None

\* DELETE :id
Remove ==
  /\ Exists
  /\ Unreferenced
  /\ WriteJob([job EXCEPT !.status = Gone, !.technicians = {}, !.leader = None])
  /\ UNCHANGED <<revision, sections, corrections, changes, interruptedBy, route,
                 replacements, attention, sectionCopies, request>>

-----------------------------------------------------------------------------
NoRequestInFlight == \A r \in Requests : request[r].phase = "idle"

BeginRequest ==
  \/ \E r \in Editors : EditGuard(r)
  \/ \E r \in Assigners : AssignRead(r)

ContinueRequest ==
  \E r \in Requests : EditRead(r) \/ EditWrite(r) \/ AssignDelete(r) \/ AssignCommit(r)

OfficeTransaction ==
  \/ \E v \in Reviewers : Preview(v) \/ \E c \in ChangeOps : CommitChange(v, c)
  \/ \E m \in Managers : AcknowledgeCompletion(m)
  \/ Remove

=============================================================================
