---------------------------- MODULE FieldServer ----------------------------
(***************************************************************************)
(* What the API makes of the operations one Technician's device sends for  *)
(* a Work Order: the Technician is assigned to it and leads it.  Each      *)
(* operation carries the identity the device gave it, so that the API      *)
(* knows one that comes again.                                             *)
(*                                                                         *)
(* An answer may be lost on its way, and a request may never arrive.       *)
(***************************************************************************)
EXTENDS Naturals, FiniteSets

CONSTANTS
  Sections,          \* the sections of the frozen Execution Scope
  EvidencePolicy,    \* of each section: "NONE", "ON_EXCEPTION" or "REQUIRED"
  MaxPhotos,         \* photos of one section
  MaxEdits           \* changes of the job by the office before the start

ASSUME PolicyOfEachSection ==
  EvidencePolicy \in [Sections -> {"NONE", "ON_EXCEPTION", "REQUIRED"}]
ASSUME FieldBounds == MaxPhotos \in Nat /\ MaxEdits \in Nat

VARIABLE server      \* the Work Order's rows

Photos == Sections \X (1..MaxPhotos)

Outcomes == {"COMPLETED", "NOT_COMPLETED"}

Statuses == {"ASSIGNED", "ON_SITE", "WAITING_FOR_PARTS", "COMPLETED"}

Required(s, outcome) ==
  \/ EvidencePolicy[s] = "REQUIRED"
  \/ EvidencePolicy[s] = "ON_EXCEPTION" /\ outcome = "NOT_COMPLETED"

Server ==
  [assigned   : BOOLEAN,
   status     : Statuses,
   version    : 0..MaxEdits,                    \* updatedAt, while not started
   startOp    : Nat,                            \* startOperationId, 0 for none
   sections   : [Sections -> [outcome : Outcomes \cup {"PENDING"}, version : Nat]],
   events     : SUBSET Nat,                     \* operations of outcome events
   photos     : [Photos -> {"NONE", "KNOWN", "SERVER_ACKNOWLEDGED"}],
   stored     : SUBSET Photos,                  \* objects in the photo bucket
   shared     : SUBSET Sections,                \* sections with a colleague's photo
   incidents  : SUBSET Nat,
   completion : Nat]                            \* completionOperationId, 0 for none

ServerTypeOK == server \in Server

ServerInit ==
  server =
    [assigned |-> TRUE, status |-> "ASSIGNED", version |-> 0, startOp |-> 0,
     sections |-> [s \in Sections |-> [outcome |-> "PENDING", version |-> 0]],
     events |-> {}, photos |-> [p \in Photos |-> "NONE"], stored |-> {},
     shared |-> {}, incidents |-> {}, completion |-> 0]

Started == server.startOp # 0

\* What the device fetches with GET /technician/jobs/:id.
Brief ==
  [started |-> Started, status |-> server.status, version |-> server.version,
   sections |-> server.sections, completed |-> FALSE]

-----------------------------------------------------------------------------
(* Operations *)

\* The operation of this identity has taken effect.
Effective(id) ==
  id \in {server.startOp, server.completion} \cup server.events \cup server.incidents

\* What the API asks of a completion, of the sections as it has them.
Ready ==
  /\ Sections # {}
  /\ \A s \in Sections :
       /\ server.sections[s].outcome # "PENDING"
       /\ Required(s, server.sections[s].outcome) =>
            s \in server.shared \/ \E p \in Photos : p[1] = s /\ server.photos[p] # "NONE"

Startable(op) == ~Started /\ server.version = op.expected

Recordable(op) == Started /\ server.sections[op.section].version = op.expected

Completable(op) ==
  /\ server.completion = 0
  /\ server.status \in {"ON_SITE", "WAITING_FOR_PARTS"}
  /\ server.status = op.status
  /\ Ready

\* An incident may be reported of any job the Technician is assigned to.
Acceptable(op) ==
  /\ server.assigned
  /\ op.kind = "START_JOB" => Startable(op)
  /\ op.kind = "SECTION_OUTCOME" => Recordable(op)
  /\ op.kind = "COMPLETE_JOB" => Completable(op)

\* start, recordSection, complete and report, once the operation is accepted.
Effect(op) ==
  CASE op.kind = "START_JOB" ->
         [server EXCEPT !.startOp = op.id, !.status = "ON_SITE"]
    [] op.kind = "SECTION_OUTCOME" ->
         [server EXCEPT
            !.events = @ \cup {op.id},
            !.sections[op.section] = [outcome |-> op.outcome, version |-> @.version + 1],
            !.photos = [p \in Photos |-> IF p \in op.photos /\ @[p] = "NONE"
                                           THEN "KNOWN" ELSE @[p]]]
    [] op.kind = "COMPLETE_JOB" ->
         [server EXCEPT !.completion = op.id, !.status = "COMPLETED"]
    [] op.kind = "REPORT_INCIDENT" ->
         [server EXCEPT !.incidents = @ \cup {op.id}]

\* An operation that has taken effect is answered as it was the first time, a
\* start as long as the Technician is assigned.
Recognised(op) == Effective(op.id) /\ (op.kind = "START_JOB" => server.assigned)

Answer(op) == IF Recognised(op) \/ Acceptable(op) THEN "ACCEPTED" ELSE "REFUSED"

\* The request arrives.
Receive(op) ==
  server' = IF ~Effective(op.id) /\ Acceptable(op) THEN Effect(op) ELSE server

\* acknowledgeEvidence
Acknowledgeable == server.assigned /\ Started

ReceiveAcknowledgement(p) ==
  server' = IF Acknowledgeable
              THEN [server EXCEPT !.photos[p] = "SERVER_ACKNOWLEDGED"] ELSE server

-----------------------------------------------------------------------------
(* The office and the other Technicians *)

\* Anything that gives the job, or its scope, a new version before the start;
\* of a job that has started no call of the device compares it.
Edit ==
  /\ ~Started /\ server.version < MaxEdits
  /\ server' = [server EXCEPT !.version = @ + 1]

Unassign == server.assigned /\ server' = [server EXCEPT !.assigned = FALSE]

Hold ==
  server.status = "ON_SITE" /\ server' = [server EXCEPT !.status = "WAITING_FOR_PARTS"]

\* A colleague on the same job takes a photo of a section still open, and
\* records its outcome.
RecordElsewhere(s) ==
  /\ Started /\ server.sections[s].outcome = "PENDING"
  /\ server' = [server EXCEPT
                  !.sections[s] = [outcome |-> "COMPLETED", version |-> @.version + 1],
                  !.shared = @ \cup {s}]

Others == Edit \/ Unassign \/ Hold \/ \E s \in Sections : RecordElsewhere(s)

=============================================================================
