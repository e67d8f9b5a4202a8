-------------------------- MODULE WorkOrderSystem --------------------------
(***************************************************************************)
(* One Work Order with everybody who works on it: the office endpoints,    *)
(* the Technicians' devices, completion correction, and interruption with  *)
(* routing and replacement.                                                *)
(***************************************************************************)
EXTENDS WorkOrderOffice, CompletionCorrection, InterruptedVisit

CONSTANT Overlap   \* may a transaction commit while a handler is between steps?

ASSUME OverlapIsBoolean == Overlap \in BOOLEAN

vars == <<rows, request, deviceScope, routing>>

TypeOK == RowsTypeOK /\ OfficeTypeOK /\ FieldTypeOK /\ RoutingTypeOK

Init == RowsInit /\ OfficeInit /\ FieldInit /\ RoutingInit

\* Without Overlap the API serves one request at a time.
Free == Overlap \/ (NoRequestInFlight /\ NoRoutingInFlight)

Next ==
  \/ Free /\ (BeginRequest \/ OfficeTransaction) /\ UNCHANGED <<deviceScope, routing>>
  \/ ContinueRequest /\ UNCHANGED <<deviceScope, routing>>
  \/ Free /\ (FieldStep \/ CorrectionStep) /\ UNCHANGED <<request, routing>>
  \/ Free /\ (BeginRouting \/ InterruptionTransaction) /\ UNCHANGED request
  \/ ContinueRouting /\ UNCHANGED request

Spec == Init /\ [][Next]_vars

-----------------------------------------------------------------------------
(* Properties that hold however the requests overlap *)

\* A Work Order's Job Leader is one of its Technicians, although the staffing
\* is replaced in three statements by transactions that may interleave.
LeaderIsAssigned == job.leader \in job.technicians \cup {None}

\* The scope a visit was started on is frozen: it stays the latest revision.
FrozenScopeIsLatest ==
  IF job.startedBy = None
    THEN job.startedScope = 0
    ELSE job.startedScope = revision /\ revision # 0

\* A completion that stands was accepted for a started visit, and each of its
\* sections has an author and the evidence its policy asks for.  Outcomes may
\* be recorded again later, by the ordinary endpoint or under a correction,
\* and must still carry that evidence.
CompletionIsEvidenced ==
  job.completedBy # None =>
    /\ job.startedBy # None
    /\ \A s \in Sections :
         /\ sections[s].by # None
         /\ EvidenceRequired(s, sections[s].outcome) => sections[s].evidence

\* While corrected outcomes are coming in, no acknowledgement is current, so
\* customer correspondence about the completion is not eligible.
NoAckDuringCorrection == CorrectionInProgress => job.ackBy = None

\* At most one correction is active, it belongs to the completing Technician,
\* and a correction exists only for a completed visit.
OneCorrectionOfTheCompletion ==
  /\ \A c \in CorrectionOps :
       corrections[c].status # "ABSENT" =>
         job.completedBy # None /\ corrections[c].technician = job.completedBy
  /\ \A c, d \in CorrectionOps : Active(c) /\ Active(d) => c = d

\* Management is reminded of an interrupted visit exactly until it is closed
\* or replaced, although routing is checked before its transaction.
ReviewedUntilHandled ==
  /\ attention = "OPEN" <=>
       interruptedBy # None /\ route # "CLOSE" /\ replacements = {}
  /\ attention = "ABSENT" <=> interruptedBy = None

\* An interruption gets at most one replacement visit.
OneReplacement == Cardinality(replacements) <= 1

\* Who started and who completed a visit is never rewritten.
FieldTruthWrittenOnce ==
  [][/\ job.startedBy # None => job'.startedBy = job.startedBy
     /\ job.completedBy # None => job'.completedBy = job.completedBy
     /\ interruptedBy # None => interruptedBy' = interruptedBy]_vars

\* An acknowledgement that stops being current is kept by the correction that
\* withdrew it, also when it was given after the authorization.
AcknowledgementKept ==
  [][job.ackBy # None /\ job'.ackBy # job.ackBy =>
       \E c \in CorrectionOps :
         corrections'[c].status = "IN_PROGRESS" /\ corrections'[c].priorAck = job.ackBy]_vars

\* A visit that was completed or interrupted, or whose booking was changed
\* under control, cannot be deleted.
HistoryNotDeleted ==
  [][Exists /\ ~Exists' =>
       /\ job.completedBy = None
       /\ interruptedBy = None
       /\ \A c \in ChangeOps : changes[c] = "ABSENT"]_vars

\* The Work Order is confirmed, and no request is on its way that was let in
\* before to change its booking or to cancel it.
ConfirmedForGood ==
  /\ Exists /\ job.status # "NEW"
  /\ \A r \in Requests :
       request[r].phase # "idle" => ~Material(request[r].target, request[r].booking)

\* From then on its booking changes, and it is cancelled, only with a
\* material-change row, unless an edit makes it new again: the gap between the
\* guard of the controller and update() admits no more than what was in it
\* when the Work Order was confirmed.
ConfirmedChangesAudited ==
  [][ConfirmedForGood /\ Exists' =>
       /\ ConfirmedForGood' \/ job'.status = "NEW"
       /\ changes' = changes => /\ job'.booking = job.booking
                                /\ job'.status = "CANCELLED" => job.status = "CANCELLED"]_vars

-----------------------------------------------------------------------------
(* Properties that hold when requests do not overlap *)

\* A completed visit stays completed until it is closed.
CompletionIsFinal ==
  [][job.status = "COMPLETED" => job'.status \in {"COMPLETED", "CLOSED"}]_vars

\* The same in the words of the decision record: it is never completed.
InterruptedNeverCompleted == interruptedBy # None => job.completedBy = None

\* The visit, and the review of its completion, as management sees them.
Visit ==
  CASE job.status = Gone          -> "deleted"
    [] job.status = "CLOSED"      -> "closed"
    [] job.status = "CANCELLED"   -> "cancelled"
    [] job.status = "COMPLETED"   -> "completed"
    [] job.status = "INTERRUPTED" -> "interrupted"
    [] OTHER -> IF job.startedBy = None THEN "planned" ELSE "underway"

Review ==
  IF job.completedBy = None THEN "none"
  ELSE IF CorrectionInProgress THEN "reopened"
  ELSE IF job.ackBy = None THEN "awaited" ELSE "given"

Truth == INSTANCE VisitTruth WITH visit <- Visit, review <- Review

\* A visit is begun, finished or broken off, reviewed, corrected, closed,
\* called off and deleted as VisitTruth says, and in no other order.
ImplementsVisitTruth == Truth!VisitSpec

=============================================================================
