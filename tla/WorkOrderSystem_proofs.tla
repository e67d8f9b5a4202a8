----------------------- MODULE WorkOrderSystem_proofs -----------------------
(***************************************************************************)
(* Proofs about WorkOrderSystem, for every number of Technicians, users,   *)
(* sections, operations and requests in flight.  The last two parts assume *)
(* that requests do not overlap; the parts before hold with Overlap of     *)
(* either value.                                                           *)
(***************************************************************************)
EXTENDS WorkOrderSystem, FiniteSetTheorems, TLAPS

-----------------------------------------------------------------------------
(* Type correctness *)

LEMMA InitTypeOK == Init => TypeOK
<1> SUFFICES ASSUME Init PROVE TypeOK
  OBVIOUS
<1>1. RowsTypeOK
  BY RevisionsBounded DEF Init, RowsInit, RowsTypeOK, CreatedJobs, Section, Correction, Outcomes
<1>2. OfficeTypeOK
  BY DEF Init, OfficeInit, OfficeTypeOK, Idle, Request, Phases
<1>3. FieldTypeOK /\ RoutingTypeOK
  BY RevisionsBounded DEF Init, FieldInit, FieldTypeOK, RoutingInit, RoutingTypeOK
<1> QED BY <1>1, <1>2, <1>3 DEF TypeOK

LEMMA IdleIsRequest == Idle \in Request
  BY DEF Idle, Request, Phases

\* Request q is as it was, but for the join rows its delete has found.
Unmoved(q) ==
  /\ request'[q].phase = request[q].phase
  /\ request'[q].target = request[q].target
  /\ request'[q].booking = request[q].booking
  /\ request'[q].seen = request[q].seen
  /\ request'[q].technicians = request[q].technicians
  /\ request'[q].leader = request[q].leader

\* An assignment that ends is idle, and keeps the other requests.
LEMMA AssignmentFinishes ==
  ASSUME TypeOK, NEW r \in Requests, AssignCommit(r)
  PROVE  /\ request' \in [Requests -> Request]
         /\ request'[r] = Idle
         /\ \A q \in Requests \ {r} : Unmoved(q)
<1> DEFINE Left(q) == [request[q] EXCEPT !.dropped = @ \ request[r].technicians]
<1>1. request \in [Requests -> Request]
  BY DEF TypeOK, OfficeTypeOK
<1>2. \A q \in Requests :
        /\ Left(q) \in Request
        /\ Left(q).phase = request[q].phase
        /\ Left(q).target = request[q].target
        /\ Left(q).booking = request[q].booking
        /\ Left(q).seen = request[q].seen
        /\ Left(q).technicians = request[q].technicians
        /\ Left(q).leader = request[q].leader
  BY <1>1 DEF Request
<1>3. \/ request' = [request EXCEPT ![r] = Idle]
      \/ request' = [q \in Requests |-> IF q = r THEN Idle ELSE Left(q)]
  BY DEF AssignCommit, Finish, Inserted
<1> HIDE DEF Left
<1>4. CASE request' = [request EXCEPT ![r] = Idle]
  BY <1>1, <1>4, IdleIsRequest DEF Unmoved
<1>5. CASE request' = [q \in Requests |-> IF q = r THEN Idle ELSE Left(q)]
  BY <1>2, <1>5, IdleIsRequest DEF Unmoved
<1> QED BY <1>3, <1>4, <1>5

LEMMA RowsFrame ==
  ASSUME RowsTypeOK, UNCHANGED rows
  PROVE  RowsTypeOK'
  BY DEF RowsTypeOK, rows

LEMMA StepTypeOK ==
  ASSUME TypeOK, [Next]_vars
  PROVE  TypeOK'
<1>1. ASSUME NEW r \in Editors, EditGuard(r),
             UNCHANGED <<deviceScope, routing>>
      PROVE  TypeOK'
  <2>1. PICK target \in Targets \cup {None}, booking \in Bookings \cup {None} :
          request' = [request EXCEPT ![r] =
            [Idle EXCEPT !.phase = "guarded", !.target = target, !.booking = booking]]
    BY <1>1 DEF EditGuard
  <2>2. [Idle EXCEPT !.phase = "guarded", !.target = target, !.booking = booking] \in Request
    BY <2>1, IdleIsRequest DEF Request, Phases
  <2>3. OfficeTypeOK'
    BY <2>1, <2>2 DEF TypeOK, OfficeTypeOK, Requests
  <2> QED BY <1>1, <2>3, RowsFrame DEF EditGuard, TypeOK, FieldTypeOK, RoutingTypeOK
<1>2. ASSUME NEW r \in Requests, EditRead(r),
             UNCHANGED <<deviceScope, routing>>
      PROVE  TypeOK'
  <2>1. Exists => job.status \in Statuses
    BY DEF TypeOK, RowsTypeOK, Exists, Job
  <2>2. OfficeTypeOK'
    BY <1>2, <2>1, IdleIsRequest DEF EditRead, Finish, TypeOK, OfficeTypeOK, Request, Phases
  <2> QED BY <1>2, <2>2, RowsFrame DEF EditRead, TypeOK, FieldTypeOK, RoutingTypeOK
<1>3. ASSUME NEW r \in Requests, EditWrite(r),
             UNCHANGED <<deviceScope, routing>>
      PROVE  TypeOK'
  <2>1. request[r] \in Request
    BY DEF TypeOK, OfficeTypeOK
  <2>2. job' \in Job /\ current' \subseteq Technicians \cup Reviewers
    <3>1. CASE Exists
      <4> DEFINE status == IF request[r].target \in {None, request[r].seen}
                             THEN job.status ELSE request[r].target
                 booking == IF request[r].booking = None
                              THEN job.booking ELSE request[r].booking
      <4>1. status \in Statuses \cup {Gone} /\ booking \in Bookings
        BY <2>1, TargetsAreEditable DEF TypeOK, RowsTypeOK, Job, Request
      <4>2. job' = [job EXCEPT !.status = status, !.booking = booking] /\ current' = {}
        BY <1>3, <3>1 DEF EditWrite, WriteJob
      <4> HIDE DEF status, booking
      <4> QED BY <4>1, <4>2 DEF TypeOK, RowsTypeOK, Job
    <3>2. CASE ~Exists
      BY <1>3, <3>2 DEF EditWrite, TypeOK, RowsTypeOK
    <3> QED BY <3>1, <3>2
  <2>3. OfficeTypeOK'
    BY <1>3, IdleIsRequest DEF EditWrite, Finish, TypeOK, OfficeTypeOK
  <2> QED BY <1>3, <2>2, <2>3 DEF EditWrite, TypeOK, RowsTypeOK, FieldTypeOK, RoutingTypeOK
<1>4. ASSUME NEW r \in Assigners, AssignRead(r),
             UNCHANGED <<deviceScope, routing>>
      PROVE  TypeOK'
  <2>1. PICK technicians \in SUBSET Technicians :
          \E leader \in JobLeaders(technicians) :
            request' = [request EXCEPT ![r] =
              [Idle EXCEPT !.phase = "assign", !.seen = job.status,
                           !.technicians = technicians, !.leader = leader]]
    BY <1>4 DEF AssignRead
  <2>2. PICK leader \in JobLeaders(technicians) :
          request' = [request EXCEPT ![r] =
            [Idle EXCEPT !.phase = "assign", !.seen = job.status,
                         !.technicians = technicians, !.leader = leader]]
    BY <2>1
  <2>3. leader \in Technicians \cup {None} /\ job.status \in Statuses
    BY <1>4, <2>2 DEF AssignRead, JobLeaders, TypeOK, RowsTypeOK, Exists, Job
  <2>4. [Idle EXCEPT !.phase = "assign", !.seen = job.status,
                     !.technicians = technicians, !.leader = leader] \in Request
    BY <2>3, IdleIsRequest DEF Request, Phases
  <2>5. OfficeTypeOK'
    BY <2>2, <2>4 DEF TypeOK, OfficeTypeOK, Requests
  <2> QED BY <1>4, <2>5, RowsFrame DEF AssignRead, TypeOK, FieldTypeOK, RoutingTypeOK
<1>5. ASSUME NEW r \in Requests, AssignDelete(r),
             UNCHANGED <<deviceScope, routing>>
      PROVE  TypeOK'
  <2>1. job.technicians \in SUBSET Technicians
    BY DEF TypeOK, RowsTypeOK, Job
  <2> DEFINE replacing == [request[r] EXCEPT !.phase = "replacing",
                                             !.dropped = job.technicians]
  <2>2. replacing \in Request
    BY <2>1 DEF TypeOK, OfficeTypeOK, Request, Phases
  <2>3. request' = [request EXCEPT ![r] = replacing]
    BY <1>5 DEF AssignDelete, TypeOK, OfficeTypeOK, Request
  <2> HIDE DEF replacing
  <2>4. OfficeTypeOK'
    BY <2>2, <2>3 DEF TypeOK, OfficeTypeOK
  <2> QED BY <1>5, <2>4, RowsFrame DEF AssignDelete, TypeOK, FieldTypeOK, RoutingTypeOK
<1>6. ASSUME NEW r \in Requests, AssignCommit(r),
             UNCHANGED <<deviceScope, routing>>
      PROVE  TypeOK'
  <2>1. request[r] \in Request
    BY DEF TypeOK, OfficeTypeOK
  <2>2. job' \in Job /\ current' \subseteq Technicians \cup Reviewers
    <3> DEFINE technicians == (job.technicians \ request[r].dropped) \cup request[r].technicians
               status == IF request[r].technicians # {} /\ request[r].seen = "NEW"
                           THEN "ASSIGNED" ELSE job.status
    <3>1. /\ technicians \in SUBSET Technicians
          /\ request[r].leader \in Technicians \cup {None}
          /\ status \in Statuses \cup {Gone}
      BY <2>1 DEF TypeOK, RowsTypeOK, Job, Request, Statuses
    <3>2. \/ /\ job' = [job EXCEPT !.technicians = technicians,
                                   !.leader = request[r].leader, !.status = status]
             /\ current' = {}
          \/ UNCHANGED <<job, current>>
      BY <1>6 DEF AssignCommit, WriteJob
    <3> HIDE DEF technicians, status
    <3> QED BY <3>1, <3>2 DEF TypeOK, RowsTypeOK, Job
  <2>3. OfficeTypeOK'
    BY <1>6, AssignmentFinishes DEF OfficeTypeOK
  <2> QED BY <1>6, <2>2, <2>3 DEF AssignCommit, TypeOK, RowsTypeOK, FieldTypeOK, RoutingTypeOK
<1>7. ASSUME NEW v \in Reviewers, Preview(v),
             UNCHANGED <<deviceScope, routing>>
      PROVE  TypeOK'
  BY <1>7, RevisionsBounded DEF Preview, rows, TypeOK, RowsTypeOK, OfficeTypeOK,
     FieldTypeOK, RoutingTypeOK
<1>8. ASSUME NEW v \in Reviewers, NEW c \in ChangeOps, CommitChange(v, c),
             UNCHANGED <<deviceScope, routing>>
      PROVE  TypeOK'
  <2>1. PICK booking \in Bookings \cup {None}, cancel \in BOOLEAN :
          /\ job' = [job EXCEPT !.booking = IF booking = None THEN @ ELSE booking,
                                !.status  = IF cancel THEN "CANCELLED" ELSE @]
          /\ current' = {}
    BY <1>8 DEF CommitChange, WriteJob
  <2>2. job' \in Job
    BY <2>1 DEF TypeOK, RowsTypeOK, Job, Statuses
  <2>3. changes' \in [ChangeOps -> ChangeStages \cup {"ABSENT"}]
    BY <1>8 DEF CommitChange, MayChange, TypeOK, RowsTypeOK
  <2> QED BY <1>8, <2>1, <2>2, <2>3 DEF CommitChange, TypeOK, RowsTypeOK, OfficeTypeOK,
             FieldTypeOK, RoutingTypeOK
<1>9. ASSUME NEW m \in Managers, AcknowledgeCompletion(m),
             UNCHANGED <<deviceScope, routing>>
      PROVE  TypeOK'
  BY <1>9, RevisionsBounded DEF AcknowledgeCompletion, rows, WriteJob, Job, TypeOK, RowsTypeOK, OfficeTypeOK,
     FieldTypeOK, RoutingTypeOK
<1>10. ASSUME Remove,
             UNCHANGED <<deviceScope, routing>>
      PROVE  TypeOK'
  BY <1>10, RevisionsBounded DEF Remove, rows, WriteJob, Job, TypeOK, RowsTypeOK, OfficeTypeOK,
     FieldTypeOK, RoutingTypeOK
<1>11. ASSUME ReviseScope,
             UNCHANGED <<request, routing>>
      PROVE  TypeOK'
  BY <1>11, RevisionsBounded DEF ReviseScope, rows, TypeOK, RowsTypeOK, OfficeTypeOK,
     FieldTypeOK, RoutingTypeOK
<1>12. ASSUME NEW t \in Technicians, Refresh(t),
             UNCHANGED <<request, routing>>
      PROVE  TypeOK'
  BY <1>12, RevisionsBounded DEF Refresh, rows, TypeOK, RowsTypeOK, OfficeTypeOK,
     FieldTypeOK, RoutingTypeOK
<1>13. ASSUME NEW t \in Technicians, Start(t),
             UNCHANGED <<request, routing>>
      PROVE  TypeOK'
  BY <1>13, RevisionsBounded DEF Start, rows, WriteJob, Job, Statuses, TypeOK, RowsTypeOK, OfficeTypeOK,
     FieldTypeOK, RoutingTypeOK
<1>14. ASSUME NEW t \in Technicians, Complete(t),
             UNCHANGED <<request, routing>>
      PROVE  TypeOK'
  BY <1>14, RevisionsBounded DEF Complete, rows, WriteJob, Job, Statuses, TypeOK, RowsTypeOK, OfficeTypeOK,
     FieldTypeOK, RoutingTypeOK
<1>15. ASSUME NEW t \in Technicians, NEW s \in Sections, RecordSection(t, s),
             UNCHANGED <<request, routing>>
      PROVE  TypeOK'
  BY <1>15, RevisionsBounded DEF RecordSection, rows, WriteSection, Section, TypeOK, RowsTypeOK, OfficeTypeOK,
     FieldTypeOK, RoutingTypeOK
<1>16. ASSUME NEW t \in Technicians, NEW s \in Sections, AcknowledgeEvidence(t, s),
             UNCHANGED <<request, routing>>
      PROVE  TypeOK'
  BY <1>16, RevisionsBounded DEF AcknowledgeEvidence, rows, Section, TypeOK, RowsTypeOK, OfficeTypeOK,
     FieldTypeOK, RoutingTypeOK
<1>17. ASSUME NEW c \in CorrectionOps, Authorize(c),
             UNCHANGED <<request, routing>>
      PROVE  TypeOK'
  BY <1>17, RevisionsBounded DEF Authorize, rows, Correction, Job, TypeOK, RowsTypeOK, OfficeTypeOK,
     FieldTypeOK, RoutingTypeOK
<1>18. ASSUME NEW c \in CorrectionOps, NEW t \in Technicians, Resubmit(c, t),
             UNCHANGED <<request, routing>>
      PROVE  TypeOK'
  <2> DEFINE correction == [corrections[c] EXCEPT !.status = "RESUBMITTED"]
  <2>1. correction \in Correction /\ corrections' = [corrections EXCEPT ![c] = correction]
    BY <1>18 DEF Resubmit, TypeOK, RowsTypeOK, Correction
  <2> HIDE DEF correction
  <2>2. corrections' \in [CorrectionOps -> Correction]
    BY <2>1 DEF TypeOK, RowsTypeOK
  <2> QED BY <1>18, <2>2 DEF Resubmit, TypeOK, RowsTypeOK, OfficeTypeOK, FieldTypeOK, RoutingTypeOK
<1>19. ASSUME NEW c \in CorrectionOps, NEW t \in Technicians, NEW s \in Sections, RecordCorrected(c, t, s),
             UNCHANGED <<request, routing>>
      PROVE  TypeOK'
  <2>1. job' \in Job /\ current' \subseteq Technicians \cup Reviewers
    BY <1>19 DEF RecordCorrected, WriteJob, TypeOK, RowsTypeOK, Job
  <2>2. /\ sections' \in [Sections -> Section]
        /\ sectionCopies' \subseteq Technicians \X Sections
    BY <1>19 DEF RecordCorrected, WriteSection, TypeOK, RowsTypeOK, Section
  <2>3. KeptAck(c) \in Managers \cup {None}
    BY DEF KeptAck, TypeOK, RowsTypeOK, Correction, Job
  <2> DEFINE correction == [corrections[c] EXCEPT !.status = "IN_PROGRESS",
                                                  !.priorAck = KeptAck(c)]
  <2>4. correction \in Correction
    BY <2>3 DEF TypeOK, RowsTypeOK, Correction
  <2>5. corrections' = [corrections EXCEPT ![c] = correction]
    BY <1>19 DEF RecordCorrected, TypeOK, RowsTypeOK, Correction
  <2> HIDE DEF correction
  <2>6. corrections' \in [CorrectionOps -> Correction]
    BY <2>4, <2>5 DEF TypeOK, RowsTypeOK
  <2> QED BY <1>19, <2>1, <2>2, <2>6 DEF RecordCorrected, TypeOK, RowsTypeOK, OfficeTypeOK,
             FieldTypeOK, RoutingTypeOK
<1>20. ASSUME NEW r \in Routers, RouteCheck(r),
             UNCHANGED request
      PROVE  TypeOK'
  BY <1>20, RevisionsBounded DEF RouteCheck, rows, TypeOK, RowsTypeOK, OfficeTypeOK,
     FieldTypeOK, RoutingTypeOK
<1>21. ASSUME NEW t \in Technicians, Interrupt(t),
             UNCHANGED request
      PROVE  TypeOK'
  BY <1>21, RevisionsBounded DEF Interrupt, rows, WriteJob, Job, Statuses, TypeOK, RowsTypeOK, OfficeTypeOK,
     FieldTypeOK, RoutingTypeOK
<1>22. ASSUME NEW p \in ReplacementOps, CreateReplacement(p),
             UNCHANGED request
      PROVE  TypeOK'
  BY <1>22, RevisionsBounded DEF CreateReplacement, rows, Resolved, TypeOK, RowsTypeOK, OfficeTypeOK,
     FieldTypeOK, RoutingTypeOK
<1>23. ASSUME NEW r \in Routers, RouteCommit(r),
             UNCHANGED request
      PROVE  TypeOK'
  BY <1>23, RevisionsBounded DEF RouteCommit, rows, Resolved, WriteJob, Job, Statuses, TypeOK, RowsTypeOK, OfficeTypeOK,
     FieldTypeOK, RoutingTypeOK
<1>24. ASSUME NEW r \in Routers, RouteRefused(r),
             UNCHANGED request
      PROVE  TypeOK'
  BY <1>24, RevisionsBounded DEF RouteRefused, rows, TypeOK, RowsTypeOK, OfficeTypeOK,
     FieldTypeOK, RoutingTypeOK
<1>25. CASE UNCHANGED vars
  BY <1>25 DEF vars, rows, TypeOK, RowsTypeOK, OfficeTypeOK,
     FieldTypeOK, RoutingTypeOK
<1> QED
  BY <1>1, <1>2, <1>3, <1>4, <1>5, <1>6, <1>7, <1>8, <1>9, <1>10, <1>11, <1>12,
     <1>13, <1>14, <1>15, <1>16, <1>17, <1>18, <1>19, <1>20, <1>21, <1>22, <1>23, <1>24, <1>25
  DEF Next, BeginRequest, ContinueRequest, OfficeTransaction, FieldStep, CorrectionStep,
      BeginRouting, InterruptionTransaction, ContinueRouting

\* Every step preserves the types of all rows and of the requests in flight:
\* statuses, crews, scope numbers, section outcomes, corrections and audit rows.
THEOREM TypeCorrect == Spec => []TypeOK
<1>1. TypeOK /\ [Next]_vars => TypeOK'
  BY StepTypeOK
<1> QED
  BY InitTypeOK, <1>1, PTL DEF Spec

-----------------------------------------------------------------------------
(* Which operation writes which part of the rows *)

\* Next by component.
OfficeStep == BeginRequest \/ ContinueRequest \/ OfficeTransaction

RoutingStep == BeginRouting \/ ContinueRouting \/ InterruptionTransaction

LEMMA ComponentSteps ==
  ASSUME [Next]_vars
  PROVE  \/ OfficeStep \/ FieldStep \/ CorrectionStep \/ RoutingStep
         \/ UNCHANGED vars
  BY DEF Next, OfficeStep, RoutingStep

LEMMA OfficeRows ==
  ASSUME OfficeStep
  PROVE  /\ UNCHANGED <<revision, sections, corrections, interruptedBy, route,
                        replacements, attention>>
         /\ \/ UNCHANGED changes
            \/ \E v \in Reviewers, c \in ChangeOps : CommitChange(v, c)
  BY DEF OfficeStep, BeginRequest, ContinueRequest, OfficeTransaction, rows, EditGuard,
         EditRead, EditWrite, AssignRead, AssignDelete, AssignCommit, Preview, CommitChange,
         AcknowledgeCompletion, Remove

LEMMA FieldRows ==
  ASSUME FieldStep
  PROVE  /\ UNCHANGED <<corrections, changes, interruptedBy, route, replacements, attention>>
         /\ revision' = revision \/ ReviseScope
         /\ \/ UNCHANGED sections
            \/ \E t \in Technicians, s \in Sections :
                 RecordSection(t, s) \/ AcknowledgeEvidence(t, s)
  BY DEF FieldStep, ReviseScope, Refresh, Start, Complete, RecordSection, AcknowledgeEvidence

LEMMA CorrectionRows ==
  ASSUME CorrectionStep
  PROVE  UNCHANGED <<revision, changes, interruptedBy, route, replacements, attention>>
<1>1. ASSUME NEW c \in CorrectionOps, Authorize(c)
      PROVE  UNCHANGED <<revision, changes, interruptedBy, route, replacements, attention>>
  BY <1>1 DEF Authorize
<1>2. ASSUME NEW c \in CorrectionOps, NEW t \in Technicians, Resubmit(c, t)
      PROVE  UNCHANGED <<revision, changes, interruptedBy, route, replacements, attention>>
  BY <1>2 DEF Resubmit
<1>3. ASSUME NEW c \in CorrectionOps, NEW t \in Technicians, NEW s \in Sections,
             RecordCorrected(c, t, s)
      PROVE  UNCHANGED <<revision, changes, interruptedBy, route, replacements, attention>>
  BY <1>3 DEF RecordCorrected
<1> QED
  BY <1>1, <1>2, <1>3 DEF CorrectionStep

LEMMA RoutingRows ==
  ASSUME RoutingStep
  PROVE  UNCHANGED <<revision, sections, corrections, changes>>
  BY DEF RoutingStep, BeginRouting, ContinueRouting, InterruptionTransaction, rows,
         RouteCheck, RouteCommit, RouteRefused, Interrupt, CreateReplacement

LEMMA OfficeJob ==
  ASSUME TypeOK, OfficeStep
  PROVE  /\ job'.startedBy = job.startedBy
         /\ job'.startedScope = job.startedScope
         /\ job'.completedBy = job.completedBy
         /\ \/ job'.ackBy = job.ackBy
            \/ \E m \in Managers : AcknowledgeCompletion(m)
         /\ \/ job'.technicians = job.technicians /\ job'.leader = job.leader
            \/ \E r \in Requests : AssignCommit(r)
            \/ Remove
<1> USE DEF TypeOK, RowsTypeOK, Job, WriteJob, rows
<1>1. ASSUME BeginRequest PROVE UNCHANGED job
  BY <1>1 DEF BeginRequest, EditGuard, AssignRead
<1>2. ASSUME NEW r \in Requests, EditRead(r) \/ AssignDelete(r) PROVE UNCHANGED job
  BY <1>2 DEF EditRead, AssignDelete
<1>3. ASSUME NEW r \in Requests, EditWrite(r)
      PROVE  /\ job'.startedBy = job.startedBy /\ job'.startedScope = job.startedScope
             /\ job'.completedBy = job.completedBy /\ job'.ackBy = job.ackBy
             /\ job'.technicians = job.technicians /\ job'.leader = job.leader
  BY <1>3 DEF EditWrite
<1>4. ASSUME NEW r \in Requests, AssignCommit(r)
      PROVE  /\ job'.startedBy = job.startedBy /\ job'.startedScope = job.startedScope
             /\ job'.completedBy = job.completedBy /\ job'.ackBy = job.ackBy
  BY <1>4 DEF AssignCommit
<1>5. ASSUME NEW v \in Reviewers, NEW c \in ChangeOps, Preview(v) \/ CommitChange(v, c)
      PROVE  /\ job'.startedBy = job.startedBy /\ job'.startedScope = job.startedScope
             /\ job'.completedBy = job.completedBy /\ job'.ackBy = job.ackBy
             /\ job'.technicians = job.technicians /\ job'.leader = job.leader
  BY <1>5 DEF Preview, CommitChange
<1>6. ASSUME NEW m \in Managers, AcknowledgeCompletion(m)
      PROVE  /\ job'.startedBy = job.startedBy /\ job'.startedScope = job.startedScope
             /\ job'.completedBy = job.completedBy
             /\ job'.technicians = job.technicians /\ job'.leader = job.leader
  BY <1>6 DEF AcknowledgeCompletion
<1>7. ASSUME Remove
      PROVE  /\ job'.startedBy = job.startedBy /\ job'.startedScope = job.startedScope
             /\ job'.completedBy = job.completedBy /\ job'.ackBy = job.ackBy
  BY <1>7 DEF Remove
<1>8. ASSUME NEW v \in Reviewers, Preview(v) PROVE UNCHANGED job
  BY <1>8 DEF Preview
<1> QED
  BY <1>1, <1>2, <1>3, <1>4, <1>5, <1>6, <1>7, <1>8
  DEF OfficeStep, ContinueRequest, OfficeTransaction

LEMMA FieldJob ==
  ASSUME TypeOK, FieldStep
  PROVE  /\ job'.ackBy = job.ackBy
         /\ job'.technicians = job.technicians
         /\ job'.leader = job.leader
         /\ \/ job'.startedBy = job.startedBy /\ job'.startedScope = job.startedScope
            \/ \E t \in Technicians : Start(t)
         /\ \/ job'.completedBy = job.completedBy
            \/ \E t \in Technicians : Complete(t)
<1> USE DEF TypeOK, RowsTypeOK, Job, WriteJob
<1>1. CASE ReviseScope
  BY <1>1 DEF ReviseScope
<1>2. ASSUME NEW t \in Technicians, Start(t)
      PROVE  /\ job'.completedBy = job.completedBy /\ job'.ackBy = job.ackBy
             /\ job'.technicians = job.technicians /\ job'.leader = job.leader
  BY <1>2 DEF Start
<1>3. ASSUME NEW t \in Technicians, Complete(t)
      PROVE  /\ job'.startedBy = job.startedBy /\ job'.startedScope = job.startedScope
             /\ job'.ackBy = job.ackBy
             /\ job'.technicians = job.technicians /\ job'.leader = job.leader
  BY <1>3 DEF Complete
<1>4. ASSUME NEW t \in Technicians, NEW s \in Sections,
             Refresh(t) \/ RecordSection(t, s) \/ AcknowledgeEvidence(t, s)
      PROVE  UNCHANGED job
  BY <1>4 DEF Refresh, RecordSection, AcknowledgeEvidence
<1>5. ASSUME NEW t \in Technicians, Refresh(t) PROVE UNCHANGED job
  BY <1>5 DEF Refresh
<1> QED
  BY <1>1, <1>2, <1>3, <1>4, <1>5 DEF FieldStep

LEMMA CorrectionJob ==
  ASSUME TypeOK, CorrectionStep
  PROVE  /\ job'.startedBy = job.startedBy
         /\ job'.startedScope = job.startedScope
         /\ job'.completedBy = job.completedBy
         /\ job'.technicians = job.technicians
         /\ job'.leader = job.leader
         /\ job'.status = job.status
         /\ \/ job'.ackBy = job.ackBy
            \/ \E c \in CorrectionOps, t \in Technicians, s \in Sections :
                 RecordCorrected(c, t, s)
<1>1. ASSUME NEW c \in CorrectionOps, Authorize(c) PROVE UNCHANGED job
  BY <1>1 DEF Authorize
<1>2. ASSUME NEW c \in CorrectionOps, NEW t \in Technicians, Resubmit(c, t)
      PROVE  UNCHANGED job
  BY <1>2 DEF Resubmit
<1>3. ASSUME NEW c \in CorrectionOps, NEW t \in Technicians, NEW s \in Sections,
             RecordCorrected(c, t, s)
      PROVE  /\ job'.startedBy = job.startedBy /\ job'.startedScope = job.startedScope
             /\ job'.completedBy = job.completedBy /\ job'.status = job.status
             /\ job'.technicians = job.technicians /\ job'.leader = job.leader
  BY <1>3 DEF RecordCorrected, WriteJob, TypeOK, RowsTypeOK, Job
<1> QED
  BY <1>1, <1>2, <1>3 DEF CorrectionStep

LEMMA RoutingJob ==
  ASSUME TypeOK, RoutingStep
  PROVE  /\ job'.startedBy = job.startedBy
         /\ job'.startedScope = job.startedScope
         /\ job'.completedBy = job.completedBy
         /\ job'.ackBy = job.ackBy
         /\ job'.technicians = job.technicians
         /\ job'.leader = job.leader
  BY DEF RoutingStep, BeginRouting, ContinueRouting, InterruptionTransaction, rows, RouteCheck,
         RouteCommit, RouteRefused, Interrupt, CreateReplacement, WriteJob, TypeOK, RowsTypeOK, Job

\* The statuses each component writes.
LEMMA OfficeStatus ==
  ASSUME TypeOK, OfficeStep
  PROVE  \/ job'.status \in {job.status, "ASSIGNED", "CANCELLED"} \cup Targets
         \/ Remove /\ job'.status = Gone
<1> USE DEF TypeOK, RowsTypeOK, Job, WriteJob, rows
<1>1. ASSUME BeginRequest PROVE UNCHANGED job
  BY <1>1 DEF BeginRequest, EditGuard, AssignRead
<1>2. ASSUME NEW r \in Requests, EditRead(r) \/ AssignDelete(r) PROVE UNCHANGED job
  BY <1>2 DEF EditRead, AssignDelete
<1>3. ASSUME NEW r \in Requests, EditWrite(r) PROVE job'.status \in {job.status} \cup Targets
  BY <1>3 DEF EditWrite, OfficeTypeOK, Request
<1>4. ASSUME NEW r \in Requests, AssignCommit(r) PROVE job'.status \in {job.status, "ASSIGNED"}
  BY <1>4 DEF AssignCommit
<1>5. ASSUME NEW v \in Reviewers, NEW c \in ChangeOps, CommitChange(v, c)
      PROVE  job'.status \in {job.status, "CANCELLED"}
  BY <1>5 DEF CommitChange
<1>6. ASSUME NEW v \in Reviewers, Preview(v) PROVE UNCHANGED job
  BY <1>6 DEF Preview
<1>7. ASSUME NEW m \in Managers, AcknowledgeCompletion(m) PROVE job'.status = job.status
  BY <1>7 DEF AcknowledgeCompletion
<1>8. ASSUME Remove PROVE job'.status = Gone
  BY <1>8 DEF Remove
<1> HIDE DEF TypeOK, RowsTypeOK, Job, WriteJob, rows
<1> QED
  BY <1>1, <1>2, <1>3, <1>4, <1>5, <1>6, <1>7, <1>8
  DEF OfficeStep, ContinueRequest, OfficeTransaction

LEMMA FieldStatus ==
  ASSUME TypeOK, FieldStep
  PROVE  job'.status \in {job.status, "ON_SITE", "COMPLETED"}
<1>1. ASSUME NEW t \in Technicians, Start(t) \/ Complete(t)
      PROVE  job'.status \in {"ON_SITE", "COMPLETED"}
  BY <1>1 DEF Start, Complete, WriteJob, TypeOK, RowsTypeOK, Job
<1>2. ASSUME ReviseScope \/ (\E t \in Technicians : Refresh(t))
             \/ (\E t \in Technicians, s \in Sections :
                   RecordSection(t, s) \/ AcknowledgeEvidence(t, s))
      PROVE  UNCHANGED job
  BY <1>2 DEF ReviseScope, Refresh, RecordSection, AcknowledgeEvidence
<1> QED
  BY <1>1, <1>2 DEF FieldStep

LEMMA RoutingStatus ==
  ASSUME TypeOK, RoutingStep
  PROVE  job'.status \in {job.status, "INTERRUPTED", "CLOSED"}
  BY DEF RoutingStep, BeginRouting, ContinueRouting, InterruptionTransaction, rows, RouteCheck,
         RouteCommit, RouteRefused, Interrupt, CreateReplacement, WriteJob, TypeOK, RowsTypeOK, Job

-----------------------------------------------------------------------------
(* Corrections and acknowledgements *)

\* What a correction found at its authorization is still there until its first
\* corrected outcome; OneCorrectionOfTheCompletion is needed because another
\* correction's outcome would withdraw the acknowledgement.
CorrectionInv ==
  /\ OneCorrectionOfTheCompletion
  /\ NoAckDuringCorrection
  /\ \A c \in CorrectionOps :
       corrections[c].status = "AUTHORIZED" =>
         corrections[c].priorAck \in {None, job.ackBy}

LEMMA InitCorrectionInv == Init => CorrectionInv
  BY DEF Init, RowsInit, CorrectionInv, OneCorrectionOfTheCompletion, NoAckDuringCorrection,
         CorrectionInProgress, Active

LEMMA CorrectionFrame ==
  ASSUME CorrectionInv, UNCHANGED corrections, job'.completedBy = job.completedBy,
         job'.ackBy = job.ackBy
  PROVE  CorrectionInv'
  BY DEF CorrectionInv, OneCorrectionOfTheCompletion, NoAckDuringCorrection,
         CorrectionInProgress, Active

LEMMA StepCorrectionInv ==
  ASSUME TypeOK, CorrectionInv, [Next]_vars
  PROVE  CorrectionInv'
<1>1. ASSUME NEW m \in Managers, AcknowledgeCompletion(m)
      PROVE  CorrectionInv'
  <2>1. /\ UNCHANGED corrections
        /\ job'.completedBy = job.completedBy
        /\ ~CorrectionInProgress /\ job.ackBy = None
    BY <1>1 DEF AcknowledgeCompletion, Reviewable, WriteJob, TypeOK, RowsTypeOK, Job
  <2> QED BY <2>1 DEF CorrectionInv, OneCorrectionOfTheCompletion, NoAckDuringCorrection,
             CorrectionInProgress, Active
<1>2. ASSUME NEW t \in Technicians, Complete(t)
      PROVE  CorrectionInv'
  <2>1. UNCHANGED corrections /\ job.completedBy = None
    BY <1>2 DEF Complete, Completable
  <2> QED BY <2>1 DEF CorrectionInv, OneCorrectionOfTheCompletion, NoAckDuringCorrection,
             CorrectionInProgress, Active
<1>3. ASSUME NEW c \in CorrectionOps, Authorize(c)
      PROVE  CorrectionInv'
  <2>1. /\ corrections'[c].status = "AUTHORIZED"
        /\ corrections'[c].technician = job.completedBy
        /\ corrections'[c].priorAck = job.ackBy
        /\ \A d \in CorrectionOps \ {c} : corrections'[d] = corrections[d]
    BY <1>3 DEF Authorize, TypeOK, RowsTypeOK
  <2>2. UNCHANGED job /\ job.completedBy # None /\ \A d \in CorrectionOps : ~Active(d)
    BY <1>3 DEF Authorize, Correctable
  <2> QED BY <2>1, <2>2 DEF CorrectionInv, OneCorrectionOfTheCompletion,
             NoAckDuringCorrection, CorrectionInProgress, Active
<1>4. ASSUME NEW c \in CorrectionOps, NEW t \in Technicians, Resubmit(c, t)
      PROVE  CorrectionInv'
  <2>1. /\ corrections'[c].status = "RESUBMITTED"
        /\ corrections'[c].technician = corrections[c].technician
        /\ corrections[c].status = "IN_PROGRESS"
        /\ \A d \in CorrectionOps \ {c} : corrections'[d] = corrections[d]
    BY <1>4 DEF Resubmit, TypeOK, RowsTypeOK, Correction
  <2>2. UNCHANGED job
    BY <1>4 DEF Resubmit
  <2> QED BY <2>1, <2>2 DEF CorrectionInv, OneCorrectionOfTheCompletion,
             NoAckDuringCorrection, CorrectionInProgress, Active
<1>5. ASSUME NEW c \in CorrectionOps, NEW t \in Technicians, NEW s \in Sections,
             RecordCorrected(c, t, s)
      PROVE  CorrectionInv'
  <2>1. /\ corrections'[c].status = "IN_PROGRESS"
        /\ corrections'[c].technician = corrections[c].technician
        /\ Active(c)
        /\ \A d \in CorrectionOps \ {c} : corrections'[d] = corrections[d]
    BY <1>5 DEF RecordCorrected, TypeOK, RowsTypeOK, Correction
  <2>2. job'.ackBy = None /\ job'.completedBy = job.completedBy
    BY <1>5 DEF RecordCorrected, WriteJob, TypeOK, RowsTypeOK, Job
  <2> QED BY <2>1, <2>2 DEF CorrectionInv, OneCorrectionOfTheCompletion,
             NoAckDuringCorrection, CorrectionInProgress, Active
<1>6. CASE OfficeStep
  BY <1>6, <1>1, OfficeRows, OfficeJob, CorrectionFrame
<1>7. CASE FieldStep
  BY <1>7, <1>2, FieldRows, FieldJob, CorrectionFrame
<1>8. CASE CorrectionStep
  BY <1>8, <1>3, <1>4, <1>5 DEF CorrectionStep
<1>9. CASE RoutingStep
  BY <1>9, RoutingRows, RoutingJob, CorrectionFrame
<1>10. CASE UNCHANGED vars
  BY <1>10, CorrectionFrame DEF vars, rows
<1> QED BY <1>6, <1>7, <1>8, <1>9, <1>10, ComponentSteps

THEOREM CorrectionSafe == Spec => []CorrectionInv
<1>1. TypeOK /\ CorrectionInv /\ [Next]_vars => CorrectionInv'
  BY StepCorrectionInv
<1> QED
  BY InitCorrectionInv, <1>1, TypeCorrect, PTL DEF Spec

\* However many corrections the code authorizes, one at most is active, and it
\* belongs to the Technician of the completion.
THEOREM OneActiveCorrection == Spec => []OneCorrectionOfTheCompletion
<1>1. CorrectionInv => OneCorrectionOfTheCompletion
  BY DEF CorrectionInv
<1> QED
  BY CorrectionSafe, <1>1, PTL

\* No acknowledgement is current while corrected outcomes come in, whatever the
\* order of acknowledgements, authorizations, outcomes and stale edits.
THEOREM AckWithdrawn == Spec => []NoAckDuringCorrection
<1>1. CorrectionInv => NoAckDuringCorrection
  BY DEF CorrectionInv
<1> QED
  BY CorrectionSafe, <1>1, PTL

\* A withdrawn acknowledgement is kept by the correction that withdrew it.
THEOREM AckKept == Spec => AcknowledgementKept
<1> DEFINE Kept ==
      job.ackBy # None /\ job'.ackBy # job.ackBy =>
        \E c \in CorrectionOps :
          corrections'[c].status = "IN_PROGRESS" /\ corrections'[c].priorAck = job.ackBy
<1>1. ASSUME TypeOK, CorrectionInv, [Next]_vars
      PROVE  Kept
  <2> SUFFICES ASSUME job.ackBy # None, job'.ackBy # job.ackBy
               PROVE  \E c \in CorrectionOps : /\ corrections'[c].status = "IN_PROGRESS"
                                               /\ corrections'[c].priorAck = job.ackBy
    OBVIOUS
  <2>1. \A m \in Managers : ~AcknowledgeCompletion(m)
    BY DEF AcknowledgeCompletion
  <2>2. PICK c \in CorrectionOps, t \in Technicians, s \in Sections : RecordCorrected(c, t, s)
    BY <1>1, <2>1, ComponentSteps, OfficeJob, FieldJob, CorrectionJob, RoutingJob DEF vars, rows
  <2>3. corrections'[c].status = "IN_PROGRESS" /\ corrections'[c].priorAck = KeptAck(c)
    BY <1>1, <2>2 DEF RecordCorrected, TypeOK, RowsTypeOK, Correction
  <2>4. KeptAck(c) = job.ackBy
    BY <1>1, <2>2 DEF RecordCorrected, KeptAck, CorrectionInv, NoAckDuringCorrection,
                      CorrectionInProgress, Active
  <2> QED BY <2>3, <2>4
<1>2. TypeOK /\ CorrectionInv /\ [Next]_vars => [Kept]_vars
  BY <1>1
<1> QED
  BY <1>2, TypeCorrect, CorrectionSafe, PTL DEF Spec, AcknowledgementKept

-----------------------------------------------------------------------------
(* Completion and its evidence *)

\* A section has an outcome only with an author, and evidence whenever it has
\* an outcome that asks for it, before the visit is completed as after.
EvidenceInv ==
  /\ \A s \in Sections :
       /\ sections[s].by = None => sections[s].outcome = "PENDING"
       /\ sections[s].by # None /\ EvidenceRequired(s, sections[s].outcome) =>
            sections[s].evidence
  /\ job.completedBy # None =>
       /\ job.startedBy # None
       /\ Sections # {}
       /\ \A s \in Sections : sections[s].by # None

LEMMA InitEvidenceInv == Init => EvidenceInv
  BY DEF Init, RowsInit, CreatedJobs, EvidenceInv

LEMMA EvidenceFrame ==
  ASSUME EvidenceInv, UNCHANGED sections, job'.completedBy = job.completedBy,
         job.startedBy # None => job'.startedBy # None
  PROVE  EvidenceInv'
  BY DEF EvidenceInv, EvidenceRequired

\* A new outcome comes with its author and its evidence.
LEMMA WrittenSection ==
  ASSUME TypeOK, EvidenceInv,
         NEW t \in Technicians, NEW s \in Sections,
         NEW outcome \in Outcomes, NEW photographed \in BOOLEAN,
         Photographed(s, outcome, photographed),
         WriteSection(s, t, outcome, photographed),
         job'.completedBy = job.completedBy, job'.startedBy = job.startedBy
  PROVE  EvidenceInv'
<1>1. /\ sections'[s].by = t
      /\ sections'[s].outcome = outcome
      /\ sections'[s].evidence = (sections[s].evidence \/ photographed)
      /\ \A d \in Sections \ {s} : sections'[d] = sections[d]
  BY DEF WriteSection, TypeOK, RowsTypeOK
<1>2. t # None
  BY NoneIsNobody
<1>3. EvidenceRequired(s, outcome) => sections'[s].evidence
  BY <1>1 DEF Photographed
<1> QED
  BY <1>1, <1>2, <1>3 DEF EvidenceInv, EvidenceRequired

LEMMA StepEvidenceInv ==
  ASSUME TypeOK, EvidenceInv, [Next]_vars
  PROVE  EvidenceInv'
<1>1. ASSUME NEW t \in Technicians, Start(t)
      PROVE  EvidenceInv'
  <2>1. UNCHANGED sections /\ job'.completedBy = job.completedBy /\ job'.startedBy = t
    BY <1>1 DEF Start, WriteJob, TypeOK, RowsTypeOK, Job
  <2> QED BY <2>1, NoneIsNobody, EvidenceFrame
<1>2. ASSUME NEW t \in Technicians, Complete(t)
      PROVE  EvidenceInv'
  <2>1. /\ UNCHANGED sections
        /\ job.startedBy # None /\ job'.startedBy = job.startedBy
        /\ Sections # {}
        /\ \A s \in Sections : sections[s].outcome # "PENDING"
    BY <1>2 DEF Complete, Completable, Settled, WriteJob, TypeOK, RowsTypeOK, Job
  <2> QED BY <2>1 DEF EvidenceInv, EvidenceRequired
<1>3. ASSUME NEW t \in Technicians, NEW s \in Sections, RecordSection(t, s)
      PROVE  EvidenceInv'
  <2>1. PICK outcome \in Outcomes, photographed \in BOOLEAN :
          /\ Photographed(s, outcome, photographed)
          /\ WriteSection(s, t, outcome, photographed)
          /\ UNCHANGED job
    BY <1>3 DEF RecordSection
  <2> QED BY <2>1, WrittenSection
<1>4. ASSUME NEW t \in Technicians, NEW s \in Sections, AcknowledgeEvidence(t, s)
      PROVE  EvidenceInv'
  <2>1. /\ UNCHANGED job
        /\ sections'[s].by = sections[s].by
        /\ sections'[s].outcome = sections[s].outcome
        /\ sections'[s].evidence
        /\ \A d \in Sections \ {s} : sections'[d] = sections[d]
    BY <1>4 DEF AcknowledgeEvidence, TypeOK, RowsTypeOK, Section
  <2> QED BY <2>1 DEF EvidenceInv, EvidenceRequired
<1>5. ASSUME NEW c \in CorrectionOps, NEW t \in Technicians, NEW s \in Sections,
             RecordCorrected(c, t, s)
      PROVE  EvidenceInv'
  <2>1. PICK outcome \in Outcomes, photographed \in BOOLEAN :
          /\ Photographed(s, outcome, photographed)
          /\ WriteSection(s, t, outcome, photographed)
    BY <1>5 DEF RecordCorrected
  <2>2. job'.completedBy = job.completedBy /\ job'.startedBy = job.startedBy
    BY <1>5 DEF RecordCorrected, WriteJob, TypeOK, RowsTypeOK, Job
  <2> QED BY <2>1, <2>2, WrittenSection
<1>6. ASSUME NEW c \in CorrectionOps, Authorize(c) \/ \E t \in Technicians : Resubmit(c, t)
      PROVE  EvidenceInv'
  BY <1>6, EvidenceFrame DEF Authorize, Resubmit
<1>7. CASE OfficeStep
  BY <1>7, OfficeRows, OfficeJob, EvidenceFrame
<1>8. CASE FieldStep
  <2>1. CASE \E t \in Technicians : Start(t) \/ Complete(t)
    BY <2>1, <1>1, <1>2
  <2>2. CASE \E t \in Technicians, s \in Sections : RecordSection(t, s) \/ AcknowledgeEvidence(t, s)
    BY <2>2, <1>3, <1>4
  <2> QED BY <1>8, <2>1, <2>2, FieldRows, FieldJob, EvidenceFrame
<1>9. CASE CorrectionStep
  BY <1>9, <1>5, <1>6 DEF CorrectionStep
<1>10. CASE RoutingStep
  BY <1>10, RoutingRows, RoutingJob, EvidenceFrame
<1>11. CASE UNCHANGED vars
  BY <1>11, EvidenceFrame DEF vars, rows
<1> QED BY <1>7, <1>8, <1>9, <1>10, <1>11, ComponentSteps

THEOREM EvidenceSafe == Spec => []EvidenceInv
<1>1. TypeOK /\ EvidenceInv /\ [Next]_vars => EvidenceInv'
  BY StepEvidenceInv
<1> QED
  BY InitEvidenceInv, <1>1, TypeCorrect, PTL DEF Spec

\* A completion that stands has a start, and each of its sections an author and
\* the evidence its policy asks for, also after later outcomes and corrections.
THEOREM CompletionEvidenced == Spec => []CompletionIsEvidenced
<1>1. EvidenceInv => CompletionIsEvidenced
  BY DEF EvidenceInv, CompletionIsEvidenced
<1> QED
  BY EvidenceSafe, <1>1, PTL

\* Only a visit without completion, interruption and material change is deleted.
THEOREM HistoryKept == Spec => HistoryNotDeleted
<1> DEFINE Kept ==
      Exists /\ ~Exists' =>
        /\ job.completedBy = None
        /\ interruptedBy = None
        /\ \A c \in ChangeOps : changes[c] = "ABSENT"
<1>1. ASSUME TypeOK, [Next]_vars, Exists, ~Exists'
      PROVE  Remove
  <2>1. job.status \in Statuses /\ job'.status = Gone
    BY <1>1 DEF Exists, TypeOK, RowsTypeOK, Job
  <2>2. Gone \notin Statuses
    BY DEF Gone, Statuses
  <2>3. {"ASSIGNED", "ON_SITE", "INTERRUPTED", "COMPLETED", "CLOSED", "CANCELLED"}
          \cup Targets \subseteq Statuses
    BY TargetsAreEditable DEF Statuses
  <2> QED
    BY <1>1, <2>1, <2>2, <2>3, ComponentSteps, OfficeStatus, FieldStatus, CorrectionJob,
       RoutingStatus DEF vars, rows
<1>2. ASSUME TypeOK, EvidenceInv, [Next]_vars
      PROVE  Kept
  BY <1>1, <1>2 DEF Remove, Unreferenced, EvidenceInv
<1>3. TypeOK /\ EvidenceInv /\ [Next]_vars => [Kept]_vars
  BY <1>2
<1> QED
  BY <1>3, TypeCorrect, EvidenceSafe, PTL DEF Spec, HistoryNotDeleted

-----------------------------------------------------------------------------
(* Staffing and the frozen scope *)

\* Every assignment request in flight names a leader of its own crew, so that
\* the leader belongs to whatever crew its commit leaves.
StaffingInv ==
  /\ LeaderIsAssigned
  /\ \A r \in Requests : request[r].leader \in request[r].technicians \cup {None}

LEMMA InitStaffingInv == Init => StaffingInv
  BY DEF Init, RowsInit, CreatedJobs, JobLeaders, OfficeInit, Idle, StaffingInv, LeaderIsAssigned

LEMMA StepStaffingInv ==
  ASSUME TypeOK, StaffingInv, [Next]_vars
  PROVE  StaffingInv'
<1> DEFINE Own(r) == request[r].leader \in request[r].technicians \cup {None}
<1>1. \A r \in Requests : Own(r)'
  <2>1. ASSUME NEW r \in Editors, EditGuard(r)
        PROVE  request'[r].leader = None /\ \A q \in Requests \ {r} : request'[q] = request[q]
    BY <2>1 DEF EditGuard, Idle, TypeOK, OfficeTypeOK, Requests
  <2>2. ASSUME NEW r \in Assigners, AssignRead(r)
        PROVE  Own(r)' /\ \A q \in Requests \ {r} : request'[q] = request[q]
    <3>1. PICK technicians \in SUBSET Technicians :
            \E leader \in JobLeaders(technicians) :
              request' = [request EXCEPT ![r] =
                [Idle EXCEPT !.phase = "assign", !.seen = job.status,
                             !.technicians = technicians, !.leader = leader]]
      BY <2>2 DEF AssignRead
    <3>2. PICK leader \in JobLeaders(technicians) :
            request' = [request EXCEPT ![r] =
              [Idle EXCEPT !.phase = "assign", !.seen = job.status,
                           !.technicians = technicians, !.leader = leader]]
      BY <3>1
    <3>3. /\ request'[r].leader = leader /\ request'[r].technicians = technicians
          /\ \A q \in Requests \ {r} : request'[q] = request[q]
      BY <3>2 DEF Idle, TypeOK, OfficeTypeOK, Requests
    <3> QED BY <3>3 DEF JobLeaders
  <2>3. ASSUME NEW r \in Requests, EditRead(r) \/ EditWrite(r) \/ AssignDelete(r) \/ AssignCommit(r)
        PROVE  /\ \/ request'[r].leader = None
                  \/ /\ request'[r].leader = request[r].leader
                     /\ request'[r].technicians = request[r].technicians
               /\ \A q \in Requests \ {r} :
                    /\ request'[q].leader = request[q].leader
                    /\ request'[q].technicians = request[q].technicians
    <3>1. CASE request' = [request EXCEPT ![r] = Idle]
      BY <3>1 DEF Idle, TypeOK, OfficeTypeOK
    <3>2. CASE EditRead(r) /\ request' # [request EXCEPT ![r] = Idle]
      BY <3>2 DEF EditRead, Finish, TypeOK, OfficeTypeOK, Request
    <3>3. CASE AssignDelete(r)
      BY <3>3 DEF AssignDelete, TypeOK, OfficeTypeOK, Request
    <3>4. CASE AssignCommit(r)
      BY <3>4, AssignmentFinishes DEF Unmoved, Idle
    <3> QED BY <2>3, <3>1, <3>2, <3>3, <3>4 DEF EditWrite, Finish
  <2>4. CASE BeginRequest
    BY <2>4, <2>1, <2>2 DEF BeginRequest, StaffingInv
  <2>5. CASE ContinueRequest
    BY <2>5, <2>3 DEF ContinueRequest, StaffingInv
  <2>6. CASE UNCHANGED request
    BY <2>6 DEF StaffingInv
  <2> QED
    BY <2>4, <2>5, <2>6 DEF Next, OfficeTransaction, Preview, CommitChange,
       AcknowledgeCompletion, Remove, vars, rows
<1>2. LeaderIsAssigned'
  <2>1. ASSUME NEW r \in Requests, AssignCommit(r)
        PROVE  LeaderIsAssigned'
    <3> DEFINE technicians == (job.technicians \ request[r].dropped) \cup request[r].technicians
               status == IF request[r].technicians # {} /\ request[r].seen = "NEW"
                           THEN "ASSIGNED" ELSE job.status
    <3>1. \/ job' = [job EXCEPT !.technicians = technicians,
                                !.leader = request[r].leader, !.status = status]
          \/ UNCHANGED job
      BY <2>1 DEF AssignCommit, WriteJob
    <3>2. request[r].technicians \subseteq technicians
      OBVIOUS
    <3> HIDE DEF technicians, status
    <3>3. request[r].leader \in request[r].technicians \cup {None}
      BY DEF StaffingInv
    <3>4. CASE UNCHANGED job
      BY <3>4 DEF StaffingInv, LeaderIsAssigned
    <3>5. CASE job' = [job EXCEPT !.technicians = technicians,
                                  !.leader = request[r].leader, !.status = status]
      <4>1. job'.leader = request[r].leader /\ job'.technicians = technicians
        BY <3>5 DEF TypeOK, RowsTypeOK, Job
      <4> QED BY <4>1, <3>2, <3>3 DEF LeaderIsAssigned
    <3> QED BY <3>1, <3>4, <3>5
  <2>2. ASSUME Remove PROVE LeaderIsAssigned'
    BY <2>2 DEF Remove, WriteJob, LeaderIsAssigned, TypeOK, RowsTypeOK, Job
  <2> QED
    BY <2>1, <2>2, ComponentSteps, OfficeJob, FieldJob, CorrectionJob, RoutingJob
    DEF StaffingInv, LeaderIsAssigned, vars, rows
<1> QED BY <1>1, <1>2 DEF StaffingInv

\* Whatever crews two interleaving assignment transactions merge into, the Job
\* Leader is one of the Technicians that result.
THEOREM LeaderAlwaysAssigned == Spec => []LeaderIsAssigned
<1>1. TypeOK /\ StaffingInv /\ [Next]_vars => StaffingInv'
  BY StepStaffingInv
<1>2. StaffingInv => LeaderIsAssigned
  BY DEF StaffingInv
<1> QED
  BY InitStaffingInv, <1>1, <1>2, TypeCorrect, PTL DEF Spec

\* The scope a visit was started on stays the latest revision: revising and
\* starting exclude each other, even after a stale status edit.
THEOREM ScopeFrozen == Spec => []FrozenScopeIsLatest
<1>1. Init => FrozenScopeIsLatest
  BY DEF Init, RowsInit, CreatedJobs, FrozenScopeIsLatest
<1>2. ASSUME TypeOK, FrozenScopeIsLatest, [Next]_vars
      PROVE  FrozenScopeIsLatest'
  <2>1. ASSUME NEW t \in Technicians, Start(t)
        PROVE  FrozenScopeIsLatest'
    <3>1. /\ job'.startedBy = t /\ job'.startedScope = revision
          /\ revision # 0 /\ UNCHANGED revision
      BY <1>2, <2>1 DEF Start, WriteJob, TypeOK, RowsTypeOK, Job
    <3> QED BY <3>1, NoneIsNobody DEF FrozenScopeIsLatest
  <2>2. ASSUME ReviseScope PROVE FrozenScopeIsLatest'
    BY <1>2, <2>2 DEF ReviseScope, Revisable, FrozenScopeIsLatest
  <2>3. CASE OfficeStep
    BY <1>2, <2>3, OfficeRows, OfficeJob DEF FrozenScopeIsLatest
  <2>4. CASE FieldStep
    BY <1>2, <2>4, <2>1, <2>2, FieldRows, FieldJob DEF FrozenScopeIsLatest
  <2>5. CASE CorrectionStep
    BY <1>2, <2>5, CorrectionRows, CorrectionJob DEF FrozenScopeIsLatest
  <2>6. CASE RoutingStep
    BY <1>2, <2>6, RoutingRows, RoutingJob DEF FrozenScopeIsLatest
  <2> QED BY <1>2, <2>3, <2>4, <2>5, <2>6, ComponentSteps DEF FrozenScopeIsLatest, vars, rows
<1>3. TypeOK /\ FrozenScopeIsLatest /\ [Next]_vars => FrozenScopeIsLatest'
  BY <1>2
<1> QED
  BY <1>1, <1>3, TypeCorrect, PTL DEF Spec

\* Nobody rewrites who started, who completed and who interrupted the visit.
THEOREM FieldTruth == Spec => FieldTruthWrittenOnce
<1> DEFINE Once ==
      /\ job.startedBy # None => job'.startedBy = job.startedBy
      /\ job.completedBy # None => job'.completedBy = job.completedBy
      /\ interruptedBy # None => interruptedBy' = interruptedBy
<1>1. ASSUME TypeOK, [Next]_vars
      PROVE  Once
  <2>1. ASSUME NEW t \in Technicians, Start(t)
        PROVE  job.startedBy = None
    BY <2>1 DEF Start, Startable
  <2>2. ASSUME NEW t \in Technicians, Complete(t)
        PROVE  job.completedBy = None
    BY <2>2 DEF Complete, Completable
  <2>3. ASSUME RoutingStep
        PROVE  interruptedBy # None => interruptedBy' = interruptedBy
    BY <2>3 DEF RoutingStep, BeginRouting, ContinueRouting, InterruptionTransaction, rows,
       RouteCheck, RouteCommit, RouteRefused, Interrupt, CreateReplacement
  <2> QED
    BY <1>1, <2>1, <2>2, <2>3, ComponentSteps, OfficeRows, OfficeJob, FieldRows, FieldJob,
       CorrectionRows, CorrectionJob, RoutingJob DEF vars, rows
<1>2. TypeOK /\ [Next]_vars => [Once]_vars
  BY <1>1
<1> QED
  BY <1>2, TypeCorrect, PTL DEF Spec, FieldTruthWrittenOnce

-----------------------------------------------------------------------------
(* Interruption, routing and replacement *)

\* An interrupted visit has not been routed to CLOSE, and nothing is routed or
\* replaced without an interruption; this holds although a stale status edit
\* may take an interrupted visit back to work.
ReviewInv ==
  /\ ReviewedUntilHandled
  /\ job.status = "INTERRUPTED" => interruptedBy # None /\ route # "CLOSE"
  /\ interruptedBy = None => route = None /\ replacements = {}
  /\ \A p, q \in replacements : p = q

LEMMA InitReviewInv == Init => ReviewInv
  BY DEF Init, RowsInit, CreatedJobs, ReviewInv, ReviewedUntilHandled

LEMMA ReviewFrame ==
  ASSUME ReviewInv, UNCHANGED <<interruptedBy, route, replacements, attention>>,
         job'.status = "INTERRUPTED" => job.status = "INTERRUPTED"
  PROVE  ReviewInv'
  BY DEF ReviewInv, ReviewedUntilHandled

LEMMA StepReviewInv ==
  ASSUME TypeOK, ReviewInv, [Next]_vars
  PROVE  ReviewInv'
<1>1. ASSUME NEW t \in Technicians, Interrupt(t)
      PROVE  ReviewInv'
  <2>1. /\ interruptedBy = None /\ interruptedBy' = t /\ attention' = "OPEN"
        /\ UNCHANGED <<route, replacements>>
    BY <1>1 DEF Interrupt
  <2>2. route = None /\ replacements = {} /\ t # None
    BY <2>1, NoneIsNobody DEF ReviewInv
  <2>3. route # "CLOSE"
    BY <2>2, NoneIsNoAction DEF NextActions
  <2> QED BY <2>1, <2>2, <2>3 DEF ReviewInv, ReviewedUntilHandled
<1>2. ASSUME NEW r \in Routers, RouteCommit(r)
      PROVE  ReviewInv'
  <2>1. PICK action \in NextActions :
          /\ job.status = "INTERRUPTED"
          /\ route' = action
          /\ IF action = "CLOSE"
               THEN job' = [job EXCEPT !.status = "CLOSED"] /\ attention' = Resolved
               ELSE UNCHANGED <<job, attention>>
          /\ UNCHANGED <<interruptedBy, replacements>>
    BY <1>2 DEF RouteCommit, WriteJob
  <2>2. interruptedBy # None /\ route # "CLOSE"
    BY <2>1 DEF ReviewInv
  <2>3. CASE action = "CLOSE"
    <3>1. job'.status = "CLOSED"
      BY <2>1, <2>3 DEF TypeOK, RowsTypeOK, Job
    <3>2. attention' = "RESOLVED"
      BY <2>1, <2>2, <2>3 DEF Resolved, TypeOK, RowsTypeOK, ReviewInv, ReviewedUntilHandled
    <3> QED BY <2>1, <2>2, <2>3, <3>1, <3>2 DEF ReviewInv, ReviewedUntilHandled
  <2>4. CASE action # "CLOSE"
    BY <2>1, <2>2, <2>4 DEF ReviewInv, ReviewedUntilHandled
  <2> QED BY <2>3, <2>4
<1>3. ASSUME NEW p \in ReplacementOps, CreateReplacement(p)
      PROVE  ReviewInv'
  <2>1. /\ interruptedBy # None /\ replacements = {} /\ replacements' = {p}
        /\ attention' = Resolved
        /\ UNCHANGED <<job, interruptedBy, route>>
    BY <1>3 DEF CreateReplacement, Unreplaced
  <2>2. attention' = "RESOLVED"
    BY <2>1 DEF Resolved, TypeOK, RowsTypeOK, ReviewInv, ReviewedUntilHandled
  <2> QED BY <2>1, <2>2 DEF ReviewInv, ReviewedUntilHandled
<1>4. CASE OfficeStep
  <2>1. "INTERRUPTED" \notin {"ASSIGNED", "CANCELLED", Gone} \cup Targets
    BY TargetsAreEditable DEF Gone
  <2> QED BY <1>4, <2>1, OfficeRows, OfficeStatus, ReviewFrame
<1>5. CASE FieldStep
  BY <1>5, FieldRows, FieldStatus, ReviewFrame
<1>6. CASE CorrectionStep
  BY <1>6, CorrectionRows, CorrectionJob, ReviewFrame
<1>7. CASE RoutingStep
  <2>1. ASSUME NEW r \in Routers, RouteCheck(r) \/ RouteRefused(r)
        PROVE  ReviewInv'
    BY <2>1, ReviewFrame DEF RouteCheck, RouteRefused, rows
  <2> QED BY <1>7, <1>1, <1>2, <1>3, <2>1 DEF RoutingStep, BeginRouting, ContinueRouting,
             InterruptionTransaction
<1>8. CASE UNCHANGED vars
  BY <1>8, ReviewFrame DEF vars, rows
<1> QED BY <1>4, <1>5, <1>6, <1>7, <1>8, ComponentSteps

THEOREM ReviewSafe == Spec => []ReviewInv
<1>1. TypeOK /\ ReviewInv /\ [Next]_vars => ReviewInv'
  BY StepReviewInv
<1> QED
  BY InitReviewInv, <1>1, TypeCorrect, PTL DEF Spec

\* The attention item of an interrupted visit is open exactly until the visit is
\* closed or replaced, however routing and replacement requests interleave.
THEOREM ReviewedExactly == Spec => []ReviewedUntilHandled
<1>1. ReviewInv => ReviewedUntilHandled
  BY DEF ReviewInv
<1> QED
  BY ReviewSafe, <1>1, PTL

\* An interruption has at most one replacement visit.
THEOREM ReplacedOnce == Spec => []OneReplacement
<1>1. ReviewInv => OneReplacement
  <2> SUFFICES ASSUME \A p, q \in replacements : p = q
               PROVE  Cardinality(replacements) <= 1
    BY DEF ReviewInv, OneReplacement
  <2>1. CASE replacements = {}
    BY <2>1, FS_EmptySet
  <2>2. CASE replacements # {}
    <3>1. PICK p \in replacements : TRUE
      BY <2>2
    <3>2. replacements = {p}
      BY <3>1
    <3>3. Cardinality(replacements) = 1
      BY <3>2, FS_Singleton
    <3> QED BY <3>3
  <2> QED BY <2>1, <2>2
<1> QED
  BY ReviewSafe, <1>1, PTL

-----------------------------------------------------------------------------
(* One request at a time *)

\* Without Overlap nothing is committed between the steps of a handler, so that
\* what a handler has read still holds when it writes.
OneAtATime ==
  /\ \A r, q \in Requests :
       request[r].phase # "idle" /\ request[q].phase # "idle" => r = q
  /\ \A r \in Requests, q \in Routers : request[r].phase # "idle" => routing[q] = "idle"

RequestFits(r) ==
  /\ request[r].phase # "idle" => Exists
  /\ request[r].phase \in {"guarded", "ready"} =>
       (Material(request[r].target, request[r].booking) => job.status = "NEW")
  /\ request[r].phase = "ready" =>
       request[r].seen = job.status /\ EditAllowed(job.status, request[r].target)
  /\ request[r].phase \in {"assign", "replacing"} => request[r].seen = job.status

\* What the status says of the start, the completion and the interruption.
StatusFits ==
  /\ job.status \in PreStart \cup {"NEW"} => job.startedBy = None
  /\ job.status = "COMPLETED" => job.completedBy # None
  /\ job.completedBy # None => job.status \in {"COMPLETED", "CLOSED"}
  /\ job.completedBy = None => job.ackBy = None
  /\ interruptedBy # None => job.status \in {"INTERRUPTED", "CLOSED"} /\ job.completedBy = None
  /\ job.status = "CLOSED" => job.completedBy # None \/ interruptedBy # None

SerialInv == OneAtATime /\ (\A r \in Requests : RequestFits(r)) /\ StatusFits

LEMMA InitSerialInv == Init => SerialInv
  BY DEF Init, RowsInit, CreatedJobs, OfficeInit, Idle, RoutingInit, SerialInv, OneAtATime,
         RequestFits, StatusFits, PreStart

Continued(r) == EditRead(r) \/ EditWrite(r) \/ AssignDelete(r) \/ AssignCommit(r)

Transaction == OfficeTransaction \/ FieldStep \/ CorrectionStep \/ RoutingStep

\* One request at a time: either a request begins or goes on while every other
\* one is idle, or a transaction commits while all of them are.
LEMMA SerialSteps ==
  ASSUME ~Overlap, OneAtATime, [Next]_vars
  PROVE  \/ BeginRequest /\ NoRequestInFlight /\ NoRoutingInFlight /\ UNCHANGED routing
         \/ \E r \in Requests :
              /\ Continued(r) /\ UNCHANGED routing /\ NoRoutingInFlight
              /\ \A q \in Requests \ {r} : request[q].phase = "idle"
         \/ Transaction /\ NoRequestInFlight /\ UNCHANGED request
         \/ UNCHANGED vars
<1>1. ASSUME NEW r \in Requests, Continued(r)
      PROVE  /\ request[r].phase # "idle" /\ NoRoutingInFlight
             /\ \A q \in Requests \ {r} : request[q].phase = "idle"
  <2>1. request[r].phase # "idle"
    BY <1>1 DEF Continued, EditRead, EditWrite, AssignDelete, AssignCommit
  <2> QED BY <2>1 DEF OneAtATime, NoRoutingInFlight
<1>2. ASSUME NEW q \in Routers, RouteCommit(q) \/ RouteRefused(q)
      PROVE  NoRequestInFlight
  <2>1. routing[q] # "idle"
    BY <1>2 DEF RouteCommit, RouteRefused
  <2> QED BY <2>1 DEF OneAtATime, NoRequestInFlight
<1>3. OfficeTransaction => UNCHANGED request
  BY DEF OfficeTransaction, Preview, CommitChange, AcknowledgeCompletion, Remove
<1>4. CASE ContinueRequest /\ UNCHANGED <<deviceScope, routing>>
  BY <1>4, <1>1 DEF ContinueRequest, Continued
<1>5. CASE ContinueRouting /\ UNCHANGED request
  BY <1>5, <1>2 DEF ContinueRouting, Transaction, RoutingStep
<1> QED
  BY <1>3, <1>4, <1>5 DEF Next, Free, Transaction, RoutingStep

LEMMA StepOneAtATime ==
  ASSUME TypeOK, ~Overlap, OneAtATime, [Next]_vars
  PROVE  OneAtATime'
<1>1. ASSUME NEW r \in Requests, \A q \in Requests \ {r} : request'[q].phase = "idle",
             NoRoutingInFlight, UNCHANGED routing
      PROVE  OneAtATime'
  BY <1>1 DEF OneAtATime, NoRoutingInFlight
<1>2. CASE BeginRequest /\ NoRequestInFlight /\ NoRoutingInFlight /\ UNCHANGED routing
  <2>1. PICK r \in Requests : \A q \in Requests \ {r} : request'[q] = request[q]
    BY <1>2 DEF BeginRequest, EditGuard, AssignRead, Requests, TypeOK, OfficeTypeOK
  <2> QED BY <1>1, <1>2, <2>1 DEF NoRequestInFlight
<1>3. ASSUME NEW r \in Requests, Continued(r), UNCHANGED routing, NoRoutingInFlight,
             \A q \in Requests \ {r} : request[q].phase = "idle"
      PROVE  OneAtATime'
  <2>1. \A q \in Requests \ {r} : request'[q].phase = request[q].phase
    <3>1. CASE AssignCommit(r)
      BY <3>1, AssignmentFinishes DEF Unmoved
    <3> QED BY <1>3, <3>1 DEF Continued, EditRead, EditWrite, AssignDelete, Finish, TypeOK,
               OfficeTypeOK
  <2> QED BY <1>1, <1>3, <2>1
<1>4. CASE NoRequestInFlight /\ UNCHANGED request
  BY <1>4 DEF OneAtATime, NoRequestInFlight
<1>5. CASE UNCHANGED vars
  BY <1>5 DEF vars, OneAtATime
<1> QED BY <1>2, <1>3, <1>4, <1>5, SerialSteps

\* The statuses an edit may lead to, when nothing was committed since its read.
LEMMA EditMoves ==
  ASSUME TypeOK, SerialInv, NEW r \in Requests, EditWrite(r)
  PROVE  /\ \/ job'.status = job.status
            \/ job.status = "NEW" /\ job'.status \in {"ASSIGNED", "CANCELLED"}
            \/ job.status \in PreStart /\ job'.status \in PreStart \cup {"NEW", "ON_SITE"}
            \/ job.status \in UnderWay /\ job'.status \in UnderWay
            \/ job.status = "COMPLETED" /\ job'.status = "CLOSED"
         /\ job.status # "NEW" => job'.booking = job.booking
<1> DEFINE target == request[r].target
<1>1. /\ request[r] \in Request
      /\ Exists /\ request[r].seen = job.status
      /\ EditAllowed(job.status, target)
      /\ Material(target, request[r].booking) => job.status = "NEW"
  BY DEF EditWrite, SerialInv, RequestFits, TypeOK, OfficeTypeOK
<1>2. /\ job'.status = IF target \in {None, job.status} THEN job.status ELSE target
      /\ job'.booking = IF request[r].booking = None THEN job.booking ELSE request[r].booking
  BY <1>1 DEF EditWrite, WriteJob, TypeOK, RowsTypeOK, Job
<1>3. job.status \in Statuses
  BY <1>1 DEF Exists, TypeOK, RowsTypeOK, Job
<1>4. job.status # "NEW" => job'.booking = job.booking
  BY <1>1, <1>2 DEF Material
<1> HIDE DEF target
<1>5. CASE target \in {None, job.status}
  BY <1>2, <1>4, <1>5
<1>6. CASE target \notin {None, job.status}
  <2>1. job'.status = target /\ target \in ValidTransitions[job.status]
    BY <1>1, <1>2, <1>6 DEF EditAllowed
  <2>2. target = "CANCELLED" => job.status = "NEW"
    BY <1>1 DEF Material
  <2>3. target = "COMPLETED" => job.status \in {"COMPLETED", "CLOSED"}
    BY <1>1 DEF EditAllowed, SerialInv, StatusFits
  <2>4. job.status = "COMPLETED" => target \in {None, "COMPLETED", "CLOSED"}
    BY <1>1 DEF EditAllowed
  <2> QED BY <1>3, <1>4, <1>6, <2>1, <2>2, <2>3, <2>4
             DEF ValidTransitions, Statuses, PreStart, UnderWay
<1> QED BY <1>5, <1>6

LEMMA StepRequestsFit ==
  ASSUME TypeOK, ~Overlap, SerialInv, [Next]_vars
  PROVE  \A r \in Requests : RequestFits(r)'
<1>1. ASSUME NEW q \in Requests, request[q].phase = "idle",
             request'[q].phase = request[q].phase
      PROVE  RequestFits(q)'
  BY <1>1 DEF RequestFits
<1>2. ASSUME NEW r \in Requests, RequestFits(r)',
             \A q \in Requests \ {r} :
               request[q].phase = "idle" /\ request'[q].phase = request[q].phase
      PROVE  \A q \in Requests : RequestFits(q)'
  BY <1>1, <1>2
<1>3. ASSUME NoRequestInFlight, NEW r \in Editors, EditGuard(r)
      PROVE  \A q \in Requests : RequestFits(q)'
  <2>1. PICK target \in Targets \cup {None}, booking \in Bookings \cup {None} :
          /\ Exists
          /\ Material(target, booking) => job.status = "NEW"
          /\ request' = [request EXCEPT ![r] =
               [Idle EXCEPT !.phase = "guarded", !.target = target, !.booking = booking]]
          /\ UNCHANGED job
    BY <1>3 DEF EditGuard, rows
  <2>2. /\ request'[r].phase = "guarded"
        /\ request'[r].target = target /\ request'[r].booking = booking
        /\ \A q \in Requests \ {r} : request'[q] = request[q]
    BY <2>1 DEF Idle, Requests, TypeOK, OfficeTypeOK
  <2>3. RequestFits(r)'
    BY <2>1, <2>2 DEF RequestFits, Exists
  <2> QED BY <1>2, <1>3, <2>2, <2>3 DEF NoRequestInFlight, Requests
<1>4. ASSUME NoRequestInFlight, NEW r \in Assigners, AssignRead(r)
      PROVE  \A q \in Requests : RequestFits(q)'
  <2>1. /\ request'[r].phase = "assign" /\ request'[r].seen = job.status
        /\ \A q \in Requests \ {r} : request'[q] = request[q]
        /\ Exists /\ UNCHANGED job
    BY <1>4 DEF AssignRead, rows, Idle, Requests, TypeOK, OfficeTypeOK
  <2>2. RequestFits(r)'
    BY <2>1 DEF RequestFits, Exists
  <2> QED BY <1>2, <1>4, <2>1, <2>2 DEF NoRequestInFlight, Requests
<1>5. ASSUME NEW r \in Requests, Continued(r),
             \A q \in Requests \ {r} : request[q].phase = "idle"
      PROVE  \A q \in Requests : RequestFits(q)'
  <2>1. \A q \in Requests \ {r} : request'[q].phase = request[q].phase
    <3>1. CASE AssignCommit(r)
      BY <3>1, AssignmentFinishes DEF Unmoved
    <3> QED BY <1>5, <3>1 DEF Continued, EditRead, EditWrite, AssignDelete, Finish, TypeOK,
               OfficeTypeOK
  <2>2. ASSUME request'[r] = Idle
        PROVE  \A q \in Requests : RequestFits(q)'
    <3>1. request'[r].phase = "idle"
      BY <2>2 DEF Idle
    <3> QED BY <1>2, <1>5, <2>1, <3>1 DEF RequestFits
  <2>3. CASE EditRead(r) /\ request' # [request EXCEPT ![r] = Idle]
    <3>1. /\ Exists /\ EditAllowed(job.status, request[r].target) /\ UNCHANGED job
          /\ request[r].phase = "guarded"
          /\ request'[r].phase = "ready" /\ request'[r].seen = job.status
          /\ request'[r].target = request[r].target
          /\ request'[r].booking = request[r].booking
      BY <2>3 DEF EditRead, Finish, rows, TypeOK, OfficeTypeOK, Request
    <3>2. RequestFits(r)
      BY DEF SerialInv
    <3>3. EditAllowed(job.status, request[r].target)'
      BY <3>1 DEF EditAllowed
    <3>4. RequestFits(r)'
      BY <3>1, <3>2, <3>3 DEF RequestFits, Exists
    <3> QED BY <1>2, <1>5, <2>1, <3>4
  <2>4. CASE AssignDelete(r)
    <3>1. /\ UNCHANGED job
          /\ request[r].phase = "assign" /\ request'[r].phase = "replacing"
          /\ request'[r].seen = request[r].seen
      BY <2>4 DEF AssignDelete, rows, TypeOK, OfficeTypeOK, Request
    <3>2. RequestFits(r)
      BY DEF SerialInv
    <3>3. RequestFits(r)'
      BY <3>1, <3>2 DEF RequestFits, Exists
    <3> QED BY <1>2, <1>5, <2>1, <3>3
  <2>5. CASE AssignCommit(r)
    BY <2>2, <2>5, AssignmentFinishes
  <2>6. CASE request' = [request EXCEPT ![r] = Idle]
    BY <2>2, <2>6 DEF TypeOK, OfficeTypeOK
  <2> QED BY <1>5, <2>3, <2>4, <2>5, <2>6 DEF Continued, EditWrite, Finish
<1>6. CASE NoRequestInFlight /\ UNCHANGED request
  BY <1>1, <1>6 DEF NoRequestInFlight
<1>7. CASE UNCHANGED vars
  BY <1>7 DEF vars, rows, SerialInv, RequestFits, Exists, EditAllowed
<1> QED
  BY <1>3, <1>4, <1>5, <1>6, <1>7, SerialSteps DEF SerialInv, BeginRequest

LEMMA StatusFrame ==
  ASSUME StatusFits, job'.status = job.status, job'.startedBy = job.startedBy,
         job'.completedBy = job.completedBy, UNCHANGED interruptedBy,
         job'.ackBy \in {job.ackBy, None}
  PROVE  StatusFits'
  BY DEF StatusFits

\* What a step of a handler does to the row: an edit moves its status as
\* EditMoves says, and an assignment only takes a new Work Order to ASSIGNED.
LEMMA ContinuedJob ==
  ASSUME TypeOK, SerialInv, NEW r \in Requests, Continued(r)
  PROVE  /\ job'.startedBy = job.startedBy /\ job'.completedBy = job.completedBy
         /\ job'.ackBy = job.ackBy
         /\ UNCHANGED <<interruptedBy, corrections>>
         /\ \/ job'.status = job.status
            \/ job.status = "NEW" /\ job'.status \in {"ASSIGNED", "CANCELLED"}
            \/ job.status \in PreStart /\ job'.status \in PreStart \cup {"NEW", "ON_SITE"}
            \/ job.status \in UnderWay /\ job'.status \in UnderWay
            \/ job.status = "COMPLETED" /\ job'.status = "CLOSED"
         /\ job.status # "NEW" => job'.booking = job.booking
<1>1. CASE EditRead(r) \/ AssignDelete(r)
  BY <1>1 DEF EditRead, AssignDelete, rows
<1>2. CASE EditWrite(r)
  <2>1. /\ job'.startedBy = job.startedBy /\ job'.completedBy = job.completedBy
        /\ job'.ackBy = job.ackBy
        /\ UNCHANGED <<interruptedBy, corrections>>
    BY <1>2 DEF EditWrite, WriteJob, TypeOK, RowsTypeOK, Job
  <2> QED BY <1>2, <2>1, EditMoves
<1>3. CASE AssignCommit(r)
  <2>1. request[r].seen = job.status
    BY <1>3 DEF AssignCommit, SerialInv, RequestFits
  <2>2. /\ job'.startedBy = job.startedBy /\ job'.completedBy = job.completedBy
        /\ job'.ackBy = job.ackBy /\ job'.booking = job.booking
        /\ UNCHANGED <<interruptedBy, corrections>>
    BY <1>3 DEF AssignCommit, WriteJob, TypeOK, RowsTypeOK, Job
  <2>3. job'.status = job.status \/ (job.status = "NEW" /\ job'.status = "ASSIGNED")
    BY <1>3, <2>1 DEF AssignCommit, WriteJob, TypeOK, RowsTypeOK, Job
  <2> QED BY <2>2, <2>3
<1> QED BY <1>1, <1>2, <1>3 DEF Continued


LEMMA StepStatusFits ==
  ASSUME TypeOK, ~Overlap, SerialInv, EvidenceInv, ReviewInv, [Next]_vars
  PROVE  StatusFits'
<1>1. StatusFits
  BY DEF SerialInv
<1>2. ASSUME NEW r \in Requests, Continued(r)
      PROVE  StatusFits'
  BY <1>1, <1>2, ContinuedJob DEF StatusFits, PreStart, UnderWay
<1>3. ASSUME NEW v \in Reviewers, NEW c \in ChangeOps, CommitChange(v, c)
      PROVE  StatusFits'
  <2>1. /\ job'.status \in {job.status, "CANCELLED"}
        /\ job'.startedBy = job.startedBy /\ job'.completedBy = job.completedBy
        /\ job'.ackBy = job.ackBy /\ UNCHANGED interruptedBy
        /\ Stage(job.status) \in ChangeStages
    BY <1>3 DEF CommitChange, MayChange, WriteJob, TypeOK, RowsTypeOK, Job
  <2>2. job.status \notin {"COMPLETED", "CLOSED", "INTERRUPTED"}
    BY <2>1 DEF Stage, ChangeStages, UnderWay
  <2> QED BY <1>1, <2>1, <2>2 DEF StatusFits, PreStart
<1>4. ASSUME NEW m \in Managers, AcknowledgeCompletion(m)
      PROVE  StatusFits'
  <2>1. /\ job'.status = job.status /\ job'.startedBy = job.startedBy
        /\ job'.completedBy = job.completedBy /\ job.completedBy # None
        /\ UNCHANGED interruptedBy
    BY <1>4 DEF AcknowledgeCompletion, Reviewable, WriteJob, TypeOK, RowsTypeOK, Job
  <2> QED BY <1>1, <2>1 DEF StatusFits
<1>5. ASSUME Remove
      PROVE  StatusFits'
  <2>1. /\ job'.status = Gone
        /\ job'.completedBy = job.completedBy /\ job'.ackBy = job.ackBy
        /\ interruptedBy = None /\ UNCHANGED interruptedBy
    BY <1>5 DEF Remove, Unreferenced, WriteJob, TypeOK, RowsTypeOK, Job
  <2>2. job.completedBy = None
    BY <1>5 DEF Remove, Unreferenced, EvidenceInv
  <2> QED BY <1>1, <2>1, <2>2 DEF StatusFits, Gone, PreStart
<1>6. ASSUME NEW t \in Technicians, Start(t)
      PROVE  StatusFits'
  <2>1. /\ job'.status = "ON_SITE" /\ job.status \in PreStart
        /\ job'.completedBy = job.completedBy /\ job'.ackBy = job.ackBy
        /\ UNCHANGED interruptedBy
    BY <1>6 DEF Start, Startable, WriteJob, TypeOK, RowsTypeOK, Job
  <2> QED BY <1>1, <2>1 DEF StatusFits, PreStart
<1>7. ASSUME NEW t \in Technicians, Complete(t)
      PROVE  StatusFits'
  <2>1. /\ job'.status = "COMPLETED" /\ job'.completedBy = t /\ t # None
        /\ job.status \in UnderWay /\ UNCHANGED interruptedBy
    BY <1>7, NoneIsNobody DEF Complete, Completable, WriteJob, TypeOK, RowsTypeOK, Job
  <2> QED BY <1>1, <2>1 DEF StatusFits, PreStart, UnderWay
<1>8. ASSUME NEW t \in Technicians, Interrupt(t)
      PROVE  StatusFits'
  <2>1. /\ job'.status = "INTERRUPTED" /\ job.completedBy = None
        /\ job'.completedBy = None /\ job'.ackBy = job.ackBy
    BY <1>8 DEF Interrupt, WriteJob, TypeOK, RowsTypeOK, Job
  <2> QED BY <1>1, <2>1 DEF StatusFits, PreStart
<1>9. ASSUME NEW r \in Routers, RouteCommit(r)
      PROVE  StatusFits'
  <2>1. /\ job.status = "INTERRUPTED" /\ job'.status \in {"INTERRUPTED", "CLOSED"}
        /\ job'.completedBy = job.completedBy /\ job'.ackBy = job.ackBy
        /\ UNCHANGED interruptedBy
    BY <1>9 DEF RouteCommit, WriteJob, TypeOK, RowsTypeOK, Job
  <2>2. interruptedBy # None
    BY <2>1 DEF ReviewInv
  <2> QED BY <1>1, <2>1, <2>2 DEF StatusFits, PreStart
<1>10. ASSUME UNCHANGED <<job, interruptedBy>>
      PROVE  StatusFits'
  BY <1>1, <1>10, StatusFrame
<1>11. CASE BeginRequest
  BY <1>10, <1>11 DEF BeginRequest, EditGuard, AssignRead, rows
<1>12. CASE OfficeTransaction
  <2>1. ASSUME NEW v \in Reviewers, Preview(v) PROVE UNCHANGED <<job, interruptedBy>>
    BY <2>1 DEF Preview
  <2> QED BY <1>3, <1>4, <1>5, <1>10, <1>12, <2>1 DEF OfficeTransaction
<1>13. CASE FieldStep
  <2>1. ASSUME NEW t \in Technicians, NEW s \in Sections,
               RecordSection(t, s) \/ AcknowledgeEvidence(t, s)
        PROVE  UNCHANGED <<job, interruptedBy>>
    BY <2>1 DEF RecordSection, AcknowledgeEvidence
  <2>2. ASSUME NEW t \in Technicians, Refresh(t) PROVE UNCHANGED <<job, interruptedBy>>
    BY <2>2 DEF Refresh
  <2>3. ReviseScope => UNCHANGED <<job, interruptedBy>>
    BY DEF ReviseScope
  <2> QED BY <1>6, <1>7, <1>10, <1>13, <2>1, <2>2, <2>3 DEF FieldStep
<1>14. CASE CorrectionStep
  <2>1. ASSUME NEW c \in CorrectionOps, NEW t \in Technicians, NEW s \in Sections,
               RecordCorrected(c, t, s)
        PROVE  job'.ackBy = None
    BY <2>1 DEF RecordCorrected, WriteJob, TypeOK, RowsTypeOK, Job
  <2> QED BY <1>1, <1>14, <2>1, CorrectionRows, CorrectionJob, StatusFrame
<1>15. CASE RoutingStep
  <2>1. ASSUME NEW r \in Routers, RouteCheck(r) \/ RouteRefused(r)
        PROVE  UNCHANGED <<job, interruptedBy>>
    BY <2>1 DEF RouteCheck, RouteRefused, rows
  <2>2. ASSUME NEW p \in ReplacementOps, CreateReplacement(p)
        PROVE  UNCHANGED <<job, interruptedBy>>
    BY <2>2 DEF CreateReplacement
  <2> QED BY <1>8, <1>9, <1>10, <1>15, <2>1, <2>2 DEF RoutingStep, BeginRouting,
             ContinueRouting, InterruptionTransaction
<1>16. CASE UNCHANGED vars
  BY <1>10, <1>16 DEF vars, rows
<1>17. OneAtATime
  BY DEF SerialInv
<1> QED
  BY <1>2, <1>11, <1>12, <1>13, <1>14, <1>15, <1>16, <1>17, SerialSteps DEF Transaction

\* With one request at a time, handlers write on what they have read, and the
\* status agrees with the start, the completion and the interruption.
THEOREM SerialSafe ==
  ASSUME ~Overlap
  PROVE  Spec => []SerialInv
<1>1. TypeOK /\ EvidenceInv /\ ReviewInv /\ SerialInv /\ [Next]_vars => SerialInv'
  BY StepOneAtATime, StepRequestsFit, StepStatusFits DEF SerialInv
<1> QED
  BY InitSerialInv, <1>1, TypeCorrect, EvidenceSafe, ReviewSafe, PTL DEF Spec

\* An interrupted visit is never completed.
THEOREM InterruptedIsFinal ==
  ASSUME ~Overlap
  PROVE  Spec => []InterruptedNeverCompleted
<1>1. SerialInv => InterruptedNeverCompleted
  BY DEF SerialInv, StatusFits, InterruptedNeverCompleted
<1> QED
  BY <1>1, SerialSafe, PTL


\* The statuses a transaction leads to.
LEMMA TransactionMoves ==
  ASSUME TypeOK, Transaction
  PROVE  /\ \/ job'.status = job.status
            \/ /\ job.status \in PreStart \cup {"NEW"} /\ job'.status = "CANCELLED"
               /\ \E v \in Reviewers, c \in ChangeOps : CommitChange(v, c)
            \/ Remove
            \/ \E t \in Technicians : Start(t) \/ Complete(t) \/ Interrupt(t)
            \/ \E r \in Routers : RouteCommit(r)
         /\ \/ job'.booking = job.booking
            \/ \E v \in Reviewers, c \in ChangeOps : CommitChange(v, c)
<1> DEFINE Moves ==
      /\ \/ job'.status = job.status
         \/ /\ job.status \in PreStart \cup {"NEW"} /\ job'.status = "CANCELLED"
            /\ \E v \in Reviewers, c \in ChangeOps : CommitChange(v, c)
         \/ Remove
         \/ \E t \in Technicians : Start(t) \/ Complete(t) \/ Interrupt(t)
         \/ \E r \in Routers : RouteCommit(r)
      /\ \/ job'.booking = job.booking
         \/ \E v \in Reviewers, c \in ChangeOps : CommitChange(v, c)
<1>1. ASSUME NEW v \in Reviewers, NEW c \in ChangeOps, CommitChange(v, c)
      PROVE  Moves
  <2>2. job'.status \in {job.status, "CANCELLED"} /\ Stage(job.status) \in ChangeStages
    BY <1>1 DEF CommitChange, MayChange, WriteJob, TypeOK, RowsTypeOK, Job
  <2>3. job.status \in PreStart \cup {"NEW"}
    BY <2>2 DEF Stage, ChangeStages, UnderWay, PreStart
  <2> QED BY <1>1, <2>2, <2>3
<1>2. ASSUME job'.status = job.status, job'.booking = job.booking
      PROVE  Moves
  BY <1>2
<1>3. ASSUME NEW v \in Reviewers, Preview(v) PROVE Moves
  BY <1>2, <1>3 DEF Preview
<1>4. ASSUME NEW m \in Managers, AcknowledgeCompletion(m) PROVE Moves
  BY <1>2, <1>4 DEF AcknowledgeCompletion, WriteJob, TypeOK, RowsTypeOK, Job
<1>5. ASSUME Remove PROVE Moves
  BY <1>5 DEF Remove, WriteJob, TypeOK, RowsTypeOK, Job
<1>6. ASSUME NEW t \in Technicians, Start(t) \/ Complete(t) \/ Interrupt(t)
      PROVE  Moves
  <2>1. job'.booking = job.booking
    BY <1>6 DEF Start, Complete, Interrupt, WriteJob, TypeOK, RowsTypeOK, Job
  <2> QED BY <1>6, <2>1
<1>7. ASSUME NEW r \in Routers, RouteCommit(r)
      PROVE  Moves
  <2>1. job'.booking = job.booking
    BY <1>7 DEF RouteCommit, WriteJob, TypeOK, RowsTypeOK, Job
  <2> QED BY <1>7, <2>1
<1>8. ASSUME UNCHANGED job PROVE Moves
  BY <1>2, <1>8
<1>9. ASSUME OfficeTransaction PROVE Moves
  <2> HIDE DEF Moves
  <2> QED BY <1>1, <1>3, <1>4, <1>5, <1>9 DEF OfficeTransaction
<1>10. ASSUME FieldStep PROVE Moves
  <2>1. ASSUME NEW t \in Technicians, NEW s \in Sections,
               RecordSection(t, s) \/ AcknowledgeEvidence(t, s)
        PROVE  UNCHANGED job
    BY <2>1 DEF RecordSection, AcknowledgeEvidence
  <2>2. ASSUME NEW t \in Technicians, Refresh(t) PROVE UNCHANGED job
    BY <2>2 DEF Refresh
  <2>3. ReviseScope => UNCHANGED job
    BY DEF ReviseScope
  <2> HIDE DEF Moves
  <2> QED BY <1>6, <1>8, <1>10, <2>1, <2>2, <2>3 DEF FieldStep
<1>11. ASSUME CorrectionStep PROVE Moves
  <2>1. ASSUME NEW c \in CorrectionOps, NEW t \in Technicians, NEW s \in Sections,
               RecordCorrected(c, t, s)
        PROVE  job'.status = job.status /\ job'.booking = job.booking
    BY <2>1 DEF RecordCorrected, WriteJob, TypeOK, RowsTypeOK, Job
  <2>2. ASSUME NEW c \in CorrectionOps, Authorize(c) \/ \E t \in Technicians : Resubmit(c, t)
        PROVE  UNCHANGED job
    BY <2>2 DEF Authorize, Resubmit
  <2> HIDE DEF Moves
  <2> QED BY <1>2, <1>8, <1>11, <2>1, <2>2 DEF CorrectionStep
<1>12. ASSUME RoutingStep PROVE Moves
  <2>1. ASSUME NEW r \in Routers, RouteCheck(r) \/ RouteRefused(r)
        PROVE  UNCHANGED job
    BY <2>1 DEF RouteCheck, RouteRefused, rows
  <2>2. ASSUME NEW p \in ReplacementOps, CreateReplacement(p)
        PROVE  UNCHANGED job
    BY <2>2 DEF CreateReplacement
  <2> HIDE DEF Moves
  <2> QED BY <1>6, <1>7, <1>8, <1>12, <2>1, <2>2 DEF RoutingStep, BeginRouting,
             ContinueRouting, InterruptionTransaction
<1>13. Moves
  <2> HIDE DEF Moves
  <2> QED BY <1>9, <1>10, <1>11, <1>12 DEF Transaction
<1> QED BY <1>13

\* A completed visit is only ever closed: no edit, start, interruption, material
\* change or deletion takes it anywhere else.
THEOREM CompletedStays ==
  ASSUME ~Overlap
  PROVE  Spec => CompletionIsFinal
<1> DEFINE Final == job.status = "COMPLETED" => job'.status \in {"COMPLETED", "CLOSED"}
<1>1. ASSUME TypeOK, EvidenceInv, SerialInv, [Next]_vars
      PROVE  Final
  <2> SUFFICES ASSUME job.status = "COMPLETED"
               PROVE  job'.status \in {"COMPLETED", "CLOSED"}
    OBVIOUS
  <2>1. job.completedBy # None
    BY <1>1 DEF SerialInv, StatusFits
  <2>2. ASSUME NEW r \in Requests, Continued(r)
        PROVE  job'.status \in {"COMPLETED", "CLOSED"}
    BY <1>1, <2>2, ContinuedJob DEF PreStart, UnderWay
  <2>3. ~Remove
    BY <1>1, <2>1 DEF Remove, Unreferenced, EvidenceInv
  <2>4. /\ \A t \in Technicians : ~Start(t) /\ ~Complete(t) /\ ~Interrupt(t)
        /\ \A r \in Routers : ~RouteCommit(r)
    BY DEF Start, Startable, Complete, Completable, Interrupt, Interruptible, RouteCommit,
           PreStart, UnderWay
  <2>5. CASE Transaction
    BY <1>1, <2>3, <2>4, <2>5, TransactionMoves DEF PreStart
  <2>6. CASE BeginRequest
    BY <2>6 DEF BeginRequest, EditGuard, AssignRead, rows
  <2>7. CASE UNCHANGED vars
    BY <2>7 DEF vars, rows
  <2>8. OneAtATime
    BY <1>1 DEF SerialInv
  <2> QED BY <1>1, <2>2, <2>5, <2>6, <2>7, <2>8, SerialSteps
<1>2. TypeOK /\ EvidenceInv /\ SerialInv /\ [Next]_vars => [Final]_vars
  BY <1>1
<1> QED
  BY <1>2, TypeCorrect, EvidenceSafe, SerialSafe, PTL DEF Spec, CompletionIsFinal

\* An edit on its way is one that asks for nothing material.
Harmless(r) == request[r].phase # "idle" => ~Material(request[r].target, request[r].booking)

\* A request that goes on asks for what it asked for.
LEMMA ContinuedAsks ==
  ASSUME TypeOK, NEW r \in Requests, Continued(r), NEW q \in Requests, Harmless(q)
  PROVE  Harmless(q)'
<1>1. request \in [Requests -> Request] /\ Idle.phase = "idle"
  BY DEF TypeOK, OfficeTypeOK, Idle
<1>2. CASE request' = [request EXCEPT ![r] = Idle]
  BY <1>1, <1>2 DEF Harmless
<1>3. CASE EditRead(r) /\ request' = [request EXCEPT ![r].phase = "ready",
                                                   ![r].seen = job.status]
  <2>1. request'[q].target = request[q].target /\ request'[q].booking = request[q].booking
    BY <1>1, <1>3 DEF Request
  <2>2. request'[q].phase # "idle" => request[q].phase # "idle"
    BY <1>1, <1>3 DEF EditRead, Request
  <2> QED BY <2>1, <2>2 DEF Harmless
<1>4. CASE AssignDelete(r)
  <2>1. request'[q].target = request[q].target /\ request'[q].booking = request[q].booking
    BY <1>1, <1>4 DEF AssignDelete, Request
  <2>2. request'[q].phase # "idle" => request[q].phase # "idle"
    BY <1>1, <1>4 DEF AssignDelete, Request
  <2> QED BY <2>1, <2>2 DEF Harmless
<1>5. CASE AssignCommit(r)
  BY <1>1, <1>5, AssignmentFinishes DEF Harmless, Unmoved
<1>6. \/ EditRead(r) /\ request' = [request EXCEPT ![r].phase = "ready", ![r].seen = job.status]
      \/ request' = [request EXCEPT ![r] = Idle]
      \/ AssignDelete(r) \/ AssignCommit(r)
  BY DEF Continued, EditRead, EditWrite, Finish
<1> QED BY <1>2, <1>3, <1>4, <1>5, <1>6

\* A request that goes on, and asks for nothing material, changes no booking
\* and cancels nothing.
LEMMA ContinuedHarmless ==
  ASSUME TypeOK, NEW r \in Requests, Continued(r), Harmless(r)
  PROVE  /\ job'.booking = job.booking
         /\ job'.status = "CANCELLED" => job.status = "CANCELLED"
<1>1. CASE EditWrite(r)
  <2>1. request[r].target # "CANCELLED" /\ request[r].booking = None
    BY <1>1 DEF EditWrite, Harmless, Material
  <2> QED BY <1>1, <2>1 DEF EditWrite, WriteJob, TypeOK, RowsTypeOK, Job
<1>2. CASE AssignCommit(r)
  <2> DEFINE technicians == (job.technicians \ request[r].dropped) \cup request[r].technicians
             status == IF request[r].technicians # {} /\ request[r].seen = "NEW"
                         THEN "ASSIGNED" ELSE job.status
  <2>1. \/ job' = [job EXCEPT !.technicians = technicians,
                              !.leader = request[r].leader, !.status = status]
        \/ UNCHANGED job
    BY <1>2 DEF AssignCommit, WriteJob
  <2>2. status \in {job.status, "ASSIGNED"}
    OBVIOUS
  <2> HIDE DEF technicians, status
  <2> QED BY <2>1, <2>2 DEF TypeOK, RowsTypeOK, Job
<1>3. EditRead(r) \/ AssignDelete(r) => UNCHANGED job
  BY DEF EditRead, AssignDelete, rows
<1> QED BY <1>1, <1>2, <1>3 DEF Continued

\* Once a Work Order is confirmed and the edits let in before are done, only a
\* material change, with its audit row, changes the booking or cancels it,
\* however the requests overlap.
THEOREM ConfirmedAudited ==
  Spec => ConfirmedChangesAudited
<1> DEFINE Same == /\ job'.booking = job.booking
                   /\ job'.status = "CANCELLED" => job.status = "CANCELLED"
           Audited == ConfirmedForGood /\ Exists' =>
                        /\ ConfirmedForGood' \/ job'.status = "NEW"
                        /\ changes' = changes => Same
<1>1. ASSUME TypeOK, [Next]_vars
      PROVE  Audited
  <2> SUFFICES ASSUME ConfirmedForGood, Exists'
               PROVE  /\ (\A e \in Requests : Harmless(e)') \/ job'.status = "NEW"
                      /\ changes' = changes => Same
    BY DEF ConfirmedForGood, Harmless
  <2>1. Exists /\ job.status # "NEW" /\ \A e \in Requests : Harmless(e)
    BY DEF ConfirmedForGood, Harmless
  <2>2. ASSUME UNCHANGED request PROVE \A e \in Requests : Harmless(e)'
    BY <2>1, <2>2 DEF Harmless
  <2>3. ASSUME ContinueRequest
        PROVE  (\A e \in Requests : Harmless(e)') /\ Same
    <3>1. PICK r \in Requests : Continued(r)
      BY <2>3 DEF ContinueRequest, Continued
    <3>2. \A e \in Requests : Harmless(e)'
      BY <1>1, <2>1, <3>1, ContinuedAsks
    <3>3. Same
      BY <1>1, <2>1, <3>1, ContinuedHarmless
    <3> QED BY <3>2, <3>3
  <2>4. ASSUME BeginRequest
        PROVE  (\A e \in Requests : Harmless(e)') /\ Same
    <3>1. ASSUME NEW r \in Requests, EditGuard(r)
          PROVE  /\ Harmless(r)'
                 /\ \A q \in Requests \ {r} : request'[q] = request[q]
                 /\ Same
      <4>1. PICK target \in Targets \cup {None}, booking \in Bookings \cup {None} :
              /\ Material(target, booking) => job.status = "NEW"
              /\ request' = [request EXCEPT ![r] =
                   [Idle EXCEPT !.phase = "guarded", !.target = target, !.booking = booking]]
        BY <3>1 DEF EditGuard
      <4>2. request'[r].target = target /\ request'[r].booking = booking
        BY <1>1, <4>1 DEF Idle, TypeOK, OfficeTypeOK
      <4> QED BY <1>1, <2>1, <3>1, <4>1, <4>2 DEF EditGuard, rows, Harmless, TypeOK, OfficeTypeOK
    <3>2. ASSUME NEW r \in Requests, AssignRead(r)
          PROVE  /\ Harmless(r)'
                 /\ \A q \in Requests \ {r} : request'[q] = request[q]
                 /\ Same
      <4>1. request'[r].target = None /\ request'[r].booking = None
        BY <1>1, <3>2 DEF AssignRead, Idle, TypeOK, OfficeTypeOK
      <4>2. ~Material(None, None)
        BY NoneIsNoStatus DEF Material, Statuses
      <4> QED BY <1>1, <3>2, <4>1, <4>2 DEF AssignRead, rows, Harmless, TypeOK, OfficeTypeOK
    <3>3. PICK r \in Requests : EditGuard(r) \/ AssignRead(r)
      BY <2>4 DEF BeginRequest, Requests
    <3>4. Harmless(r)' /\ (\A q \in Requests \ {r} : request'[q] = request[q]) /\ Same
      BY <3>1, <3>2, <3>3
    <3>5. ASSUME NEW q \in Requests \ {r} PROVE Harmless(q)'
      BY <2>1, <3>4, <3>5 DEF Harmless
    <3> QED BY <3>4, <3>5
  <2>5. ASSUME Transaction, changes' = changes
        PROVE  Same
    <3>1. \A v \in Reviewers, c \in ChangeOps : ~CommitChange(v, c)
      BY <1>1, <2>5 DEF CommitChange, NewOperation, MayChange, ChangeStages, TypeOK, RowsTypeOK
    <3>2. ASSUME Remove PROVE FALSE
      BY <1>1, <3>2 DEF Remove, WriteJob, Exists, TypeOK, RowsTypeOK, Job
    <3>3. /\ \A t \in Technicians : Start(t) \/ Complete(t) \/ Interrupt(t) =>
                                      job'.status # "CANCELLED"
          /\ \A r \in Routers : RouteCommit(r) => job'.status # "CANCELLED"
      BY <1>1 DEF Start, Complete, Interrupt, RouteCommit, WriteJob, TypeOK, RowsTypeOK, Job
    <3> QED BY <1>1, <2>5, <3>1, <3>2, <3>3, TransactionMoves
  <2>6. CASE OfficeTransaction /\ UNCHANGED <<deviceScope, routing>>
    <3>1. UNCHANGED request
      BY <2>6 DEF OfficeTransaction, Preview, CommitChange, AcknowledgeCompletion, Remove
    <3> QED BY <2>2, <2>5, <2>6, <3>1 DEF Transaction
  <2>7. CASE UNCHANGED request /\ Transaction
    BY <2>2, <2>5, <2>7
  <2>8. CASE UNCHANGED vars
    BY <2>2, <2>8 DEF vars, rows
  <2> QED BY <1>1, <2>3, <2>4, <2>6, <2>7, <2>8 DEF Next, Transaction, RoutingStep
<1>2. TypeOK /\ [Next]_vars => [Audited]_vars
  BY <1>1
<1> QED
  BY <1>2, TypeCorrect, PTL DEF Spec, ConfirmedChangesAudited

\* What a replaced visit rests on: it is interrupted, and no routing that has passed
\* the controller's check comes to it any more.
ReplacedInv ==
  /\ replacements # {} => job.status = "INTERRUPTED"
  /\ \A r \in Routers : routing[r] = "checked" => replacements = {}

\* A replacement is made by CreateReplacement alone, and a routing is let in only
\* while there is none.
LEMMA ReplacementSteps ==
  ASSUME TypeOK, ~Overlap, [Next]_vars
  PROVE  /\ \/ replacements' = replacements
            \/ /\ job'.status = "INTERRUPTED" /\ interruptedBy' = interruptedBy
               /\ NoRoutingInFlight /\ UNCHANGED routing
         /\ \A r \in Routers : routing'[r] = "checked" =>
              routing[r] = "checked" \/ (replacements = {} /\ UNCHANGED replacements)
<1> DEFINE Steps ==
      /\ \/ replacements' = replacements
         \/ /\ job'.status = "INTERRUPTED" /\ interruptedBy' = interruptedBy
            /\ NoRoutingInFlight /\ UNCHANGED routing
      /\ \A r \in Routers : routing'[r] = "checked" =>
           routing[r] = "checked" \/ (replacements = {} /\ UNCHANGED replacements)
<1>1. ASSUME UNCHANGED <<replacements, routing>> PROVE Steps
  BY <1>1
<1>2. ASSUME BeginRequest \/ ContinueRequest \/ OfficeTransaction PROVE UNCHANGED replacements
  BY <1>2, OfficeRows DEF OfficeStep
<1>3. ASSUME FieldStep \/ CorrectionStep PROVE UNCHANGED replacements
  BY <1>3, FieldRows, CorrectionRows
<1>4. ASSUME NEW q \in Routers, RouteCheck(q) PROVE Steps
  BY <1>4 DEF RouteCheck, Unreplaced, rows, TypeOK, RoutingTypeOK
<1>5. ASSUME NEW q \in Routers, RouteCommit(q) \/ RouteRefused(q) PROVE Steps
  BY <1>5 DEF RouteCommit, RouteRefused, rows, TypeOK, RoutingTypeOK
<1>6. ASSUME NEW t \in Technicians, Interrupt(t) PROVE Steps
  BY <1>6 DEF Interrupt
<1>7. ASSUME NEW p \in ReplacementOps, CreateReplacement(p), NoRoutingInFlight PROVE Steps
  BY <1>7 DEF CreateReplacement
<1>8. ASSUME UNCHANGED vars PROVE Steps
  BY <1>8 DEF vars, rows
<1> HIDE DEF Steps
<1>9. ASSUME Free, BeginRouting \/ InterruptionTransaction PROVE Steps
  BY <1>4, <1>6, <1>7, <1>9 DEF Free, BeginRouting, InterruptionTransaction
<1>10. ASSUME ContinueRouting PROVE Steps
  BY <1>5, <1>10 DEF ContinueRouting
<1>11. Steps
  BY <1>1, <1>2, <1>3, <1>8, <1>9, <1>10 DEF Next
<1> QED BY <1>11 DEF Steps

\* What a step leaves of a visit: its interruption, its place in the plan, and the
\* decision and the link that the replacement rests on.
Remains ==
  /\ job'.status = "INTERRUPTED"
  /\ job'.booking = job.booking
  /\ UNCHANGED <<interruptedBy, route, replacements>>

LEMMA ReplacedRemains ==
  ASSUME TypeOK, ~Overlap, EvidenceInv, ReviewInv, SerialInv, ReplacedInv, [Next]_vars,
         replacements # {}
  PROVE  Remains
<1>1. /\ interruptedBy # None /\ job.status = "INTERRUPTED" /\ OneAtATime
      /\ \A r \in Routers : routing[r] # "checked"
  BY DEF ReviewInv, ReplacedInv, SerialInv
<1>2. /\ \A t \in Technicians : ~Start(t) /\ ~Complete(t) /\ ~Interrupt(t)
      /\ \A r \in Routers : ~RouteCheck(r) /\ ~RouteCommit(r)
      /\ \A p \in ReplacementOps : ~CreateReplacement(p)
      /\ \A v \in Reviewers, c \in ChangeOps : ~CommitChange(v, c)
      /\ ~Remove
  BY <1>1 DEF Start, Startable, Complete, Completable, Interrupt, RouteCheck, RouteCommit,
     CreateReplacement, CommitChange, MayChange, Stage, ChangeStages, Remove, Unreferenced,
     Unreplaced, PreStart, UnderWay
<1>3. UNCHANGED <<interruptedBy, route, replacements>>
  <2>1. ASSUME NEW r \in Routers, RouteRefused(r)
        PROVE  UNCHANGED <<interruptedBy, route, replacements>>
    BY <2>1 DEF RouteRefused, rows
  <2>2. CASE RoutingStep
    BY <1>2, <2>1, <2>2 DEF RoutingStep, BeginRouting, ContinueRouting, InterruptionTransaction
  <2>3. CASE UNCHANGED vars
    BY <2>3 DEF vars, rows
  <2> QED
    BY <2>2, <2>3, ComponentSteps, OfficeRows, FieldRows, CorrectionRows
<1>4. job'.status = job.status /\ job'.booking = job.booking
  <2>1. ASSUME NEW r \in Requests, Continued(r)
        PROVE  job'.status = job.status /\ job'.booking = job.booking
    BY <1>1, <2>1, ContinuedJob DEF PreStart, UnderWay
  <2>2. CASE Transaction
    BY <1>2, <2>2, TransactionMoves
  <2>3. CASE BeginRequest
    BY <2>3 DEF BeginRequest, EditGuard, AssignRead, rows
  <2>4. CASE UNCHANGED vars
    BY <2>4 DEF vars, rows
  <2> QED
    BY <1>1, <2>1, <2>2, <2>3, <2>4, SerialSteps
<1> QED
  BY <1>1, <1>3, <1>4 DEF Remains

\* Without overlap a visit that has been replaced remains interrupted and where it was
\* in the plan, with the routing decision and the link of its replacement
\* (docs/decisions/ADR-0057-linked-replacement-visits.md:12): no edit, routing, material
\* change, start or deletion takes it any further.
THEOREM ReplacedStays ==
  ASSUME ~Overlap
  PROVE  Spec => [][replacements # {} => Remains]_vars
<1>1. Init => ReplacedInv
  BY DEF Init, RowsInit, RoutingInit, CreatedJobs, ReplacedInv
<1>2. ASSUME TypeOK, EvidenceInv, ReviewInv, SerialInv, ReplacedInv, [Next]_vars
      PROVE  ReplacedInv' /\ (replacements # {} => Remains)
  <2>1. replacements # {} => Remains
    BY <1>2, ReplacedRemains
  <2>2. CASE replacements # {}
    BY <1>2, <2>1, <2>2, ReplacementSteps DEF ReplacedInv, Remains
  <2>3. CASE replacements = {}
    BY <1>2, <2>3, ReplacementSteps DEF ReplacedInv, NoRoutingInFlight
  <2> QED
    BY <2>1, <2>2, <2>3
<1>3. TypeOK /\ EvidenceInv /\ ReviewInv /\ SerialInv /\ ReplacedInv /\ [Next]_vars =>
        ReplacedInv' /\ [replacements # {} => Remains]_vars
  BY <1>2
<1> QED
  BY <1>1, <1>3, TypeCorrect, EvidenceSafe, ReviewSafe, SerialSafe, PTL DEF Spec


-----------------------------------------------------------------------------
(* The Work Order implements VisitTruth *)

\* The rows the visit and its review are read from.
LEMMA TruthFrame ==
  ASSUME job'.status = job.status, job'.startedBy = job.startedBy,
         job'.completedBy = job.completedBy, job'.ackBy = job.ackBy,
         CorrectionInProgress' = CorrectionInProgress
  PROVE  UNCHANGED <<Visit, Review>>
  BY DEF Visit, Review

LEMMA ReviewKept ==
  ASSUME job'.completedBy = job.completedBy, job'.ackBy = job.ackBy,
         CorrectionInProgress' = CorrectionInProgress
  PROVE  UNCHANGED Review
  BY DEF Review

LEMMA ContinuedTruth ==
  ASSUME TypeOK, SerialInv, NEW r \in Requests, Continued(r)
  PROVE  \/ Truth!CallOff \/ Truth!Close
         \/ UNCHANGED <<Visit, Review>>
<1>1. UNCHANGED Review
  BY ContinuedJob, ReviewKept DEF CorrectionInProgress
<1>2. CASE job.status = "NEW" /\ job'.status = "CANCELLED"
  <2>1. Visit = "planned" /\ Visit' = "cancelled"
    BY <1>2 DEF Visit, Gone, SerialInv, StatusFits
  <2> QED BY <1>1, <2>1 DEF Truth!CallOff
<1>3. CASE job.status = "COMPLETED" /\ job'.status = "CLOSED"
  <2>1. Visit = "completed" /\ Visit' = "closed"
    BY <1>3 DEF Visit, Gone
  <2> QED BY <1>1, <2>1 DEF Truth!Close
<1>4. CASE /\ job.status \in PreStart \cup {"NEW"}
           /\ job'.status \in PreStart \cup {"NEW", "ON_SITE"}
  <2>1. job.startedBy = None /\ job'.startedBy = None
    BY <1>4, ContinuedJob DEF SerialInv, StatusFits
  <2> QED BY <1>1, <1>4, <2>1 DEF Visit, PreStart, Gone
<1>5. CASE job.status \in UnderWay /\ job'.status \in UnderWay
  <2>1. job'.startedBy = job.startedBy
    BY ContinuedJob
  <2> QED BY <1>1, <1>5, <2>1 DEF Visit, UnderWay, Gone
<1>6. CASE job'.status = job.status
  <2>1. job'.startedBy = job.startedBy
    BY ContinuedJob
  <2> QED BY <1>1, <1>6, <2>1 DEF Visit
<1> QED BY <1>2, <1>3, <1>4, <1>5, <1>6, ContinuedJob DEF PreStart

LEMMA OfficeTruth ==
  ASSUME TypeOK, SerialInv, EvidenceInv, ReviewInv, OfficeTransaction
  PROVE  Truth!CallOff \/ Truth!Give \/ Truth!Delete \/ UNCHANGED <<Visit, Review>>
<1>1. ASSUME NEW v \in Reviewers, Preview(v)
      PROVE  UNCHANGED <<Visit, Review>>
  BY <1>1, TruthFrame DEF Preview, CorrectionInProgress
<1>2. ASSUME NEW v \in Reviewers, NEW c \in ChangeOps, CommitChange(v, c)
      PROVE  Truth!CallOff \/ UNCHANGED <<Visit, Review>>
  <2>1. /\ job'.status \in {job.status, "CANCELLED"}
        /\ Stage(job.status) \in ChangeStages
        /\ job'.startedBy = job.startedBy /\ job'.completedBy = job.completedBy
        /\ job'.ackBy = job.ackBy /\ UNCHANGED corrections
    BY <1>2 DEF CommitChange, MayChange, WriteJob, TypeOK, RowsTypeOK, Job
  <2>2. UNCHANGED Review
    BY <2>1, ReviewKept DEF CorrectionInProgress
  <2>3. job.status \in PreStart \cup {"NEW"}
    BY <2>1 DEF Stage, ChangeStages, UnderWay, PreStart
  <2>4. Visit = "planned" /\ Visit' \in {"planned", "cancelled"}
    BY <2>1, <2>3 DEF Visit, SerialInv, StatusFits, PreStart, Gone
  <2> QED BY <2>2, <2>4 DEF Truth!CallOff
<1>3. ASSUME NEW m \in Managers, AcknowledgeCompletion(m)
      PROVE  Truth!Give
  <2>1. /\ job.status = "COMPLETED" /\ job'.status = "COMPLETED"
        /\ job.completedBy # None /\ job'.completedBy = job.completedBy
        /\ job.ackBy = None /\ job'.ackBy = m /\ m # None
        /\ ~CorrectionInProgress /\ UNCHANGED corrections
    BY <1>3, NoneIsNobody DEF AcknowledgeCompletion, Reviewable, WriteJob, TypeOK, RowsTypeOK, Job
  <2>2. Visit = "completed" /\ Visit' = "completed"
    BY <2>1 DEF Visit, Gone
  <2>3. Review = "awaited" /\ Review' = "given"
    BY <2>1 DEF Review, CorrectionInProgress
  <2> QED BY <2>2, <2>3 DEF Truth!Give
<1>4. ASSUME Remove
      PROVE  Truth!Delete
  <2>1. /\ Exists /\ job'.status = Gone /\ interruptedBy = None
        /\ job'.completedBy = job.completedBy /\ job'.ackBy = job.ackBy
        /\ UNCHANGED corrections
    BY <1>4 DEF Remove, Unreferenced, WriteJob, TypeOK, RowsTypeOK, Job
  <2>2. UNCHANGED Review
    BY <2>1, ReviewKept DEF CorrectionInProgress
  <2>3. job.completedBy = None
    BY <1>4 DEF Remove, Unreferenced, EvidenceInv
  <2>4. job.status \notin {Gone, "CLOSED", "COMPLETED", "INTERRUPTED"}
    BY <2>1, <2>3 DEF Exists, SerialInv, StatusFits, ReviewInv
  <2>5. Visit \in {"planned", "underway", "cancelled"} /\ Visit' = "deleted"
    BY <2>1, <2>4 DEF Visit, Gone
  <2> QED BY <2>2, <2>5 DEF Truth!Delete
<1> QED BY <1>1, <1>2, <1>3, <1>4 DEF OfficeTransaction

LEMMA FieldTruthStep ==
  ASSUME TypeOK, SerialInv, CorrectionInv, FieldStep
  PROVE  Truth!Begin \/ Truth!Finish \/ UNCHANGED <<Visit, Review>>
<1>1. UNCHANGED corrections
  BY FieldRows
<1>2. ASSUME NEW t \in Technicians, Start(t)
      PROVE  Truth!Begin
  <2>1. /\ job.status \in PreStart /\ job.startedBy = None
        /\ job'.status = "ON_SITE" /\ job'.startedBy = t /\ t # None
        /\ job'.completedBy = job.completedBy /\ job'.ackBy = job.ackBy
    BY <1>2, NoneIsNobody DEF Start, Startable, WriteJob, TypeOK, RowsTypeOK, Job
  <2>2. UNCHANGED Review
    BY <1>1, <2>1, ReviewKept DEF CorrectionInProgress
  <2>3. Visit = "planned" /\ Visit' = "underway"
    BY <2>1 DEF Visit, PreStart, Gone
  <2> QED BY <2>2, <2>3 DEF Truth!Begin
<1>3. ASSUME NEW t \in Technicians, Complete(t)
      PROVE  Truth!Finish
  <2>1. /\ job.status \in UnderWay /\ job.startedBy # None /\ job.completedBy = None
        /\ job'.status = "COMPLETED" /\ job'.completedBy = t /\ t # None
        /\ job'.ackBy = job.ackBy
    BY <1>3, NoneIsNobody DEF Complete, Completable, WriteJob, TypeOK, RowsTypeOK, Job
  <2>2. ~CorrectionInProgress'
    BY <1>1, <2>1 DEF CorrectionInProgress, CorrectionInv, OneCorrectionOfTheCompletion
  <2>3. job.ackBy = None
    BY <2>1 DEF SerialInv, StatusFits
  <2>4. Visit = "underway" /\ Visit' = "completed"
    BY <2>1 DEF Visit, UnderWay, Gone
  <2>5. Review' = "awaited"
    BY <2>1, <2>2, <2>3 DEF Review
  <2> QED BY <2>4, <2>5 DEF Truth!Finish
<1>4. ASSUME UNCHANGED job
      PROVE  UNCHANGED <<Visit, Review>>
  BY <1>1, <1>4, TruthFrame DEF CorrectionInProgress
<1>5. ASSUME NEW t \in Technicians, NEW s \in Sections,
             RecordSection(t, s) \/ AcknowledgeEvidence(t, s)
      PROVE  UNCHANGED job
  BY <1>5 DEF RecordSection, AcknowledgeEvidence
<1>6. ASSUME NEW t \in Technicians, Refresh(t) PROVE UNCHANGED job
  BY <1>6 DEF Refresh
<1>7. ReviseScope => UNCHANGED job
  BY DEF ReviseScope
<1> QED BY <1>2, <1>3, <1>4, <1>5, <1>6, <1>7 DEF FieldStep


LEMMA CorrectionTruth ==
  ASSUME TypeOK, SerialInv, CorrectionInv, CorrectionStep
  PROVE  Truth!Reopen \/ Truth!Resubmit \/ UNCHANGED <<Visit, Review>>
<1>1. UNCHANGED Visit
  BY CorrectionJob DEF Visit
<1>2. ASSUME NEW c \in CorrectionOps, Authorize(c)
      PROVE  UNCHANGED <<Visit, Review>>
  <2>1. /\ UNCHANGED job
        /\ corrections[c].status = "ABSENT" /\ corrections'[c].status = "AUTHORIZED"
        /\ \A d \in CorrectionOps \ {c} : corrections'[d] = corrections[d]
    BY <1>2 DEF Authorize, TypeOK, RowsTypeOK
  <2>2. CorrectionInProgress' = CorrectionInProgress
    BY <2>1 DEF CorrectionInProgress
  <2> QED BY <1>1, <2>1, <2>2, ReviewKept
<1>3. ASSUME NEW c \in CorrectionOps, NEW t \in Technicians, Resubmit(c, t)
      PROVE  Truth!Resubmit
  <2>1. /\ UNCHANGED job /\ job.status = "COMPLETED"
        /\ corrections[c].status = "IN_PROGRESS" /\ corrections'[c].status = "RESUBMITTED"
        /\ \A d \in CorrectionOps \ {c} : corrections'[d] = corrections[d]
    BY <1>3 DEF Resubmit, TypeOK, RowsTypeOK, Correction
  <2>2. job.completedBy # None /\ job.ackBy = None
    BY <2>1 DEF SerialInv, StatusFits, CorrectionInv, NoAckDuringCorrection, CorrectionInProgress
  <2>3. CorrectionInProgress
    BY <2>1 DEF CorrectionInProgress
  <2>4. ~CorrectionInProgress'
    <3>1. \A d \in CorrectionOps \ {c} : corrections[d].status # "IN_PROGRESS"
      BY <2>1 DEF CorrectionInv, OneCorrectionOfTheCompletion, Active
    <3> QED BY <2>1, <3>1 DEF CorrectionInProgress
  <2>5. Review = "reopened" /\ Review' = "awaited"
    BY <2>1, <2>2, <2>3, <2>4 DEF Review
  <2>6. Visit = "completed"
    BY <2>1 DEF Visit, Gone
  <2> QED BY <1>1, <2>5, <2>6 DEF Truth!Resubmit
<1>4. ASSUME NEW c \in CorrectionOps, NEW t \in Technicians, NEW s \in Sections,
             RecordCorrected(c, t, s)
      PROVE  Truth!Reopen \/ UNCHANGED <<Visit, Review>>
  <2>1. /\ job.status = "COMPLETED" /\ job'.completedBy = job.completedBy
        /\ corrections'[c].status = "IN_PROGRESS"
    BY <1>4 DEF RecordCorrected, WriteJob, TypeOK, RowsTypeOK, Job, Correction
  <2>2. job.completedBy # None
    BY <2>1 DEF SerialInv, StatusFits
  <2>3. CorrectionInProgress'
    BY <2>1 DEF CorrectionInProgress
  <2>4. Review \in {"awaited", "given", "reopened"} /\ Review' = "reopened"
    BY <2>1, <2>2, <2>3 DEF Review
  <2>5. Visit = "completed"
    BY <2>1 DEF Visit, Gone
  <2> QED BY <1>1, <2>4, <2>5 DEF Truth!Reopen
<1> QED BY <1>2, <1>3, <1>4 DEF CorrectionStep

LEMMA RoutingTruth ==
  ASSUME TypeOK, SerialInv, RoutingStep
  PROVE  Truth!Break \/ Truth!Close \/ UNCHANGED <<Visit, Review>>
<1>1. UNCHANGED Review
  BY RoutingRows, RoutingJob, ReviewKept DEF CorrectionInProgress
<1>2. ASSUME NEW t \in Technicians, Interrupt(t)
      PROVE  Truth!Break
  <2>1. job.status \in Interruptible /\ job'.status = "INTERRUPTED"
    BY <1>2 DEF Interrupt, WriteJob, TypeOK, RowsTypeOK, Job
  <2>2. Visit \in {"planned", "underway"} /\ Visit' = "interrupted"
    BY <2>1 DEF Visit, Interruptible, UnderWay, Gone
  <2> QED BY <1>1, <2>2 DEF Truth!Break
<1>3. ASSUME NEW r \in Routers, RouteCommit(r)
      PROVE  Truth!Close \/ UNCHANGED <<Visit, Review>>
  <2>1. CASE UNCHANGED job
    BY <1>1, <2>1 DEF Visit
  <2>2. CASE job.status = "INTERRUPTED" /\ job'.status = "CLOSED"
    <3>1. Visit = "interrupted" /\ Visit' = "closed"
      BY <2>2 DEF Visit, Gone
    <3> QED BY <1>1, <3>1 DEF Truth!Close
  <2> QED BY <1>3, <2>1, <2>2 DEF RouteCommit, WriteJob, TypeOK, RowsTypeOK, Job
<1>4. ASSUME UNCHANGED job
      PROVE  UNCHANGED <<Visit, Review>>
  BY <1>1, <1>4 DEF Visit
<1>5. ASSUME NEW r \in Routers, RouteCheck(r) \/ RouteRefused(r)
      PROVE  UNCHANGED job
  BY <1>5 DEF RouteCheck, RouteRefused, rows
<1>6. ASSUME NEW p \in ReplacementOps, CreateReplacement(p)
      PROVE  UNCHANGED job
  BY <1>6 DEF CreateReplacement
<1> QED BY <1>2, <1>3, <1>4, <1>5, <1>6 DEF RoutingStep, BeginRouting, ContinueRouting,
           InterruptionTransaction

\* With one request at a time, every history of a Work Order is one VisitTruth
\* allows, under the refinement mapping Visit and Review.
THEOREM VisitTruthImplemented ==
  ASSUME ~Overlap
  PROVE  Spec => ImplementsVisitTruth
<1>1. Init => Truth!VisitInit
  <2> SUFFICES ASSUME Init PROVE Truth!VisitInit
    OBVIOUS
  <2>1. /\ job.status \in {"NEW", "ASSIGNED"}
        /\ job.startedBy = None /\ job.completedBy = None
    BY DEF Init, RowsInit, CreatedJobs
  <2>2. Visit = "planned" /\ Review = "none"
    BY <2>1 DEF Visit, Review, Gone
  <2> QED BY <2>2 DEF Truth!VisitInit
<1>2. ASSUME TypeOK, SerialInv, EvidenceInv, ReviewInv, CorrectionInv, [Next]_vars
      PROVE  Truth!VisitNext \/ UNCHANGED <<Visit, Review>>
  <2>1. ASSUME NEW r \in Requests, Continued(r)
        PROVE  Truth!VisitNext \/ UNCHANGED <<Visit, Review>>
    BY <1>2, <2>1, ContinuedTruth DEF Truth!VisitNext
  <2>2. CASE BeginRequest
    <3>1. UNCHANGED rows
      BY <2>2 DEF BeginRequest, EditGuard, AssignRead
    <3> QED BY <3>1, TruthFrame DEF rows, CorrectionInProgress
  <2>3. CASE Transaction
    BY <1>2, <2>3, OfficeTruth, FieldTruthStep, CorrectionTruth, RoutingTruth
    DEF Transaction, Truth!VisitNext
  <2>4. CASE UNCHANGED vars
    BY <2>4, TruthFrame DEF vars, rows, CorrectionInProgress
  <2>5. OneAtATime
    BY <1>2 DEF SerialInv
  <2> QED BY <1>2, <2>1, <2>2, <2>3, <2>4, <2>5, SerialSteps
<1>3. TypeOK /\ SerialInv /\ EvidenceInv /\ ReviewInv /\ CorrectionInv /\ [Next]_vars
        => [Truth!VisitNext]_<<Visit, Review>>
  BY <1>2
<1> QED
  BY <1>1, <1>3, TypeCorrect, SerialSafe, EvidenceSafe, ReviewSafe, CorrectionSafe, PTL
  DEF Spec, ImplementsVisitTruth, Truth!VisitSpec

=============================================================================
