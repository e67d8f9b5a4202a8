--------------------------- MODULE TechnicianJob ---------------------------
(***************************************************************************)
(* The field side of a Work Order: scope revisions before the visit, and   *)
(* the Technician endpoints that start it, record section outcomes and     *)
(* evidence, and complete it.  A device works from the copy it last        *)
(* fetched; the model keeps of that copy the scope revision it shows and,  *)
(* in current and sectionCopies, whether its versions are still current.   *)
(***************************************************************************)
EXTENDS WorkOrder

VARIABLE deviceScope   \* the scope revision each device shows, 0 for none

FieldTypeOK == deviceScope \in [Technicians -> 0..MaxRevisions]

FieldInit == deviceScope = [t \in Technicians |-> 0]

Assigned(t) == Exists /\ t \in job.technicians

\* The device names the scope revision the visit was started on.
OnStartedScope(t) == job.startedScope # 0 /\ deviceScope[t] = job.startedScope

-----------------------------------------------------------------------------
\* Mutant of Revisable: only the status says whether the visit has started.
RevisableByStatus == job.status \in PreStart \cup {"NEW"}

Revisable == job.startedBy = None /\ job.status \in PreStart \cup {"NEW"}

\* reviseWorkOrder: a new numbered revision, while nothing has started.
ReviseScope ==
  /\ Revisable
  /\ revision < MaxRevisions
  /\ revision' = revision + 1
  /\ UNCHANGED <<job, sections, corrections, changes, interruptedBy, route,
                 replacements, attention, current, sectionCopies, deviceScope>>

\* brief: the device fetches the job, its latest scope and its sections.
Refresh(t) ==
  /\ Assigned(t)
  /\ deviceScope' = [deviceScope EXCEPT ![t] = revision]
  /\ current' = current \cup {t}
  /\ sectionCopies' = sectionCopies \cup ({t} \X Sections)
  /\ UNCHANGED <<job, revision, sections, corrections, changes, interruptedBy,
                 route, replacements, attention>>

Startable(t) ==
  Assigned(t) /\ job.startedBy = None /\ job.leader = t /\ job.status \in PreStart

\* start
Start(t) ==
  /\ Startable(t)
  /\ revision # 0 /\ deviceScope[t] = revision
  /\ t \in current
  /\ WriteJob([job EXCEPT !.startedBy = t, !.startedScope = revision,
                          !.status = "ON_SITE"])
  /\ UNCHANGED <<revision, sections, corrections, changes, interruptedBy, route,
                 replacements, attention, sectionCopies, deviceScope>>

\* recordSection: no condition on the status of the Work Order.
RecordSection(t, s) ==
  \E outcome \in Outcomes, photographed \in BOOLEAN :
    /\ Assigned(t)
    /\ OnStartedScope(t)
    /\ sections[s].by \in {None, t} \/ job.leader = t
    /\ <<t, s>> \in sectionCopies
    /\ Photographed(s, outcome, photographed)
    /\ WriteSection(s, t, outcome, photographed)
    /\ UNCHANGED <<job, revision, corrections, changes, interruptedBy, route,
                   replacements, attention, current, deviceScope>>

\* acknowledgeEvidence: the uploaded photo gets, or confirms, its row.
AcknowledgeEvidence(t, s) ==
  /\ Assigned(t)
  /\ OnStartedScope(t)
  /\ sections' = [sections EXCEPT ![s].evidence = TRUE]
  /\ UNCHANGED <<job, revision, corrections, changes, interruptedBy, route,
                 replacements, attention, current, sectionCopies, deviceScope>>

\* The section has an outcome and the evidence its policy asks for.
Settled(s) ==
  /\ sections[s].outcome # "PENDING"
  /\ EvidenceRequired(s, sections[s].outcome) => sections[s].evidence

Completable(t) ==
  /\ Assigned(t)
  /\ job.leader = t
  /\ job.completedBy = None
  /\ job.startedBy # None
  /\ job.status \in UnderWay

\* complete: the client's expectedVersion is parsed and not compared.
Complete(t) ==
  /\ Completable(t)
  /\ OnStartedScope(t)
  /\ Sections # {} /\ \A s \in Sections : Settled(s)
  /\ WriteJob([job EXCEPT !.status = "COMPLETED", !.completedBy = t])
  /\ UNCHANGED <<revision, sections, corrections, changes, interruptedBy, route,
                 replacements, attention, sectionCopies, deviceScope>>

-----------------------------------------------------------------------------
FieldStep ==
  \/ ReviseScope
  \/ \E t \in Technicians :
       \/ Refresh(t) \/ Start(t) \/ Complete(t)
       \/ \E s \in Sections : RecordSection(t, s) \/ AcknowledgeEvidence(t, s)

=============================================================================
