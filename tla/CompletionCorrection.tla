------------------------ MODULE CompletionCorrection ------------------------
(***************************************************************************)
(* The append-only correction of a completed visit: management authorizes  *)
(* sections, the completing Technician records corrected outcomes and      *)
(* resubmits, and management acknowledges again.  Each operation is one    *)
(* Serializable transaction.                                               *)
(***************************************************************************)
EXTENDS TechnicianJob

\* The completion is authoritative and no correction of it is active.
Correctable ==
  /\ job.status = "COMPLETED" /\ job.completedBy # None
  /\ \A c \in CorrectionOps : ~Active(c)

\* Mutant of KeptAck: the correction keeps what it found at authorization.
AckAtAuthorization(c) == corrections[c].priorAck

\* The acknowledgement the correction keeps when a corrected outcome comes in.
KeptAck(c) ==
  IF corrections[c].priorAck = None THEN job.ackBy ELSE corrections[c].priorAck

-----------------------------------------------------------------------------
\* authorize
Authorize(c) ==
  \E affected \in SUBSET Sections \ {{}} :
    /\ corrections[c].status = "ABSENT"
    /\ Correctable
    /\ corrections' = [corrections EXCEPT ![c] =
         [status |-> "AUTHORIZED", technician |-> job.completedBy,
          affected |-> affected, priorAck |-> job.ackBy]]
    /\ UNCHANGED <<job, revision, sections, changes, interruptedBy, route,
                   replacements, attention, current, sectionCopies, deviceScope>>

\* record: the acknowledgement stops being current.
RecordCorrected(c, t, s) ==
  \E outcome \in Outcomes, photographed \in BOOLEAN :
    /\ Active(c)
    /\ corrections[c].technician = t
    /\ s \in corrections[c].affected
    /\ job.status = "COMPLETED"
    /\ Assigned(t)
    /\ OnStartedScope(t)
    /\ <<t, s>> \in sectionCopies
    /\ Photographed(s, outcome, photographed)
    /\ WriteSection(s, t, outcome, photographed)
    /\ corrections' = [corrections EXCEPT
         ![c].status = "IN_PROGRESS",
         ![c].priorAck = KeptAck(c)]
    /\ WriteJob([job EXCEPT !.ackBy = None])
    /\ UNCHANGED <<revision, changes, interruptedBy, route, replacements,
                   attention, deviceScope>>

\* resubmit
Resubmit(c, t) ==
  /\ corrections[c].status = "IN_PROGRESS"
  /\ corrections[c].technician = t
  /\ job.status = "COMPLETED"
  /\ Assigned(t)
  /\ corrections' = [corrections EXCEPT ![c].status = "RESUBMITTED"]
  /\ UNCHANGED <<job, revision, sections, changes, interruptedBy, route,
                 replacements, attention, current, sectionCopies, deviceScope>>

CorrectionStep ==
  \E c \in CorrectionOps :
    \/ Authorize(c)
    \/ \E t \in Technicians :
         Resubmit(c, t) \/ \E s \in Sections : RecordCorrected(c, t, s)

=============================================================================
