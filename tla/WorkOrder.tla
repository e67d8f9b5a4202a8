----------------------------- MODULE WorkOrder -----------------------------
(***************************************************************************)
(* The database rows of one Work Order, shared by every component that     *)
(* reads or writes it: the work_orders row with its technician join rows,  *)
(* the sections of its Execution Scope, the completion corrections, the    *)
(* material-change audit rows, and the interruption, routing, replacement  *)
(* and attention rows.                                                     *)
(*                                                                         *)
(* A Serializable transaction is one atomic step of the model.  A handler  *)
(* that reads outside its transaction is several steps, one per point at   *)
(* which another transaction may commit.                                   *)
(***************************************************************************)
EXTENDS Naturals, FiniteSets

CONSTANTS
  Technicians,      \* the active Technicians
  Managers,         \* ADMIN and SUPERVISOR users who acknowledge completions
  Reviewers,        \* ADMIN sessions holding a material-change preview
  Sections,         \* the sections every scope revision instantiates
  EvidencePolicy,   \* the evidence policy of each section
  Bookings,         \* the values the material booking fields take together
  CorrectionOps,    \* operation ids of correction authorizations
  ChangeOps,        \* operation ids of material-change commits
  ReplacementOps,   \* operation ids of replacement-visit creations
  MaxRevisions,     \* bound on the scope revisions of the Work Order
  None              \* SQL NULL

Policies == {"NONE", "ON_EXCEPTION", "REQUIRED"}

ASSUME NoneIsNobody ==
  /\ None \notin Technicians
  /\ None \notin Managers
  /\ None \notin Bookings
ASSUME PolicyPerSection == EvidencePolicy \in [Sections -> Policies]
ASSUME RevisionsBounded == MaxRevisions \in Nat

-----------------------------------------------------------------------------
(* Vocabulary *)

Statuses == {"NEW", "ASSIGNED", "ACCEPTED", "TRAVELLING", "ON_SITE",
             "WAITING_FOR_PARTS", "INTERRUPTED", "COMPLETED", "CLOSED",
             "CANCELLED"}

Gone == "GONE"  \* the row has been deleted

\* The statuses from which the assigned Job Leader may start the visit.
PreStart == {"ASSIGNED", "ACCEPTED", "TRAVELLING"}

\* The statuses in which a started visit is under way.
UnderWay == {"ON_SITE", "WAITING_FOR_PARTS"}

ValidTransitions ==
  [s \in Statuses |->
     CASE s = "NEW"               -> {"ASSIGNED", "CANCELLED"}
       [] s = "ASSIGNED"          -> {"ACCEPTED", "NEW", "CANCELLED"}
       [] s = "ACCEPTED"          -> {"TRAVELLING", "ON_SITE", "ASSIGNED", "CANCELLED"}
       [] s = "TRAVELLING"        -> {"ON_SITE", "ACCEPTED", "CANCELLED"}
       [] s = "ON_SITE"           -> {"WAITING_FOR_PARTS", "COMPLETED", "CANCELLED"}
       [] s = "WAITING_FOR_PARTS" -> {"ON_SITE", "COMPLETED", "CANCELLED"}
       [] s = "COMPLETED"         -> {"CLOSED", "ON_SITE"}
       [] OTHER                   -> {}]

\* Where a Work Order stands for the material-change policy.
Stage(status) ==
  CASE status = "NEW"                         -> "PENDING"
    [] status = "ASSIGNED"                    -> "FUTURE"
    [] status \in {"ACCEPTED", "TRAVELLING"}  -> "IMMINENT"
    [] status \in UnderWay                    -> "IN_PROGRESS"
    [] OTHER                                  -> "HISTORICAL"

ChangeStages == {"PENDING", "FUTURE", "IMMINENT"}

Outcomes == {"PENDING", "COMPLETED", "NOT_COMPLETED"}

NextActions == {"REPLACEMENT_VISIT", "FOLLOW_UP", "PARTIAL_COMPLETION_REVIEW",
                "FINANCIAL_REVIEW", "CLOSE"}

ASSUME NoneIsNoAction == None \notin NextActions

-----------------------------------------------------------------------------
(* Rows *)

VARIABLES
  job,           \* the work_orders row and its technician join rows
  revision,      \* number of the latest Execution Scope revision, 0 for none
  sections,      \* the sections of the scope revision the visit was started on
  corrections,   \* completion corrections, by authorization operation id
  changes,       \* material-change audit rows, by operation id
  interruptedBy, \* the Technician of the interruption row, if there is one
  route,         \* the latest routing decision of the interruption
  replacements,  \* operation ids whose replacement-visit row exists
  attention,     \* the interrupted-visit-review attention item
  current,       \* the clients whose copy of job.updatedAt is the row's value
  sectionCopies  \* <<t, s>>: device t holds section s at its current version

rows == <<job, revision, sections, corrections, changes, interruptedBy,
          route, replacements, attention, current, sectionCopies>>

Job ==
  [status       : Statuses \cup {Gone},
   technicians  : SUBSET Technicians,
   leader       : Technicians \cup {None},
   booking      : Bookings,
   startedBy    : Technicians \cup {None},   \* startOperationId, startedAt
   startedScope : 0..MaxRevisions,           \* 0 stands for NULL
   completedBy  : Technicians \cup {None},   \* completionOperationId
   ackBy        : Managers \cup {None}]      \* acknowledgement, eligibility

Section == [outcome : Outcomes, by : Technicians \cup {None}, evidence : BOOLEAN]

Correction ==
  [status     : {"ABSENT", "AUTHORIZED", "IN_PROGRESS", "RESUBMITTED"},
   technician : Technicians \cup {None},
   affected   : SUBSET Sections,
   priorAck   : Managers \cup {None}]

RowsTypeOK ==
  /\ job \in Job
  /\ revision \in 0..MaxRevisions
  /\ sections \in [Sections -> Section]
  /\ corrections \in [CorrectionOps -> Correction]
  /\ changes \in [ChangeOps -> ChangeStages \cup {"ABSENT"}]
  /\ interruptedBy \in Technicians \cup {None}
  /\ route \in NextActions \cup {None}
  /\ replacements \subseteq ReplacementOps
  /\ attention \in {"ABSENT", "OPEN", "RESOLVED"}
  /\ current \subseteq Technicians \cup Reviewers
  /\ sectionCopies \subseteq Technicians \X Sections

\* The Job Leaders an assignment request may end up with.
JobLeaders(technicians) == IF technicians = {} THEN {None} ELSE technicians

\* A Work Order as create() leaves it: ASSIGNED when it is staffed, else NEW.
CreatedJobs ==
  {j \in Job :
     /\ j.status = IF j.technicians = {} THEN "NEW" ELSE "ASSIGNED"
     /\ j.leader \in JobLeaders(j.technicians)
     /\ j.startedBy = None /\ j.startedScope = 0
     /\ j.completedBy = None /\ j.ackBy = None}

RowsInit ==
  /\ job \in CreatedJobs
  /\ revision = 0
  /\ sections = [s \in Sections |->
                   [outcome |-> "PENDING", by |-> None, evidence |-> FALSE]]
  /\ corrections = [c \in CorrectionOps |->
                      [status |-> "ABSENT", technician |-> None,
                       affected |-> {}, priorAck |-> None]]
  /\ changes = [c \in ChangeOps |-> "ABSENT"]
  /\ interruptedBy = None
  /\ route = None
  /\ replacements = {}
  /\ attention = "ABSENT"
  /\ current = {}
  /\ sectionCopies = {}

-----------------------------------------------------------------------------
(* Helpers *)

Exists == job.status # Gone

\* Every update of the row gives updatedAt a value no client has seen.  The
\* value is only ever compared for equality with a client's copy.
WriteJob(row) == job' = row /\ current' = {}

\* Section s gets a new outcome event and version.
WriteSection(s, t, outcome, photographed) ==
  /\ sections' = [sections EXCEPT ![s] =
       [outcome  |-> outcome, by |-> t,
        evidence |-> @.evidence \/ photographed]]
  /\ sectionCopies' = {copy \in sectionCopies : copy[2] # s}

EvidenceRequired(s, outcome) ==
  \/ EvidencePolicy[s] = "REQUIRED"
  \/ EvidencePolicy[s] = "ON_EXCEPTION" /\ outcome = "NOT_COMPLETED"

\* Mutant of Photographed: a missing photo is left to the completion review.
NeverPhotographed(s, outcome, photographed) == TRUE

\* Recording an outcome comes with the photo its evidence policy asks for.
Photographed(s, outcome, photographed) == EvidenceRequired(s, outcome) => photographed

Active(c) == corrections[c].status \in {"AUTHORIZED", "IN_PROGRESS"}

CorrectionInProgress ==
  \E c \in CorrectionOps : corrections[c].status = "IN_PROGRESS"

=============================================================================
