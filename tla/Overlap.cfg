\* Completion and two corrections, or an interruption with two routing and two
\* replacement requests, with a generic edit in flight.
CONSTANTS
  Technicians = {t1}
  Managers = {m1}
  Reviewers = {v1}
  Sections = {s1}
  EvidencePolicy <- PhotoOnException
  Bookings = {b1, b2}
  CorrectionOps = {c1, c2}
  ChangeOps = {}
  ReplacementOps = {p1, p2}
  MaxRevisions = 2
  Editors = {e1}
  Assigners = {}
  Targets = {"ACCEPTED", "ON_SITE", "CANCELLED"}
  Routers = {q1, q2}
  Overlap = TRUE
  None = None
SPECIFICATION Spec
INVARIANTS FrozenScopeIsLatest CompletionIsEvidenced NoAckDuringCorrection ReviewedUntilHandled
PROPERTIES AcknowledgementKept ConfirmedChangesAudited
SYMMETRY PeopleSymmetry
CHECK_DEADLOCK FALSE
