\* A status request read before the interruption is written after it.
CONSTANTS
  Technicians = {t1}
  Managers = {}
  Reviewers = {}
  Sections = {s1}
  EvidencePolicy <- PhotoOnException
  Bookings = {b1}
  CorrectionOps = {}
  ChangeOps = {}
  ReplacementOps = {}
  MaxRevisions = 1
  Editors = {e1}
  Assigners = {}
  Targets = {"WAITING_FOR_PARTS", "ON_SITE"}
  Routers = {}
  Overlap = TRUE
  None = None
SPECIFICATION Spec
INVARIANTS InterruptedNeverCompleted
CHECK_DEADLOCK FALSE
