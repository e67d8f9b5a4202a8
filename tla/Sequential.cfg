\* Every operation, one request at a time, two Technicians whose staffing changes.
CONSTANTS
  Technicians = {t1, t2}
  Managers = {m1}
  Reviewers = {v1}
  Sections = {s1}
  EvidencePolicy <- PhotoOnException
  Bookings = {b1, b2}
  CorrectionOps = {c1}
  ChangeOps = {g1}
  ReplacementOps = {p1}
  MaxRevisions = 1
  Editors = {e1}
  Assigners = {a1}
  Targets = {"ACCEPTED", "ON_SITE", "CLOSED", "CANCELLED"}
  Routers = {q1}
  Overlap = FALSE
  None = None
SPECIFICATION Spec
PROPERTIES ImplementsVisitTruth
SYMMETRY PeopleSymmetry
CHECK_DEADLOCK FALSE
