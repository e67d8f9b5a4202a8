\* A visit from its start to its completion, and two reconciliations at once.
CONSTANTS
  None = None
  s1 = s1
  s2 = s2
  Sections = {s1}
  EvidencePolicy <- Policies
  MaxPhotos = 1
  MaxEdits = 1
  Runs = 2
  MaxOps = 3
  MaxMishaps = 1
SPECIFICATION MCSpec
CHECK_DEADLOCK FALSE
INVARIANTS PhotoNeverLost NothingForgotten AcknowledgedIsTrue
PROPERTIES PhotoArrives
