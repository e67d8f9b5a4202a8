\* A completion is refused because an outcome it rests on is still queued.
CONSTANTS
  None = None
  s1 = s1
  s2 = s2
  Sections = {s1}
  EvidencePolicy <- NoPhotosAsked
  MaxPhotos = 1
  MaxEdits = 0
  Runs = 1
  MaxOps = 3
  MaxMishaps = 2
SPECIFICATION VisitSpec
INVARIANTS RefusedForCause
CHECK_DEADLOCK FALSE
