SPECIFICATION Spec
CONSTANTS
  Requests = {r1}
  FileRequests = {}
  SectionRequests = {r1}
  Works = {w1}
  Actors = {a1}
  Texts = {t1}
  NoText = NoText
  NoPreview = NoPreview
  NotLinked = NotLinked
  MaxReplies = 2
  MaxRevisions = 2
SYMMETRY Symmetry
INVARIANTS
  RevisionInvalidatesSatisfaction
CHECK_DEADLOCK FALSE
