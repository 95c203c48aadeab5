SPECIFICATION Spec
CONSTANTS
  Requests = {r1}
  FileRequests = {}
  SectionRequests = {}
  Works = {}
  Actors = {a1}
  Texts = {t1}
  NoText = NoText
  NoPreview = NoPreview
  NotLinked = NotLinked
  MaxReplies = 2
  MaxRevisions = 2
SYMMETRY Symmetry
INVARIANTS
  OldAnswerIsNotReviewedAsNew
CHECK_DEADLOCK FALSE
