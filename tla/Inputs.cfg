SPECIFICATION Scenarios
CONSTANTS
  r2 = r2
  Requests = {r1, r2}
  FileRequests = {r1}
  SectionRequests = {r2}
  Works = {w1}
  Actors = {a1, a2}
  Texts = {t1, t2}
  NoText = NoText
  NoPreview = NoPreview
  NotLinked = NotLinked
  MaxReplies = 2
  MaxRevisions = 2
SYMMETRY Symmetry
INVARIANTS
  TypeOK
  CurrentAnswerCounts
PROPERTIES
  SyncSavesWhatWasShown
  ImplementsGate
CHECK_DEADLOCK FALSE
