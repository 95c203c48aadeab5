SPECIFICATION Scenarios
CONSTANTS
  w1 = w1  task = task  rest = rest  t1 = t1  t2 = t2  c1 = c1  c2 = c2  r1 = r1
  Contexts = {k1, k2}
  Results = {q1, q2}
  Works = {w1}
  Actors = {a, b}
  Parts = {task, rest}
  TaskParts <- TaskOf
  NextPart = rest
  Texts = {t1, t2}
  NextText = t2
  Records = {r1}
  TaskRecords = {}
  Contents = {c1, c2}
  Proposals <- EachProposal
  First <- FirstRevision
  Drafts <- OtherDrafts
  Changes = {"leave", "pause"}
  Nothing = Nothing
  MaxRevisions = 4
  MaxVersion = 3
  MaxEvidence = 1
  MaxReviews = 2
  MaxOutside = 1
INVARIANTS
  TypeOK
  OneAcceptancePerContext
PROPERTIES
  VoidedForGood
  CompleteAcceptanceCoversAll
  SupersededNeverAccepted
SYMMETRY Same
CHECK_DEADLOCK FALSE
