SPECIFICATION Spec
CONSTANTS
  w1 = w1
  w2 = w2
  x = x
  NoRef = NoRef
  Idle = Idle
  Works <- MCWorks
  Records <- MCRecords
  Drafts <- TwinDrafts
  Actors = {a1, a2}
  Contents = {c1, c2}
  NewStatuses = {"ready"}
  CliStatuses = {}
  MaxRevisions = 2
  MaxVersion = 3
  MaxTreated = 1
SYMMETRY Symmetry
INVARIANT
  PrerequisitesNeverCircular
CHECK_DEADLOCK FALSE
