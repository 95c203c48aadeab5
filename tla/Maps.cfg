SPECIFICATION Scenarios
CONSTANTS
  w1 = w1
  w2 = w2
  x = x
  NoRef = NoRef
  Idle = Idle
  Works <- MCWorks
  Records <- MCRecords
  Drafts <- MCDrafts
  Actors = {a1, a2}
  Contents = {c1, c2}
  NewStatuses = {"ready", "blocked"}
  CliStatuses = {"in_progress"}
  MaxRevisions = 2
  MaxVersion = 3
  MaxTreated = 1
SYMMETRY Symmetry
INVARIANTS
  TypeOK
  NoCircularWait
PROPERTIES
  ReviewDebtIsKept
  ChangedContextIsReviewed
  StartRespectsRecordedReview
  HumanBlockOutlastsReview
CHECK_DEADLOCK FALSE
