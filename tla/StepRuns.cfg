SPECIFICATION FairSpec
CONSTANTS
  Keys = {k1}
  Subjects = {s1}
  Callers = {c1, c2}
  NoRun = NoRun
  NoKey = NoKey
  TouchedTo = {"blocked", "cancelled"}
  MaxTouches = 2
INVARIANTS
  TypeOK
  RunnerAskedOnce
  ReplyIsOfTheRequest
PROPERTIES
  FirstOutcomeStands
  EveryRunEnds
CHECK_DEADLOCK FALSE
