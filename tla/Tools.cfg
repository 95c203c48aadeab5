SPECIFICATION Parts
CONSTANTS
  Texts = {"t1", "t2"}
  Editors = {"e1", "e2"}
  Senders = {"s1"}
  Bytes = {"b1", "b2"}
  MaxRevisions = 3
  Terminals = {"t1", "t2"}
  Actor <- OneActor
  Oversized = {2}
  MaxVersion = 4
  MaxHead = 3
  MaxFaults = 2
  Reports = {"r1", "r2", "r3"}
  Sendable = {"r1", "r2"}
  MaxMailFaults = 3
  Works = {"w1", "w2", "w3"}
  NoRef = "none"
  Body <- ThreeNodes
  MapKinds = {"depends_on", "informs", "may_lead_to"}
  MaxEdges = 3
INVARIANTS
  TypesOK
  FailedStartIsSettled
  ReceiptMeansRecorded
  SentTextIsRetained
  AlgorithmsAreRight
PROPERTIES
  InterruptedIsRecovered
CHECK_DEADLOCK FALSE
