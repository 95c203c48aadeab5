SPECIFICATION Parts
CONSTANTS
  Ideas = {1, 2}
  Rubrics <- BothRubrics
  OwnCards = {"own"}
  Imports <- Foreign
  Penalties = {"legal"}
  Judgements <- AllJudgements
  Rows <- WorkbookRows
  Labels = {"l1"}
  MaxRevisions = 2
  MaxAssessments = 2
  Ventures = {"v1"}
  Agents = {"ann", "bob"}
  MaxRevision = 2
  Assignments = {"w1"}
  Actions = {"a1", "a2"}
  Objectives = {"o1", "o2"}
  FirstObjective = "o1"
  ByHand = {"pursue", "hold"}
  Imported = {"HOLD", "CONTINUE"}
  MaxReviews = 3
  Contents = {"c1", "c2"}
  Rivals = {"Acme"}
  Folded <- Plain
  Lowered <- Plain
  Stored <- Plain
  Websites = {"none"}
  Roles = {"rival", "other"}
  Notes = {"n1", "n2"}
  RelationKinds = {"derived_from"}
  Rationales = {"why"}
  Locators = {"l1"}
  Digests = {"d1"}
  Batches <- OneBatch
  None = "none"
  MaxCorrections = 1
  Keys = {"k1"}
  MaxJudged = 2
  MaxNews = 1
  MaxRows = 3
  Files <- TwoFiles
  Numbers = {"R1"}
  Questions = {"q1", "q2"}
  Topics = {"v1", "v2"}
  Texts <- Sections
  NoFile = "none"
  MaxOccurrences = 2
  MaxChanges = 4
INVARIANTS
  TypesOK
  OneInvestigation
  OriginalScoredOnce
  ApplySettles
PROPERTIES
  ReviewedScoreStands
  ObservationsAreKept
  HeldDirectionStands
CHECK_DEADLOCK FALSE
