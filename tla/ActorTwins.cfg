SPECIFICATION Spec
CONSTANTS
  Ideas = {1}
  Contents = {c1, c2}
  Rivals <- Spellings
  Folded <- FoldedNames
  Lowered <- LoweredNames
  Stored <- StoredNames
  Websites = {none, w1}
  Roles = {rival}
  Notes = {n1}
  Kinds = {derived_from}
  Rationales = {why}
  Locators = {l1}
  Digests = {d1}
  Batches = {}
  None = none
  MaxRevisions = 2
  MaxCorrections = 1
INVARIANT OneActorPerName
CHECK_DEADLOCK FALSE
