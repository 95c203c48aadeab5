SPECIFICATION Parts
CONSTANTS
  a = a  b = b  v1 = v1  v2 = v2
  Keys = {k1, k2}
  Bases = {a, b}
  Unreviewed = {b}
  Busy = {b}
  Ventures = {v1, v2}
  Drafts <- AllDrafts
  Delegable = {"accept", "reverse"}
  Nothing = Nothing
  MaxRevisions = 2
  MaxIdeas = 2
  MaxTouches = 1
  Ids = {"p", "v-x"}
  Aliases = {"v-x", "v-y"}
  Manifests <- BothManifests
  Intakes = {"c1", "c2"}
  MaxReviews = 1
  MaxEdits = 1
INVARIANTS
  TypesOK
  ContinuedInStandingFusion
PROPERTIES
  AcceptedOverSourcesAsRevised
  ReversedKnowingly
  ReversalRestores
  IsOptimistic
  SelectorsStand
SYMMETRY Same
CHECK_DEADLOCK FALSE
