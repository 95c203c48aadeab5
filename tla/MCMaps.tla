------------------------------- MODULE MCMaps -------------------------------
(***************************************************************************)
(* Two small instances of DecisionMaps in one run.  In "review" contents    *)
(* change and every kind of draft is recorded, and nobody changes a status  *)
(* directly; in "race" they do, while contents stay as they are.            *)
(***************************************************************************)
EXTENDS MCDecisionMaps

VARIABLE scenario

Reviewing ==
  /\ cli' = Idle
  /\ \A w \in Works : work[w].status = "absent" => work'[w].status # "blocked"

Racing ==
  /\ UNCHANGED <<record, scope>>
  /\ \A w \in Works : work'[w].content = scope
  /\ head' # NoMap => head'.draft # Tests

Begin == Init /\ scenario \in {"review", "race"}

Step ==
  /\ Next
  /\ UNCHANGED scenario
  /\ \/ scenario = "review" /\ Reviewing
     \/ scenario = "race" /\ Racing

Scenarios == Begin /\ [][Step]_<<vars, scenario>>
=============================================================================
