--------------------------- MODULE MCDecisionMaps ---------------------------
(***************************************************************************)
(* Two work items, one other record, and drafts that differ in the ways    *)
(* _revise tells apart: a prerequisite, a source of evidence, a dropped    *)
(* node, and a cycle of prerequisites that the contract refuses.           *)
(***************************************************************************)
EXTENDS DecisionMaps, TLC

CONSTANTS w1, w2, x

MCWorks   == {w1, w2}
MCRecords == {x}

Body(k, r) == [kind |-> k, ref |-> r, text |-> "title"]
Edge(s, t, k) == [source |-> s, target |-> t, kind |-> k, text |-> NoRef]

Goal == "goal" :> Body("goal", NoRef)
Work1 == w1 :> Body("record", w1)
Work2 == w2 :> Body("record", w2)
Source == x :> Body("record", x)

\* w1 waits for w2, whose question x informs.
Chain == [node |-> Goal @@ Work1 @@ Work2 @@ Source,
          edge |-> {Edge(w1, w2, "depends_on"), Edge(x, w2, "informs"),
                    Edge(w1, "goal", "contributes_to")}, focus |-> {w1}]

\* Both works test x; no prerequisite.
Tests == [node |-> Goal @@ Work1 @@ Work2 @@ Source,
          edge |-> {Edge(w1, x, "tests"), Edge(w2, x, "tests")}, focus |-> {w1}]

\* Only w1 is left.
Alone == [node |-> Goal @@ Work1, edge |-> {Edge(w1, "goal", "contributes_to")},
          focus |-> {w1}]

\* w1 and w2 wait for each other.
Cycle == [node |-> Work1 @@ Work2,
          edge |-> {Edge(w1, w2, "depends_on"), Edge(w2, w1, "depends_on")}, focus |-> {}]

\* Two nodes stand for w1, one waits for the other.
Twin == [node |-> Work1 @@ "again" :> Body("record", w1),
         edge |-> {Edge(w1, "again", "depends_on")}, focus |-> {w1}]
TwinDrafts == {Twin, Alone}

MCDrafts == {Chain, Tests, Alone, Cycle}

\* Enough to make a review due while a direct status change is under way.
RaceDrafts == {Chain, Alone, Cycle}

Symmetry == Permutations(Actors) \cup Permutations(Contents)
=============================================================================
