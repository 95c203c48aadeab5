------------------------------ MODULE MCFusion ------------------------------
(***************************************************************************)
(* How ventures come about.  By fusion: two proposals over three           *)
(* workspaces, two drafts over one pair of sources, one over an overlapping *)
(* pair that may include a fused venture.  By opening them: a project that  *)
(* is taken in twice, as it is and with an idea, others that rename it, and *)
(* an alias that is its id.  A behaviour is one of one of the three parts.   *)
(***************************************************************************)
EXTENDS Origins, TLC

CONSTANTS a, b, v1, v2

VARIABLE part

First    == [sources |-> {a, b}, drops |-> {a}, scope |-> 1, venture |-> v1]
Narrower == [sources |-> {a, b}, drops |-> {}, scope |-> 2, venture |-> v1]
Onward   == [sources |-> {b, v1}, drops |-> {v1}, scope |-> 1, venture |-> v2]

AllDrafts == {First, Narrower, Onward}

Same == Permutations(Keys)

\* One project, with an idea and without.
BothManifests == {[of |-> "v-x", idea |-> "p", body |-> "b1"],
                  [of |-> "v-x", idea |-> Nothing, body |-> "b2"]}

Begin == part \in {"fusion", "delegated", "spaces"} /\ Init /\ Spaces!Init

\* Where several proposals meet, the human delegates nothing but to accept a pending one.
AcceptsOnly == \A g \in deleg' \ deleg : g.action = "accept" /\ prop[g.prop].state = "proposed"

\* Where the human delegates, before or after there is anything to accept or reverse,
\* there is one proposal.
OneProposal == Cardinality({p \in Keys : prop'[p].state # "absent"}) <= 1

Step ==
    /\ UNCHANGED part
    /\ \/ part = "fusion" /\ Next /\ AcceptsOnly /\ UNCHANGED spaces
       \/ part = "delegated" /\ Next /\ OneProposal /\ UNCHANGED spaces
       \/ part = "spaces" /\ Spaces!Next /\ UNCHANGED vars

Parts == Begin /\ [][Step]_<<part, vars, spaces>>
=============================================================================
