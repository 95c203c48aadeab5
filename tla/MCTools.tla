------------------------------- MODULE MCTools -------------------------------
(***************************************************************************)
(* The parts of Tools.  A behaviour is one of one of them; the others stay   *)
(* as they begin.  The context of the second map is too large, and the third *)
(* report is one that the workspace refuses.                                *)
(***************************************************************************)
EXTENDS Tools, TLC

VARIABLE part

\* Two sessions of one actor.
OneActor == [t \in {"t1", "t2"} |-> "ann"]

\* Two work nodes and a goal; a third work item is not in the map; one edge
\* kind for each way the algorithms treat a kind.
Node(k, r) == [kind |-> k, ref |-> r, text |-> "title"]
ThreeNodes == "w1" :> Node("record", "w1") @@ "w2" :> Node("record", "w2")
                @@ "goal" :> Node("goal", "none")

Begin ==
    /\ part \in {"bridge", "feedback", "outreach", "maps"}
    /\ Init /\ Bridge!Init /\ Feedback!Init /\ Maps!Init

Step ==
    /\ UNCHANGED part
    /\ \/ part = "bridge" /\ Bridge!Next /\ UNCHANGED <<feedback, vars, algorithm>>
       \/ part = "feedback" /\ Feedback!Next /\ UNCHANGED <<bridge, vars, algorithm>>
       \/ part = "outreach" /\ Next /\ UNCHANGED <<bridge, feedback, algorithm>>
       \/ part = "maps" /\ Maps!Next /\ UNCHANGED <<bridge, feedback, vars>>

Parts == Begin /\ [][Step]_<<part, bridge, feedback, vars, algorithm>> /\ Bridge!Fairness
=============================================================================
