--------------------------- MODULE MapAlgorithms ----------------------------
(***************************************************************************)
(* The loops and the depth-first search the code runs on a draft, as small *)
(* steps, and what MapGraph says they compute.                             *)
(*                                                                         *)
(* A draft is written edge by edge; then one of three functions runs on    *)
(* it.  dependent_work and task_map take a round of their loop per step.   *)
(* graph_rules enters a node, skips or returns from one per step, the      *)
(* calls of visit that are open being the path; the roots and the children *)
(* of a node are taken in any order.                                       *)
(***************************************************************************)
EXTENDS MapGraph, Sequences

CONSTANTS
  Body,     \* node id -> body, the nodes of every draft
  MapKinds, \* the edge kinds in use
  MaxEdges  \* bound on the edges of a draft

VARIABLES
  draft,
  op,       \* the function that runs: none, dependent_work, task_map or graph_rules
  stage,    \* where it is: loop, branches, returned or raised
  changed,  \* what dependent_work was asked
  task,     \* what task_map was asked, NoRef before
  selected, \* the nodes found so far
  rounds,   \* rounds done (dependent_work) or left (task_map)
  path,     \* open calls of visit: [node, left], left the children still to visit
  complete  \* nodes from which visit has returned

loop   == <<changed, task, selected, rounds>>
search == <<path, complete>>
vars   == <<draft, op, stage, loop, search>>

Edges == [source : DOMAIN Body, target : DOMAIN Body, kind : MapKinds, text : {NoRef}]

Init ==
  /\ draft = [node |-> Body, edge |-> {}, focus |-> {}]
  /\ op = "none" /\ stage = "loop"
  /\ changed = {} /\ task = NoRef /\ selected = {} /\ rounds = 0
  /\ path = <<>> /\ complete = {}

AddEdge ==
  /\ op = "none"
  /\ Cardinality(draft.edge) < MaxEdges
  /\ \E e \in Edges \ draft.edge : draft' = [draft EXCEPT !.edge = @ \cup {e}]
  /\ UNCHANGED <<op, stage, loop, search>>

SetFocus ==
  /\ op = "none"
  /\ draft.focus = {}
  /\ \E n \in DOMAIN Body : draft' = [draft EXCEPT !.focus = {n}]
  /\ UNCHANGED <<op, stage, loop, search>>

-----------------------------------------------------------------------------
(* dependent_work: add what is influenced until nothing is new. *)

\* Fault: the sourcing relations are followed against their direction.
StepDownReversed(d, S) == {e.source : e \in {f \in d.edge : f.target \in S}}

StepDown(d, S) == {p[2] : p \in {q \in Influence(d) : q[1] \in S}}
StepUp(d, S)   == {p[1] : p \in {q \in Influence(d) : q[2] \in S}}

AskDependents ==
  /\ op = "none"
  /\ \E c \in SUBSET Nodes(draft) : changed' = c /\ selected' = c
  /\ op' = "dependent_work"
  /\ UNCHANGED <<draft, stage, task, rounds, search>>

DependentsRound ==
  /\ op = "dependent_work" /\ stage = "loop"
  /\ LET more == StepDown(draft, selected)
     IN  \/ /\ more \subseteq selected
            /\ stage' = "returned"
            /\ UNCHANGED <<selected, rounds>>
         \/ /\ ~ more \subseteq selected
            /\ selected' = selected \cup more
            /\ rounds' = rounds + 1
            /\ UNCHANGED stage
  /\ UNCHANGED <<draft, op, changed, task, search>>

(* task_map: at most one round more than there are nodes, then two branches. *)

AskSlice ==
  /\ op = "none"
  /\ \E w \in Works : task' = w /\ selected' = TaskStart(draft, w)
  /\ rounds' = Cardinality(Nodes(draft)) + 1
  /\ op' = "task_map"
  /\ UNCHANGED <<draft, stage, changed, search>>

SliceRound ==
  /\ op = "task_map" /\ stage = "loop"
  /\ LET more == StepUp(draft, selected)
     IN  \/ /\ rounds = 0 \/ more \subseteq selected
            /\ stage' = "branches" /\ rounds' = 2
            /\ UNCHANGED selected
         \/ /\ rounds # 0 /\ ~ more \subseteq selected
            /\ selected' = selected \cup more
            /\ rounds' = rounds - 1
            /\ UNCHANGED stage
  /\ UNCHANGED <<draft, op, changed, task, search>>

BranchRound ==
  /\ stage = "branches"
  /\ selected' = selected \cup BranchesFrom(draft, selected)
  /\ rounds' = rounds - 1
  /\ stage' = IF rounds' = 0 THEN "returned" ELSE "branches"
  /\ UNCHANGED <<draft, op, changed, task, search>>

-----------------------------------------------------------------------------
(* graph_rules: a node met while it is active closes a cycle. *)

Waits(d, n) == {e.target : e \in {f \in d.edge : f.kind = "depends_on" /\ f.source = n}}

Call(n)   == [node |-> n, left |-> Waits(draft, n)]
Active    == {path[i].node : i \in 1..Len(path)}
Innermost == path[Len(path)]
Took(c)   == [path EXCEPT ![Len(path)].left = @ \ {c}]

AskRules ==
  /\ op = "none"
  /\ op' = "graph_rules"
  /\ UNCHANGED <<draft, stage, loop, search>>

VisitRoot ==
  /\ op = "graph_rules" /\ stage = "loop" /\ path = <<>>
  /\ \E n \in Nodes(draft) \ complete : path' = <<Call(n)>>
  /\ UNCHANGED <<draft, op, stage, loop, complete>>

VisitChild ==
  /\ op = "graph_rules" /\ stage = "loop" /\ path # <<>>
  /\ \E c \in Innermost.left :
       \/ c \in Active /\ stage' = "raised" /\ UNCHANGED path
       \/ c \in complete \ Active /\ path' = Took(c) /\ UNCHANGED stage
       \/ c \notin complete \cup Active /\ path' = Append(Took(c), Call(c)) /\ UNCHANGED stage
  /\ UNCHANGED <<draft, op, loop, complete>>

VisitReturns ==
  /\ op = "graph_rules" /\ stage = "loop" /\ path # <<>>
  /\ Innermost.left = {}
  /\ complete' = complete \cup {Innermost.node}
  /\ path' = SubSeq(path, 1, Len(path) - 1)
  /\ UNCHANGED <<draft, op, stage, loop>>

Accept ==
  /\ op = "graph_rules" /\ stage = "loop" /\ path = <<>>
  /\ Nodes(draft) \subseteq complete
  /\ stage' = "returned"
  /\ UNCHANGED <<draft, op, loop, search>>

-----------------------------------------------------------------------------
Next ==
  \/ AddEdge \/ SetFocus
  \/ AskDependents \/ DependentsRound
  \/ AskSlice \/ SliceRound \/ BranchRound
  \/ AskRules \/ VisitRoot \/ VisitChild \/ VisitReturns \/ Accept

Spec == Init /\ [][Next]_vars

-----------------------------------------------------------------------------
\* dependent_work returns the least closed set, for every set of changed nodes
\* and through every cycle of influence, and no later than after as many rounds
\* as the map has nodes; the rounds that task_map allows are enough for the
\* whole slice; and the depth-first search accepts exactly the drafts in which
\* no set of nodes waits for itself.
AlgorithmsAreRight ==
  /\ op = "dependent_work" => rounds <= Cardinality(Nodes(draft))
  /\ op = "dependent_work" /\ stage = "returned" =>
       WorkOf(draft, selected) = DependentWork(draft, changed)
  /\ op = "task_map" /\ stage = "returned" => selected = TaskNodes(draft, task)
  /\ op = "graph_rules" /\ stage = "returned" => AcyclicPrerequisites(draft)
  /\ op = "graph_rules" /\ stage = "raised"   => ~ AcyclicPrerequisites(draft)

=============================================================================
