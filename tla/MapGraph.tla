------------------------------ MODULE MapGraph ------------------------------
(***************************************************************************)
(* The graph of a decision map (decision_contracts.py, DecisionMapDraft)   *)
(* and the questions the services ask of it: which work depends on a       *)
(* changed node, which work is a prerequisite of another, and which nodes  *)
(* belong to the context of one work item.                                 *)
(*                                                                         *)
(* A draft is a record [node, edge, focus].  node is a function from node  *)
(* ids to bodies [kind, ref, text]; a "record" node refers to a work item  *)
(* or to another stored record, every other kind has ref = NoRef.  edge is *)
(* a set of records [source, target, kind, text]; text stands for the      *)
(* condition and the outcome of a branch.  focus is a set of node ids.     *)
(***************************************************************************)
EXTENDS Naturals, FiniteSets

CONSTANTS
  Works,    \* ids of work items
  NoRef     \* the ref of a node that refers to nothing

\* The three kinds through which a change of the target reaches the source,
\* and the three through which a change of the source reaches the target.
DependencyKinds == {"depends_on", "tests", "contributes_to"}
SourcingKinds   == {"informs", "supports", "contradicts"}
NodeKinds       == {"goal", "question", "alternative", "record"}
EdgeKinds       == DependencyKinds \cup SourcingKinds \cup {"may_lead_to", "revisits"}

Nodes(d) == DOMAIN d.node

\* <<x, y>> when a change of node x affects node y.
Influence(d) ==
  {<<e.target, e.source>> : e \in {f \in d.edge : f.kind \in DependencyKinds}}
    \cup {<<e.source, e.target>> : e \in {f \in d.edge : f.kind \in SourcingKinds}}

ClosedUnder(R, S) == \A p \in R : p[1] \in S => p[2] \in S

(***************************************************************************)
(* The least set of nodes of d that holds the changed ones and is closed   *)
(* under Influence: a node is in it when it is in every such set.  The     *)
(* code computes it by iteration; MapAlgorithms has that loop and checks   *)
(* that it returns this set.                                               *)
(***************************************************************************)
ClosedSets(d, changed) ==
  LET influence == Influence(d)
      start     == changed \cap Nodes(d)
  IN  {S \in SUBSET Nodes(d) : start \subseteq S /\ ClosedUnder(influence, S)}

Downstream(d, changed) ==
  LET closed == ClosedSets(d, changed)
  IN  {n \in Nodes(d) : \A S \in closed : n \in S}

WorkOf(d, ids) == {d.node[n].ref : n \in ids \cap Nodes(d)} \cap Works

DependentWork(d, changed) == WorkOf(d, Downstream(d, changed))

\* The work items the execution of w waits for.
Prerequisites(d, w) ==
  WorkOf(d, {e.target : e \in {f \in d.edge :
                f.kind = "depends_on" /\ d.node[f.source].ref = w}})

\* The nodes of work w, or the focus when the map does not have it.
TaskStart(d, w) ==
  LET own == {n \in Nodes(d) : d.node[n].ref = w}
  IN  IF own = {} THEN d.focus ELSE own

\* The least set that holds the start and what influences a member of it.
TaskCore(d, w) ==
  LET influence == Influence(d)
      closed    == {S \in SUBSET Nodes(d) :
                      /\ TaskStart(d, w) \subseteq S
                      /\ \A p \in influence : p[2] \in S => p[1] \in S}
  IN  {n \in Nodes(d) : \A S \in closed : n \in S}

BranchesFrom(d, S) ==
  {e.target : e \in {f \in d.edge : f.kind = "may_lead_to" /\ f.source \in S}}

\* The slice of the map a context for w holds: the core and two branch steps.
TaskNodes(d, w) ==
  LET core == TaskCore(d, w)
      near == core \cup BranchesFrom(d, core)
  IN  near \cup BranchesFrom(d, near)

-----------------------------------------------------------------------------
(* Validity of a draft (graph_rules and reference_kind). *)

EndpointsExist(d) == \A e \in d.edge : {e.source, e.target} \subseteq Nodes(d)

NoDuplicateEdge(d) ==
  \A e, f \in d.edge :
     <<e.source, e.target, e.kind>> = <<f.source, f.target, f.kind>> => e = f

RefOnRecordsOnly(d) ==
  \A n \in Nodes(d) : (d.node[n].kind = "record") <=> (d.node[n].ref # NoRef)

\* Fault: only a node that depends on itself is a cycle.
NoSelfPrerequisite(d) ==
  \A e \in d.edge : e.kind = "depends_on" => e.source # e.target

\* No set of nodes in which everybody depends on another member.
AcyclicPrerequisites(d) ==
  \A S \in (SUBSET Nodes(d)) \ {{}} :
    \E n \in S : \A e \in d.edge :
        (e.kind = "depends_on" /\ e.source = n) => e.target \notin S

\* Nothing in the contract asks for this: two nodes may refer to one work item.
OneNodePerWork(d) ==
  \A m, n \in Nodes(d) :
    (d.node[m].ref \in Works /\ d.node[m].ref = d.node[n].ref) => m = n

\* In every set of work items some member waits for no other member.
NoWorkWaitsInCircle(d, S) ==
  \A T \in (SUBSET S) \ {{}} : \E w \in T : Prerequisites(d, w) \cap T = {}

GraphRules(d) ==
  /\ d.focus \subseteq Nodes(d)
  /\ EndpointsExist(d)
  /\ NoDuplicateEdge(d)
  /\ RefOnRecordsOnly(d)
  /\ AcyclicPrerequisites(d)

=============================================================================
