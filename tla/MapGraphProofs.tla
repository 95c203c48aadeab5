--------------------------- MODULE MapGraphProofs ---------------------------
(***************************************************************************)
(* Facts about the graph of a decision map, for every draft.               *)
(***************************************************************************)
EXTENDS MapGraph, TLAPS

-----------------------------------------------------------------------------
(* The least closed set. *)

\* A larger change reaches at least as much.
LEMMA DownstreamMonotone ==
  ASSUME NEW d, NEW A, NEW B, A \cap Nodes(d) \subseteq B
  PROVE  Downstream(d, A) \subseteq Downstream(d, B)
BY DEF Downstream, ClosedSets

\* So does the work that is to be reviewed after it.
LEMMA DependentWorkMonotone ==
  ASSUME NEW d, NEW A, NEW B, A \cap Nodes(d) \subseteq B
  PROVE  DependentWork(d, A) \subseteq DependentWork(d, B)
BY DownstreamMonotone DEF DependentWork, WorkOf

\* Only work items are reviewed.
LEMMA DependentWorkIsWork ==
  ASSUME NEW d, NEW A
  PROVE  DependentWork(d, A) \subseteq Works
BY DEF DependentWork, WorkOf

\* Only work items of the map are reviewed.
LEMMA DependentWorkIsInMap ==
  ASSUME NEW d, NEW A
  PROVE  DependentWork(d, A) \subseteq WorkOf(d, Nodes(d))
BY DEF DependentWork, WorkOf, Downstream

-----------------------------------------------------------------------------
(* The context of a work item and the reviews a change causes are two views *)
(* of one relation.                                                         *)

\* Influence relates nodes of the draft.
LEMMA InfluenceOfNodes ==
  ASSUME NEW d, EndpointsExist(d), NEW p \in Influence(d)
  PROVE  p[1] \in Nodes(d) /\ p[2] \in Nodes(d)
BY DEF EndpointsExist, Influence

\* A node whose change reaches a node of w is in the core of w's slice: the
\* nodes outside a set closed against Influence are closed under Influence.
LEMMA TaskCoreHasSources ==
  ASSUME NEW d, EndpointsExist(d), NEW w, NEW n \in Nodes(d), NEW m \in TaskStart(d, w),
         m \in Downstream(d, {n})
  PROVE  n \in TaskCore(d, w)
<1>1. SUFFICES ASSUME NEW S \in SUBSET Nodes(d),
                      TaskStart(d, w) \subseteq S,
                      \A p \in Influence(d) : p[2] \in S => p[1] \in S,
                      n \notin S
               PROVE  FALSE
  BY DEF TaskCore
<1> DEFINE C == Nodes(d) \ S
<1>2. ClosedUnder(Influence(d), C)
  BY <1>1, InfluenceOfNodes DEF ClosedUnder
<1>3. C \in ClosedSets(d, {n})
  BY <1>1, <1>2 DEF ClosedSets
<1>4. m \in C
  BY <1>3 DEF Downstream
<1> QED
  BY <1>1, <1>4

\* Every node whose change would put work w up for review is in the slice of the
\* map that an agent preparing w is given.
THEOREM TaskShowsEveryInfluence ==
  ASSUME NEW d, GraphRules(d), NEW w \in Works, NEW n \in Nodes(d),
         w \in DependentWork(d, {n})
  PROVE  n \in TaskNodes(d, w)
<1>1. PICK m \in Downstream(d, {n}) \cap Nodes(d) : d.node[m].ref = w
  BY DEF DependentWork, WorkOf
<1>2. m \in TaskStart(d, w)
  BY <1>1 DEF TaskStart
<1>3. n \in TaskCore(d, w)
  BY <1>1, <1>2, TaskCoreHasSources DEF GraphRules
<1> QED
  BY <1>3 DEF TaskNodes

-----------------------------------------------------------------------------
(* Prerequisites. *)

\* When no two nodes stand for one work item, a draft without a cycle of nodes
\* has no circle of work items that wait for each other.
THEOREM AcyclicNodesNoCircularWait ==
  ASSUME NEW d, GraphRules(d), OneNodePerWork(d), NEW S \in SUBSET Works
  PROVE  NoWorkWaitsInCircle(d, S)
<1>1. SUFFICES ASSUME NEW T \in (SUBSET S) \ {{}}
               PROVE  \E w \in T : Prerequisites(d, w) \cap T = {}
  BY DEF NoWorkWaitsInCircle
<1> DEFINE N == {n \in Nodes(d) : d.node[n].ref \in T}
<1>2. CASE N = {}
  <2>1. PICK w \in T : TRUE
    BY <1>1
  <2>2. Prerequisites(d, w) \cap T = {}
    BY <1>2 DEF Prerequisites, WorkOf
  <2> QED
    BY <2>1, <2>2
<1>3. CASE N # {}
  <2>1. PICK n \in N : \A e \in d.edge :
                         (e.kind = "depends_on" /\ e.source = n) => e.target \notin N
    BY <1>3 DEF GraphRules, AcyclicPrerequisites
  <2> DEFINE w == d.node[n].ref
  <2>2. w \in T /\ w \in Works
    BY <2>1
  <2>3. ASSUME NEW e \in d.edge, e.kind = "depends_on", d.node[e.source].ref = w
        PROVE  e.target \notin N
    <3>1. e.source \in Nodes(d)
      BY <2>3 DEF GraphRules, EndpointsExist
    <3>2. e.source = n
      BY <2>2, <2>3, <3>1 DEF OneNodePerWork
    <3> QED
      BY <2>1, <2>3, <3>2
  <2>4. Prerequisites(d, w) \cap T = {}
    BY <2>3 DEF Prerequisites, WorkOf
  <2> QED
    BY <2>2, <2>4
<1> QED
  BY <1>2, <1>3

=============================================================================
