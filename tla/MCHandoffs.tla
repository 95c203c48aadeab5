----------------------------- MODULE MCHandoffs -----------------------------
(***************************************************************************)
(* One work item, whose context shows one of the two parts of the map, and *)
(* what agents propose for it.  Values that occur once (the first map, the *)
(* record that is judged) stand for any other.                             *)
(***************************************************************************)
EXTENDS Handoffs, TLC

CONSTANTS w1, task, rest, t1, t2, c1, c2, r1

TaskOf == w1 :> {task}

Blank == [completes |-> FALSE, answered |-> TRUE, next |-> FALSE, map |-> Nothing,
          objective |-> Nothing, findings |-> 0, cites |-> {}, judges |-> <<>>]

\* Leaves everything but the review as it is.
NoEffect == Blank
\* Completes the work with a finding and queues other work.
Finding == [Blank EXCEPT !.completes = TRUE, !.findings = 1, !.next = TRUE]
\* Does so without human input, judges a record, cites evidence, redraws the map.
Judgement == [Blank EXCEPT !.answered = FALSE, !.cites = {1}, !.judges = r1 :> c2,
                           !.map = task :> t2 @@ rest :> t1]
\* Narrows the objective.
Narrowing == [Blank EXCEPT !.completes = TRUE, !.objective = c2]

FirstMap == task :> t1 @@ rest :> t1
FirstRevision == [actor : Actors, map : {FirstMap}, scope : {c1}]

EachProposal == {NoEffect, Finding, Judgement, Narrowing}
ChangedRest  == task :> t1 @@ rest :> t2
OtherDrafts  == {ChangedRest, task :> t2 @@ rest :> t1}

\* Three small instances in one run: one context with every proposal; two contexts
\* with two of them and a map that others redraw in every way; and one result that
\* changes nothing, about which the map is redrawn again and again.
VARIABLE scenario

Short == Len(revs') <= 3

OneContext ==
  /\ Short
  /\ Cardinality({k \in Contexts : context'[k] # Nothing}) <= 1
  /\ Len(revs') > Len(revs) /\ UNCHANGED receipt => revs'[Len(revs')].map = ChangedRest

TwoContexts ==
  /\ Short
  /\ \A r \in Results : result'[r] # Nothing => result'[r].proposal \in {NoEffect, Finding}
  /\ \A e \in DOMAIN evidence' : evidence'[e] = c1
  /\ UNCHANGED outsides

Redrawn ==
  /\ Cardinality({k \in Contexts : context'[k] # Nothing}) <= 1
  /\ Cardinality({r \in Results : result'[r] # Nothing}) <= 1
  /\ \A r \in Results : result'[r] # Nothing => result'[r].proposal = NoEffect
  /\ UNCHANGED <<evidence, outsides>>

Begin == Init /\ scenario \in {"one", "two", "redrawn"}

Step ==
  /\ Next
  /\ UNCHANGED scenario
  /\ \/ scenario = "one" /\ OneContext
     \/ scenario = "two" /\ TwoContexts
     \/ scenario = "redrawn" /\ Redrawn

Scenarios == Begin /\ [][Step]_<<vars, scenario>>

Same == Permutations(Actors) \cup Permutations(Contexts) \cup Permutations(Results)
=============================================================================
