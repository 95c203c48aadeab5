------------------------------ MODULE InputGate ------------------------------
(***************************************************************************)
(* What the human-input service promises the rest of the system about work *)
(* that waits for a person.  A gate stands for all the questions linked to *)
(* one work item, taken together.  Only held work can be linked; a gate is *)
(* met in a step that finishes the held work, never before and never       *)
(* separately; a corrected answer or a revised question opens it again     *)
(* without reviving the work.  The work itself is ordinary work, which     *)
(* others hold, finish or give up without a look at its gate.              *)
(*                                                                         *)
(* HumanInputs implements this module question by question.                *)
(***************************************************************************)
CONSTANT Works

VARIABLES
  gate,  \* work item -> "none" (nothing linked), "open" or "met"
  state  \* work item -> "held" (blocked on a person), "finished" or "other"

gateVars == <<gate, state>>

\* The first question is linked to w.
Link(w) ==
  /\ state[w] = "held" /\ gate[w] = "none"
  /\ gate' = [gate EXCEPT ![w] = "open"]
  /\ UNCHANGED state

\* One review answers the last open question of every work item in S; work that
\* others put on hold again after its gate was met is finished again.
Meet(S) ==
  /\ S # {}
  /\ \A w \in S : state[w] = "held" /\ gate[w] # "none"
  /\ gate'  = [w \in Works |-> IF w \in S THEN "met" ELSE gate[w]]
  /\ state' = [w \in Works |-> IF w \in S THEN "finished" ELSE state[w]]

\* A question of every work item in S has to be answered again.
Reopen(S) ==
  /\ S # {}
  /\ \A w \in S : gate[w] = "met"
  /\ gate' = [w \in Works |-> IF w \in S THEN "open" ELSE gate[w]]
  /\ UNCHANGED state

\* Another operation on w: its status moves, and its gate does not.
Move(w) ==
  /\ \E s \in {"held", "finished", "other"} : state' = [state EXCEPT ![w] = s]
  /\ UNCHANGED gate

Init ==
  /\ gate = [w \in Works |-> "none"]
  /\ state \in [Works -> {"held", "other"}]

Next ==
  \/ \E w \in Works : Link(w) \/ Move(w)
  \/ \E S \in SUBSET Works : Meet(S) \/ Reopen(S)

Spec == Init /\ [][Next]_gateVars

=============================================================================
