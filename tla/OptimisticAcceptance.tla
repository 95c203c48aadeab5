------------------------ MODULE OptimisticAcceptance ------------------------
(***************************************************************************)
(* What every "propose now, accept later" operation of the foundry         *)
(* promises, without saying how: an offer records how the world looked to  *)
(* the one who made it (its basis); it may be refreshed while it is open;  *)
(* it is accepted only while the world still looks like that, and ends     *)
(* once.                                                                   *)
(***************************************************************************)
CONSTANTS Offers, Things, Nobody

VARIABLES
  world,  \* thing -> how it looks, as far as an offer depends on it
  status, \* offer -> where it stands
  basis   \* offer -> the things it rests on, as they looked when it was made

Ended == {"accepted", "withdrawn", "undone"}

Init ==
  /\ status = [o \in Offers |-> "absent"]
  /\ basis = [o \in Offers |-> Nobody]

\* Anything may happen to things.
Change == UNCHANGED <<status, basis>>

\* An offer is made, or refreshed, from the world as it is.
Make(o) ==
  /\ status[o] \in {"absent", "open"}
  /\ \E on \in SUBSET Things : basis' = [basis EXCEPT ![o] = [t \in on |-> world[t]]]
  /\ status' = [status EXCEPT ![o] = "open"]

\* It is accepted over the world it was made from, and changes it.
Accept(o) ==
  /\ status[o] = "open"
  /\ \A t \in DOMAIN basis[o] : basis[o][t] = world[t]
  /\ status' = [status EXCEPT ![o] = "accepted"]
  /\ UNCHANGED basis

\* It is dropped without effect, or replaced by another one made at once.
Withdraw(o) ==
  /\ status[o] = "open"
  /\ \/ /\ status' = [status EXCEPT ![o] = "withdrawn"]
        /\ UNCHANGED basis
     \/ \E n \in Offers \ {o}, on \in SUBSET Things :
          /\ status[n] = "absent"
          /\ status' = [status EXCEPT ![o] = "withdrawn", ![n] = "open"]
          /\ basis' = [basis EXCEPT ![n] = [t \in on |-> world[t]]]
  /\ world' = world

\* An accepted offer is undone by a decision of its own; what it rested on stays on record.
Undo(o) ==
  /\ status[o] = "accepted"
  /\ status' = [status EXCEPT ![o] = "undone"]
  /\ UNCHANGED basis

Next == Change \/ \E o \in Offers : Make(o) \/ Accept(o) \/ Withdraw(o) \/ Undo(o)

Spec == Init /\ [][Next]_<<world, status, basis>>
=============================================================================
