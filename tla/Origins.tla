------------------------------ MODULE Origins -------------------------------
(***************************************************************************)
(* How ventures come about, in two ways that share no state here: by the    *)
(* fusion of others, and by opening one, as it is, from an idea or for a     *)
(* project that is taken in.                                                *)
(***************************************************************************)
EXTENDS Fusion

CONSTANTS Ids, Aliases, Manifests, Intakes, MaxReviews, MaxEdits  \* Workspaces

VARIABLES venture, known, checkpoints, taking  \* Workspaces

spaces == <<venture, known, checkpoints, taking>>

Spaces == INSTANCE Workspaces WITH ideas <- known, None <- Nothing

ASSUME SpaceNames ==
  /\ MaxReviews \in Nat /\ MaxEdits \in Nat
  /\ Nothing \notin Ids /\ Nothing \notin Aliases /\ Nothing \notin Manifests
  /\ Nothing \notin Spaces!Venture
  /\ \A m \in Manifests : m.of \in Ids /\ m.idea \in Ids \cup {Nothing}

\* The state of each is one it can be in, with what each says of its rows.
TypesOK == TypeOK /\ Spaces!TypeOK

\* Workspaces: a name goes on selecting what it selects.
SelectorsStand == Spaces!SelectorsStand
=============================================================================
