--------------------------- MODULE MCHumanInputs ---------------------------
(***************************************************************************)
(* Small instances: one request reviewed by two people, two requests that  *)
(* share one work item, and one request answered in a file.                *)
(***************************************************************************)
EXTENDS HumanInputs, TLC

\* Requests are not interchangeable: some have files, some have sections.
Symmetry == Permutations(Actors) \cup Permutations(Texts) \cup Permutations(Works)
=============================================================================
