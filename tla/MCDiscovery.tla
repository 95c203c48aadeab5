---------------------------- MODULE MCDiscovery -----------------------------
(***************************************************************************)
(* Two spellings of one name whose first letter is not an ASCII letter: the *)
(* store's lower() leaves such a letter as it is.                          *)
(***************************************************************************)
EXTENDS Discovery

Capital == "Etoile (capital E acute)"
Small   == "etoile (small e acute)"
Spellings == {Capital, Small}

FoldedNames  == [n \in Spellings |-> Small]
LoweredNames == [n \in Spellings |-> Small]
StoredNames  == [n \in Spellings |-> n]
=============================================================================
