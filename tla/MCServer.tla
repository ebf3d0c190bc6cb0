------------------------------- MODULE MCServer -------------------------------
(* Model values and symmetry for checking Server. *)
EXTENDS Server, TLC

Symmetry == Permutations(Clients) \cup Permutations(Workers)
=============================================================================
