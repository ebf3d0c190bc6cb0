------------------------------ MODULE MCLruCache ------------------------------
(* Model values and symmetry for checking LruCache.                         *)
EXTENDS LruCache, TLC

Symmetry == Permutations(Keys) \cup Permutations(Values)
=============================================================================
