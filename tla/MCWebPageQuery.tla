---------------------------- MODULE MCWebPageQuery ----------------------------
(* Model values and symmetry for checking WebPageQuery.                     *)
EXTENDS WebPageQuery, TLC

CONSTANT MaxCount

MCItems == [hash : Hashes, terms : [Words -> 0..MaxCount], size : {1}]
MCSimilar == {<<h, h>> : h \in Hashes}
Symmetry == Permutations(Hashes)
=============================================================================
