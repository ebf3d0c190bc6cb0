------------------------------ MODULE MCPageStore ------------------------------
(* Model values for checking PageLibrary and PageStore.                     *)
EXTENDS PageStore

CONSTANTS MaxCount, h1, h2, h3

(* A page is longer the more words it has.                                  *)
MCItems == {[hash |-> h, terms |-> [w \in Words |-> n], size |-> 1 + n]
              : h \in Hashes, n \in 0..MaxCount}

(* The middle one of three simhash values is close to both others, which    *)
(* are not close to each other.                                             *)
MCSimilar == {<<h, h>> : h \in Hashes} \cup
             {<<h1, h2>>, <<h2, h1>>, <<h2, h3>>, <<h3, h2>>}
=============================================================================
