------------------------------- MODULE LruCache -------------------------------
(***************************************************************************)
(* LruCache: a list of records, newest first, and a hash map of iterators  *)
(* into it.  A list node is known by the time it was made, so that an      *)
(* iterator to an erased node is one that no element has.  used and last   *)
(* remember what AddRecord was called with, for the properties.            *)
(***************************************************************************)
EXTENDS Naturals, Sequences, FiniteSets, SequencesExt

CONSTANTS
  Keys, Values,
  CacheSize,   \* _cache_size; with 0 the first AddRecord takes back() of nothing
  MaxAdds      \* how many calls are made (bound)

ASSUME CacheAssumption == CacheSize \in Nat \ {0} /\ MaxAdds \in Nat

VARIABLES
  result,   \* _result_list
  map,      \* _hash_map
  pending,  \* _pending_update_list
  now,      \* how many calls there have been
  used,     \* the last call with a key, 0 for none
  last      \* the value it had

vars == <<result, map, pending, now, used, last>>

Init ==
  /\ result = <<>> /\ map = <<>> /\ pending = <<>>
  /\ now = 0
  /\ used = [k \in Keys |-> 0]
  /\ last \in [Keys -> Values]

KeysOf(s) == {s[i].key : i \in 1..Len(s)}
Node(k, v) == [node |-> now + 1, key |-> k, value |-> v]
Rear == Last(result)
-----------------------------------------------------------------------------
Remember(k, v) ==
  /\ now < MaxAdds
  /\ now' = now + 1
  /\ used' = [used EXCEPT ![k] = now']
  /\ last' = [last EXCEPT ![k] = v]

(* MoveToFront erases the node the map has and makes a new one in front;    *)
(* AddRecord then gives it the new value.                                   *)
Position(k) == CHOOSE i \in 1..Len(result) : result[i].node = map[k]
OtherNodes(k) == RemoveAt(result, Position(k))

(* Mutant: the map keeps the erased node's iterator.                        *)
UpdateDangling(k, v) ==
  /\ k \in DOMAIN map
  /\ Remember(k, v)
  /\ result' = <<Node(k, v)>> \o OtherNodes(k)
  /\ UNCHANGED <<map, pending>>

(* Mutant: a record that is there stays where it is.                        *)
UpdateInPlace(k, v) ==
  /\ k \in DOMAIN map
  /\ Remember(k, v)
  /\ result' = [i \in 1..Len(result) |->
                  IF result[i].node = map[k] THEN [result[i] EXCEPT !.value = v] ELSE result[i]]
  /\ UNCHANGED <<map, pending>>

Update(k, v) ==
  /\ k \in DOMAIN map
  /\ Remember(k, v)
  /\ result' = <<Node(k, v)>> \o OtherNodes(k)
  /\ map' = [map EXCEPT ![k] = now + 1]
  /\ UNCHANGED pending

(* A new key: DeleteRear when the list is full, AddFront and AddToPending.  *)
Full == Len(result) = CacheSize
KeptNodes == IF Full THEN Front(result) ELSE result
KeptKeys == IF Full THEN DOMAIN map \ {Rear.key} ELSE DOMAIN map

Insert(k, v) ==
  /\ k \notin DOMAIN map
  /\ Remember(k, v)
  /\ result' = <<Node(k, v)>> \o KeptNodes
  /\ map' = [j \in KeptKeys \cup {k} |-> IF j = k THEN now + 1 ELSE map[j]]
  /\ pending' = <<[key |-> k, value |-> v]>>
                  \o (IF Len(pending) = CacheSize THEN Front(pending) ELSE pending)

AddRecord(k, v) == Update(k, v) \/ Insert(k, v)

Next == \E k \in Keys, v \in Values : AddRecord(k, v)

Spec == Init /\ [][Next]_vars
-----------------------------------------------------------------------------
TypeOK ==
  /\ result \in Seq([node : 1..now, key : Keys, value : Values])
  /\ DOMAIN map \subseteq Keys /\ \A k \in DOMAIN map : map[k] \in 1..now
  /\ pending \in Seq([key : Keys, value : Values]) /\ Len(pending) <= CacheSize
  /\ Len(result) <= CacheSize
  /\ now \in Nat /\ used \in [Keys -> 0..now] /\ last \in [Keys -> Values]

(* The list is within its size, and the map has an iterator for the    *)
(* key of each element, to that element, and none that dangles.             *)
MapMatchesList ==
  /\ TypeOK
  /\ DOMAIN map = KeysOf(result)
  /\ \A i \in 1..Len(result) : map[result[i].key] = result[i].node
  /\ \A i, j \in 1..Len(result) : result[i].key = result[j].key => i = j

(* The keys in the cache are the ones added last, in that order, with their *)
(* last values: a key is missing only if CacheSize others were added after  *)
(* it.                                                                      *)
MostRecentAreKept ==
  /\ \A i, j \in 1..Len(result) : i < j => used[result[i].key] > used[result[j].key]
  /\ \A i \in 1..Len(result) : result[i].value = last[result[i].key]
  /\ \A k \in Keys : used[k] > 0 /\ k \notin KeysOf(result) =>
       Full /\ \A i \in 1..Len(result) : used[result[i].key] > used[k]
=============================================================================
