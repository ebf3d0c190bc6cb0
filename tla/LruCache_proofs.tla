---------------------------- MODULE LruCache_proofs ----------------------------
(***************************************************************************)
(* LruCache keeps its map and its list in step and keeps the records added *)
(* last, for any keys, any size of the cache and any number of calls.  A   *)
(* node is as old as the last call with its key, which is why erasing the  *)
(* node the map has and dropping the rear node are the right choices.      *)
(***************************************************************************)
EXTENDS LruCache, TLAPS

(* MoveToFront and AddFront make the node of a key at its last call.        *)
NodesAreUses == \A i \in 1..Len(result) : result[i].node = used[result[i].key]

IInv == MapMatchesList /\ MostRecentAreKept /\ NodesAreUses

Elem == [node : 1..now, key : Keys, value : Values]
-----------------------------------------------------------------------------
LEMMA KeysOfElements ==
  ASSUME NEW s \in Seq(Elem), NEW i \in 1..Len(s)
  PROVE  s[i] \in Elem /\ s[i].key \in Keys
<1>1. s[i] \in Elem
  OBVIOUS
<1>2. \A e \in Elem : e.key \in Keys
  BY DEF Elem
<1>3. QED
  BY <1>1, <1>2

LEMMA ConcatEffect ==
  ASSUME NEW S, NEW s \in Seq(S), NEW t \in Seq(S)
  PROVE  /\ s \o t \in Seq(S) /\ Len(s \o t) = Len(s) + Len(t)
         /\ \A i \in 1..(Len(s) + Len(t)) :
              (s \o t)[i] = IF i <= Len(s) THEN s[i] ELSE t[i - Len(s)]
OBVIOUS

LEMMA PrependEffect ==
  ASSUME NEW S, NEW s \in Seq(S), NEW e \in S
  PROVE  /\ <<e>> \o s \in Seq(S) /\ Len(<<e>> \o s) = Len(s) + 1
         /\ (<<e>> \o s)[1] = e
         /\ \A i \in 1..Len(s) : (<<e>> \o s)[i + 1] = s[i]
OBVIOUS

LEMMA FrontEffect ==
  ASSUME NEW S, NEW s \in Seq(S), Len(s) # 0
  PROVE  /\ Front(s) \in Seq(S) /\ Len(Front(s)) = Len(s) - 1
         /\ \A i \in 1..(Len(s) - 1) : Front(s)[i] = s[i]
<1>1. Len(s) - 1 \in 0..Len(s) /\ Len(s) \in Nat
  OBVIOUS
<1>2. ASSUME NEW n \in 0..Len(s)
      PROVE  /\ SubSeq(s, 1, n) \in Seq(S) /\ Len(SubSeq(s, 1, n)) = n
             /\ \A i \in 1..n : SubSeq(s, 1, n)[i] = s[i]
  OBVIOUS
<1>3. QED
  BY <1>1, <1>2 DEF Front

LEMMA RemoveAtEffect ==
  ASSUME NEW S, NEW s \in Seq(S), NEW p \in 1..Len(s)
  PROVE  /\ RemoveAt(s, p) \in Seq(S) /\ Len(RemoveAt(s, p)) = Len(s) - 1
         /\ \A i \in 1..(Len(s) - 1) :
              RemoveAt(s, p)[i] = s[IF i < p THEN i ELSE i + 1]
<1> DEFINE a == SubSeq(s, 1, p - 1)
           b == SubSeq(s, p + 1, Len(s))
<1>0. p \in Nat /\ p >= 1 /\ p <= Len(s) /\ Len(s) \in Nat
  OBVIOUS
<1>1. /\ a \in Seq(S) /\ Len(a) = p - 1
      /\ \A i \in 1..Len(a) : a[i] = s[i]
  BY <1>0
<1>2. /\ b \in Seq(S) /\ Len(b) = Len(s) - p
      /\ \A i \in 1..Len(b) : b[i] = s[p + i]
  BY <1>0
<1>3. RemoveAt(s, p) = a \o b
  BY DEF RemoveAt
<1> HIDE DEF a, b
<1>4. /\ a \o b \in Seq(S) /\ Len(a \o b) = Len(a) + Len(b)
      /\ \A i \in 1..(Len(a) + Len(b)) :
           (a \o b)[i] = IF i <= Len(a) THEN a[i] ELSE b[i - Len(a)]
  BY <1>1, <1>2, ConcatEffect
<1>5. ASSUME NEW i \in 1..(Len(s) - 1)
      PROVE  RemoveAt(s, p)[i] = s[IF i < p THEN i ELSE i + 1]
  <2>1. CASE i < p
    BY <1>0, <1>1, <1>2, <1>3, <1>4, <2>1
  <2>2. CASE i >= p
    <3>1. i - Len(a) \in 1..Len(b) /\ ~(i <= Len(a)) /\ i \in 1..(Len(a) + Len(b))
      BY <1>0, <1>1, <1>2, <2>2
    <3>2. (a \o b)[i] = b[i - Len(a)] /\ b[i - Len(a)] = s[p + (i - Len(a))]
      BY <1>2, <1>4, <3>1
    <3>3. p + (i - Len(a)) = i + 1
      BY <1>0, <1>1
    <3>4. QED
      BY <1>0, <1>3, <2>2, <3>2, <3>3
  <2>3. QED
    BY <1>0, <2>1, <2>2
<1>6. QED
  BY <1>0, <1>1, <1>2, <1>3, <1>4, <1>5
-----------------------------------------------------------------------------
(* A node made for a key in front of some of the others, in their order,    *)
(* keeps the list in order.                                                 *)
LEMMA PutInFront ==
  ASSUME IInv, NEW k \in Keys, NEW v \in Values, Remember(k, v),
         NEW s \in Seq(Elem),
         NEW g \in [1..Len(s) -> 1..Len(result)],
         \A i, j \in 1..Len(s) : i < j => g[i] < g[j],
         \A i \in 1..Len(s) : s[i] = result[g[i]] /\ s[i].key # k,
         result' = <<Node(k, v)>> \o s
  PROVE  /\ result' \in Seq(Elem') /\ Len(result') = Len(s) + 1
         /\ result'[1] = Node(k, v)
         /\ \A i \in 1..Len(s) : result'[i + 1] = s[i]
         /\ KeysOf(result)' = KeysOf(s) \cup {k}
         /\ \A i, j \in 1..Len(result') : result'[i].key = result'[j].key => i = j
         /\ \A i, j \in 1..Len(result') :
              i < j => used'[result'[i].key] > used'[result'[j].key]
         /\ \A i \in 1..Len(result') : result'[i].value = last'[result'[i].key]
         /\ NodesAreUses'
<1>0. /\ result \in Seq(Elem) /\ now \in Nat /\ used \in [Keys -> 0..now]
      /\ last \in [Keys -> Values]
  BY DEF IInv, MapMatchesList, TypeOK, Elem
<1>1. now' = now + 1 /\ used' = [used EXCEPT ![k] = now + 1] /\ last' = [last EXCEPT ![k] = v]
  BY DEF Remember
<1>2. Elem \subseteq Elem' /\ Node(k, v) \in Elem'
  BY <1>0, <1>1 DEF Elem, Node
<1>3. s \in Seq(Elem')
  BY <1>2
<1>4. /\ result' \in Seq(Elem') /\ Len(result') = Len(s) + 1
      /\ result'[1] = Node(k, v)
      /\ \A i \in 1..Len(s) : result'[i + 1] = s[i]
  BY <1>2, <1>3, PrependEffect
<1>5. Len(s) \in Nat
  OBVIOUS
<1>6. ASSUME NEW i \in 1..Len(s)
      PROVE  /\ s[i] \in Elem /\ s[i].key \in Keys \ {k}
             /\ used'[s[i].key] = used[s[i].key] /\ used[s[i].key] \in 0..now
             /\ s[i].value = last'[s[i].key] /\ s[i].node = used'[s[i].key]
  <2>1. s[i] \in Elem /\ g[i] \in 1..Len(result) /\ s[i] = result[g[i]] /\ s[i].key # k
    BY <1>6
  <2>2. s[i].key \in Keys
    BY <2>1 DEF Elem
  <2>3. s[i].value = last[s[i].key] /\ s[i].node = used[s[i].key]
    BY <2>1 DEF IInv, MostRecentAreKept, NodesAreUses
  <2>4. QED
    BY <1>0, <1>1, <2>1, <2>2, <2>3
<1>7. ASSUME NEW i \in 1..Len(s), NEW j \in 1..Len(s)
      PROVE  /\ s[i].key = s[j].key => i = j
             /\ i < j => used[s[i].key] > used[s[j].key]
  <2>1. /\ g[i] \in 1..Len(result) /\ g[j] \in 1..Len(result)
        /\ s[i] = result[g[i]] /\ s[j] = result[g[j]]
        /\ i < j => g[i] < g[j]
        /\ j < i => g[j] < g[i]
    OBVIOUS
  <2>2. s[i].key = s[j].key => g[i] = g[j]
    BY <2>1 DEF IInv, MapMatchesList
  <2>3. g[i] < g[j] => used[s[i].key] > used[s[j].key]
    BY <2>1 DEF IInv, MostRecentAreKept
  <2>4. QED
    BY <2>1, <2>2, <2>3
<1>8. \A i \in 1..Len(result') : i = 1 \/ (i - 1 \in 1..Len(s) /\ result'[i] = s[i - 1])
  BY <1>4, <1>5
<1>9. Node(k, v).key = k /\ Node(k, v).value = v /\ Node(k, v).node = now + 1
  BY DEF Node
<1>10. used'[k] = now + 1 /\ last'[k] = v
  BY <1>0, <1>1
<1>11. KeysOf(result)' = KeysOf(s) \cup {k}
  <2>1. KeysOf(result)' \subseteq KeysOf(s) \cup {k}
    BY <1>4, <1>8, <1>9 DEF KeysOf
  <2>2. k \in KeysOf(result)'
    BY <1>4, <1>5, <1>9 DEF KeysOf
  <2>3. ASSUME NEW i \in 1..Len(s) PROVE s[i].key \in KeysOf(result)'
    <3>1. i + 1 \in 1..Len(result') /\ result'[i + 1] = s[i]
      BY <1>4, <1>5
    <3>2. QED
      BY <3>1 DEF KeysOf
  <2>4. KeysOf(s) \subseteq KeysOf(result)'
    BY <2>3 DEF KeysOf
  <2>5. QED
    BY <2>1, <2>2, <2>4
<1>12. \A i, j \in 1..Len(result') : result'[i].key = result'[j].key => i = j
  <2> SUFFICES ASSUME NEW i \in 1..Len(result'), NEW j \in 1..Len(result'),
                      result'[i].key = result'[j].key
               PROVE  i = j
    OBVIOUS
  <2>1. CASE i # 1 /\ j # 1
    BY <1>7, <1>8, <2>1, SMTT(30)
  <2>2. CASE i = 1 \/ j = 1
    BY <1>4, <1>6, <1>8, <1>9, <2>2
  <2>3. QED
    BY <2>1, <2>2
<1>13. \A i, j \in 1..Len(result') : i < j => used'[result'[i].key] > used'[result'[j].key]
  <2> SUFFICES ASSUME NEW i \in 1..Len(result'), NEW j \in 1..Len(result'), i < j
               PROVE  used'[result'[i].key] > used'[result'[j].key]
    OBVIOUS
  <2>1. j - 1 \in 1..Len(s) /\ result'[j] = s[j - 1]
    BY <1>8
  <2>2. CASE i = 1
    BY <1>0, <1>4, <1>6, <1>9, <1>10, <2>1, <2>2, SMTT(30)
  <2>3. CASE i # 1
    BY <1>6, <1>7, <1>8, <2>1, <2>3, SMTT(30)
  <2>4. QED
    BY <2>2, <2>3
<1>14. \A i \in 1..Len(result') :
         result'[i].value = last'[result'[i].key] /\ result'[i].node = used'[result'[i].key]
  <2> SUFFICES ASSUME NEW i \in 1..Len(result')
               PROVE  /\ result'[i].value = last'[result'[i].key]
                      /\ result'[i].node = used'[result'[i].key]
    OBVIOUS
  <2>1. CASE i = 1
    BY <1>4, <1>9, <1>10, <2>1
  <2>2. CASE i # 1
    BY <1>6, <1>8, <2>2
  <2>3. QED
    BY <2>1, <2>2
<1>15. QED
  BY <1>4, <1>11, <1>12, <1>13, <1>14 DEF NodesAreUses
-----------------------------------------------------------------------------
LEMMA InitIInv == Init => IInv
<1> SUFFICES ASSUME Init PROVE IInv
  OBVIOUS
<1>1. result = <<>> /\ Len(result) = 0 /\ map = <<>> /\ DOMAIN map = {} /\ pending = <<>>
  BY DEF Init
<1>2. TypeOK
  <2>1. now = 0 /\ used \in [Keys -> 0..now] /\ last \in [Keys -> Values]
    BY DEF Init
  <2>2. CacheSize \in Nat
    BY CacheAssumption
  <2>3. <<>> \in Seq([node : 1..now, key : Keys, value : Values]) /\ <<>> \in Seq([key : Keys, value : Values])
    OBVIOUS
  <2>4. QED
    BY <1>1, <2>1, <2>2, <2>3 DEF TypeOK
<1>3. MapMatchesList
  BY <1>1, <1>2 DEF MapMatchesList, KeysOf
<1>4. MostRecentAreKept /\ NodesAreUses
  BY <1>1 DEF Init, MostRecentAreKept, NodesAreUses
<1>5. QED
  BY <1>3, <1>4 DEF IInv

(* The iterator the map has for a key is to that key's element.             *)
LEMMA PositionFound ==
  ASSUME IInv, NEW k \in DOMAIN map
  PROVE  Position(k) \in 1..Len(result) /\ result[Position(k)].key = k
<1>1. PICK i \in 1..Len(result) : result[i].key = k
  BY DEF IInv, MapMatchesList, KeysOf
<1>2. result[i].node = map[k]
  <2>1. map[result[i].key] = result[i].node
    BY DEF IInv, MapMatchesList
  <2>2. QED
    BY <1>1, <2>1
<1>3. Position(k) \in 1..Len(result) /\ result[Position(k)].node = map[k]
  BY <1>2 DEF Position
<1> DEFINE p == Position(k)
<1>4. /\ result \in Seq(Elem) /\ now \in Nat /\ used \in [Keys -> 0..now]
  BY DEF IInv, MapMatchesList, TypeOK, Elem
<1>5. result[p] \in Elem /\ result[p].key \in Keys /\ k \in Keys
  <2>1. \A j \in 1..Len(result) : result[j] \in Elem /\ result[j].key \in Keys
    BY <1>4, KeysOfElements
  <2>2. QED
    BY <1>1, <1>3, <2>1
<1>6. used[result[p].key] = used[k]
  BY <1>1, <1>2, <1>3 DEF IInv, NodesAreUses
<1>7. p = i
  <2>1. i < p => used[result[i].key] > used[result[p].key]
    BY <1>3 DEF IInv, MostRecentAreKept
  <2>2. p < i => used[result[p].key] > used[result[i].key]
    BY <1>3 DEF IInv, MostRecentAreKept
  <2>3. QED
    BY <1>1, <1>3, <1>4, <1>5, <1>6, <2>1, <2>2
<1>8. QED
  BY <1>1, <1>3, <1>7

LEMMA UpdateStep ==
  ASSUME IInv, NEW k \in Keys, NEW v \in Values, Update(k, v)
  PROVE  IInv'
<1> DEFINE p == Position(k)
           s == OtherNodes(k)
           g == [i \in 1..Len(s) |-> IF i < p THEN i ELSE i + 1]
<1>1. /\ Remember(k, v) /\ k \in DOMAIN map /\ result' = <<Node(k, v)>> \o s
      /\ map' = [map EXCEPT ![k] = now + 1] /\ pending' = pending
      /\ now' = now + 1 /\ used' = [used EXCEPT ![k] = now + 1]
      /\ last' = [last EXCEPT ![k] = v]
  BY DEF Update, Remember
<1>2. TypeOK /\ result \in Seq(Elem) /\ now \in Nat /\ Len(result) \in Nat
  BY DEF IInv, MapMatchesList, TypeOK, Elem
<1>3. p \in 1..Len(result) /\ result[p].key = k
  BY <1>1, PositionFound
<1>4. /\ s \in Seq(Elem) /\ Len(s) = Len(result) - 1
      /\ \A i \in 1..Len(s) : s[i] = result[IF i < p THEN i ELSE i + 1]
  BY <1>2, <1>3, RemoveAtEffect DEF OtherNodes
<1> HIDE DEF p, s
<1>5. g \in [1..Len(s) -> 1..Len(result)]
  BY <1>2, <1>3, <1>4
<1>6. \A i, j \in 1..Len(s) : i < j => g[i] < g[j]
  BY <1>2, <1>3, <1>4
<1>7. ASSUME NEW i \in 1..Len(s) PROVE s[i] = result[g[i]] /\ s[i].key # k
  <2>1. s[i] = result[g[i]] /\ g[i] \in 1..Len(result)
    BY <1>4, <1>5
  <2>2. g[i] # p
    BY <1>2, <1>3, <1>4
  <2>3. QED
    BY <1>3, <2>1, <2>2 DEF IInv, MapMatchesList
<1>8. /\ result' \in Seq(Elem') /\ Len(result') = Len(s) + 1
      /\ result'[1] = Node(k, v)
      /\ \A i \in 1..Len(s) : result'[i + 1] = s[i]
      /\ KeysOf(result)' = KeysOf(s) \cup {k}
      /\ \A i, j \in 1..Len(result') : result'[i].key = result'[j].key => i = j
      /\ \A i, j \in 1..Len(result') : i < j => used'[result'[i].key] > used'[result'[j].key]
      /\ \A i \in 1..Len(result') : result'[i].value = last'[result'[i].key]
      /\ NodesAreUses'
  <2> HIDE DEF g
  <2>1. QED
    BY <1>1, <1>4, <1>5, <1>6, <1>7, PutInFront
<1>9. KeysOf(result)' = KeysOf(result)
  <2>1. KeysOf(s) \subseteq KeysOf(result)
    BY <1>4, <1>5, <1>7 DEF KeysOf
  <2>2. k \in KeysOf(result)
    BY <1>3 DEF KeysOf
  <2>3. ASSUME NEW i \in 1..Len(result), i # p
        PROVE  result[i].key \in KeysOf(s)
    <3>1. CASE i < p
      <4>1. i \in 1..Len(s) /\ s[i] = result[i]
        BY <1>2, <1>3, <1>4, <3>1
      <4>2. QED
        BY <4>1 DEF KeysOf
    <3>2. CASE i > p
      <4>1. i - 1 \in 1..Len(s) /\ ~(i - 1 < p) /\ (i - 1) + 1 = i
        BY <1>2, <1>3, <1>4, <3>2
      <4>2. s[i - 1] = result[i]
        BY <1>4, <4>1
      <4>3. QED
        BY <4>1, <4>2 DEF KeysOf
    <3>3. QED
      BY <1>3, <2>3, <3>1, <3>2
  <2>4. KeysOf(result) \subseteq KeysOf(s) \cup {k}
    BY <1>3, <2>3 DEF KeysOf
  <2>5. QED
    BY <1>8, <2>1, <2>2, <2>4
<1>10. DOMAIN map' = DOMAIN map /\ DOMAIN map = KeysOf(result)
  BY <1>1 DEF IInv, MapMatchesList
<1>11. ASSUME NEW i \in 1..Len(result') PROVE map'[result'[i].key] = result'[i].node
  <2>1. result'[i].key \in KeysOf(result)'
    BY DEF KeysOf
  <2>2. CASE i = 1
    BY <1>1, <1>8, <2>2 DEF Node
  <2>3. CASE i # 1
    <3>1. i - 1 \in 1..Len(s) /\ result'[i] = s[i - 1]
      BY <1>4, <1>8, <2>3
    <3>2. result'[i] = result[g[i - 1]] /\ g[i - 1] \in 1..Len(result) /\ result'[i].key # k
      BY <1>5, <1>7, <3>1
    <3>3. map[result'[i].key] = result'[i].node
      BY <3>2 DEF IInv, MapMatchesList
    <3>4. QED
      BY <1>1, <1>9, <1>10, <2>1, <3>2, <3>3
  <2>4. QED
    BY <2>2, <2>3
<1>12. TypeOK'
  <2>1. \A j \in DOMAIN map : map'[j] = map[j] \/ map'[j] = now + 1
    BY <1>1
  <2>2. \A j \in DOMAIN map' : map'[j] \in 1..now'
    BY <1>1, <1>2, <1>10, <2>1 DEF TypeOK
  <2>3. used' \in [Keys -> 0..now'] /\ last' \in [Keys -> Values] /\ now' \in Nat
    BY <1>1, <1>2 DEF TypeOK
  <2>4. Len(result') = Len(result)
    BY <1>2, <1>4, <1>8
  <2>5. result' \in Seq([node : 1..now, key : Keys, value : Values])'
    BY <1>8 DEF Elem
  <2>6. QED
    BY <1>1, <1>2, <1>10, <2>2, <2>3, <2>4, <2>5 DEF TypeOK
<1>13. MapMatchesList'
  BY <1>8, <1>9, <1>10, <1>11, <1>12 DEF MapMatchesList
<1>14. ASSUME NEW j \in Keys, used'[j] > 0, j \notin KeysOf(result)'
       PROVE  Full' /\ \A i \in 1..Len(result') : used'[result'[i].key] > used'[j]
  <2>1. j # k /\ used'[j] = used[j] /\ j \notin KeysOf(result)
    BY <1>1, <1>2, <1>8, <1>9, <1>14 DEF TypeOK
  <2>2. Full /\ \A i \in 1..Len(result) : used[result[i].key] > used[j]
    BY <1>14, <2>1 DEF IInv, MostRecentAreKept
  <2>3. Full'
    BY <1>2, <1>4, <1>8, <2>2 DEF Full
  <2>4. ASSUME NEW i \in 1..Len(result') PROVE used'[result'[i].key] > used'[j]
    <3>1. CASE i = 1
      <4>1. result'[i].key = k /\ used'[k] = now + 1
        BY <1>1, <1>2, <1>8, <3>1 DEF Node, TypeOK
      <4>2. used[j] \in 0..now
        BY <1>2 DEF TypeOK
      <4>3. QED
        BY <1>2, <2>1, <4>1, <4>2
    <3>2. CASE i # 1
      <4>1. i - 1 \in 1..Len(s) /\ result'[i] = s[i - 1]
        BY <1>4, <1>8, <3>2
      <4>2. result'[i] = result[g[i - 1]] /\ g[i - 1] \in 1..Len(result) /\ result'[i].key # k
        BY <1>5, <1>7, <4>1
      <4>3. result'[i].key \in Keys
        BY <1>2, <4>2, KeysOfElements
      <4>4. used'[result'[i].key] = used[result'[i].key]
        BY <1>1, <1>2, <4>2, <4>3 DEF TypeOK
      <4>5. QED
        BY <2>1, <2>2, <4>2, <4>4
    <3>3. QED
      BY <3>1, <3>2
  <2>5. QED
    BY <2>3, <2>4
<1>15. MostRecentAreKept'
  BY <1>8, <1>14 DEF MostRecentAreKept
<1>16. QED
  BY <1>8, <1>13, <1>15 DEF IInv

(* A new key: what is kept is the front of the list, and the keys of it.    *)
LEMMA InsertStep ==
  ASSUME IInv, NEW k \in Keys, NEW v \in Values, Insert(k, v)
  PROVE  IInv'
<1> DEFINE s == KeptNodes
           g == [i \in 1..Len(s) |-> i]
<1>1. /\ Remember(k, v) /\ k \notin DOMAIN map /\ result' = <<Node(k, v)>> \o s
      /\ map' = [j \in KeptKeys \cup {k} |-> IF j = k THEN now + 1 ELSE map[j]]
      /\ now' = now + 1 /\ used' = [used EXCEPT ![k] = now + 1]
      /\ last' = [last EXCEPT ![k] = v]
  BY DEF Insert, Remember
<1>2. TypeOK /\ result \in Seq(Elem) /\ now \in Nat /\ Len(result) \in Nat
      /\ CacheSize \in Nat /\ CacheSize > 0 /\ Len(result) <= CacheSize
  BY CacheAssumption DEF IInv, MapMatchesList, TypeOK, Elem
<1>3. /\ s \in Seq(Elem) /\ Len(s) = (IF Full THEN Len(result) - 1 ELSE Len(result))
      /\ \A i \in 1..Len(s) : i \in 1..Len(result) /\ s[i] = result[i]
  <2>1. CASE Full
    <3>1. s = Front(result) /\ Len(result) # 0
      BY <1>2, <2>1 DEF KeptNodes, Full
    <3>2. /\ Front(result) \in Seq(Elem) /\ Len(Front(result)) = Len(result) - 1
          /\ \A i \in 1..(Len(result) - 1) : Front(result)[i] = result[i]
      BY <1>2, <3>1, FrontEffect
    <3>3. QED
      BY <1>2, <2>1, <3>1, <3>2
  <2>2. CASE ~Full
    BY <1>2, <2>2 DEF KeptNodes
  <2>3. QED
    BY <2>1, <2>2
<1> HIDE DEF s
<1>4. Len(s) \in Nat /\ Len(s) < CacheSize
  BY <1>2, <1>3 DEF Full
<1>5. g \in [1..Len(s) -> 1..Len(result)] /\ \A i, j \in 1..Len(s) : i < j => g[i] < g[j]
  BY <1>3
<1>6. \A i \in 1..Len(result) : result[i].key \in DOMAIN map /\ result[i].key # k
  BY <1>1 DEF IInv, MapMatchesList, KeysOf
<1>7. \A i \in 1..Len(s) : s[i] = result[g[i]] /\ s[i].key # k
  BY <1>3, <1>6
<1>8. /\ result' \in Seq(Elem') /\ Len(result') = Len(s) + 1
      /\ result'[1] = Node(k, v)
      /\ \A i \in 1..Len(s) : result'[i + 1] = s[i]
      /\ KeysOf(result)' = KeysOf(s) \cup {k}
      /\ \A i, j \in 1..Len(result') : result'[i].key = result'[j].key => i = j
      /\ \A i, j \in 1..Len(result') : i < j => used'[result'[i].key] > used'[result'[j].key]
      /\ \A i \in 1..Len(result') : result'[i].value = last'[result'[i].key]
      /\ NodesAreUses'
  <2> HIDE DEF g
  <2>1. QED
    BY <1>1, <1>3, <1>5, <1>7, PutInFront
<1>9. KeptKeys = KeysOf(s)
  <2>1. CASE Full
    <3>1. Len(result) \in 1..Len(result) /\ Rear = result[Len(result)]
      BY <1>2, <2>1 DEF Full, Rear, Last
    <3>2. \A i \in 1..Len(result) : i = Len(result) <=> result[i].key = Rear.key
      BY <3>1 DEF IInv, MapMatchesList
    <3>3. \A i \in 1..Len(result) : i \in 1..Len(s) <=> i # Len(result)
      BY <1>2, <1>3, <2>1
    <3>4. KeysOf(s) = KeysOf(result) \ {Rear.key}
      BY <1>3, <3>2, <3>3 DEF KeysOf
    <3>5. QED
      BY <2>1, <3>4 DEF KeptKeys, IInv, MapMatchesList
  <2>2. CASE ~Full
    <3>1. s = result
      BY <2>2 DEF s, KeptNodes
    <3>2. QED
      BY <2>2, <3>1 DEF KeptKeys, IInv, MapMatchesList
  <2>3. QED
    BY <2>1, <2>2
<1>10. KeptKeys \subseteq DOMAIN map /\ DOMAIN map' = KeysOf(result)'
  <2>1. KeptKeys \subseteq DOMAIN map
    BY DEF KeptKeys
  <2>2. QED
    BY <1>1, <1>8, <1>9, <2>1
<1>11. ASSUME NEW i \in 1..Len(result') PROVE map'[result'[i].key] = result'[i].node
  <2>1. result'[i].key \in DOMAIN map'
    BY <1>10 DEF KeysOf
  <2>2. CASE i = 1
    BY <1>1, <1>8, <2>2 DEF Node
  <2>3. CASE i # 1
    <3>1. i - 1 \in 1..Len(s) /\ result'[i] = s[i - 1]
      BY <1>4, <1>8, <2>3
    <3>2. result'[i] = result[i - 1] /\ i - 1 \in 1..Len(result) /\ result'[i].key # k
      BY <1>3, <1>6, <3>1
    <3>3. map[result'[i].key] = result'[i].node
      BY <3>2 DEF IInv, MapMatchesList
    <3>4. QED
      BY <1>1, <2>1, <3>2, <3>3
  <2>4. QED
    BY <2>2, <2>3
<1>12. TypeOK'
  <2>1. \A j \in DOMAIN map' : j \in DOMAIN map \/ j = k
    BY <1>1, <1>10
  <2>2. \A j \in DOMAIN map' : map'[j] = now + 1 \/ (j \in DOMAIN map /\ map'[j] = map[j])
    BY <1>1, <2>1
  <2>3. DOMAIN map' \subseteq Keys /\ \A j \in DOMAIN map' : map'[j] \in 1..now'
    BY <1>1, <1>2, <2>1, <2>2 DEF TypeOK
  <2>4. used' \in [Keys -> 0..now'] /\ last' \in [Keys -> Values] /\ now' \in Nat
    BY <1>1, <1>2 DEF TypeOK
  <2>5. Len(result') <= CacheSize
    BY <1>2, <1>4, <1>8
  <2>6. result' \in Seq([node : 1..now, key : Keys, value : Values])'
    BY <1>8 DEF Elem
  <2>7. pending' \in Seq([key : Keys, value : Values]) /\ Len(pending') <= CacheSize
    <3> DEFINE P == [key : Keys, value : Values]
               t == IF Len(pending) = CacheSize THEN Front(pending) ELSE pending
               e == [key |-> k, value |-> v]
    <3>1. pending' = <<e>> \o t
      BY DEF Insert
    <3>2. pending \in Seq(P) /\ Len(pending) <= CacheSize /\ Len(pending) \in Nat /\ e \in P
      BY <1>2 DEF TypeOK
    <3> HIDE DEF P, e
    <3>3. t \in Seq(P) /\ Len(t) + 1 <= CacheSize
      <4>1. CASE Len(pending) = CacheSize
        <5>1. Front(pending) \in Seq(P) /\ Len(Front(pending)) = Len(pending) - 1
          BY <1>2, <3>2, <4>1, FrontEffect
        <5>2. QED
          BY <1>2, <4>1, <5>1
      <4>2. CASE Len(pending) # CacheSize
        BY <1>2, <3>2, <4>2
      <4>3. QED
        BY <4>1, <4>2
    <3> HIDE DEF t
    <3>4. <<e>> \o t \in Seq(P) /\ Len(<<e>> \o t) = Len(t) + 1
      BY <3>2, <3>3, PrependEffect
    <3>5. QED
      BY <3>1, <3>3, <3>4 DEF P
  <2>8. QED
    BY <2>3, <2>4, <2>5, <2>6, <2>7 DEF TypeOK
<1>13. MapMatchesList'
  BY <1>8, <1>10, <1>11, <1>12 DEF MapMatchesList
<1>14. ASSUME NEW j \in Keys, used'[j] > 0, j \notin KeysOf(result)'
       PROVE  Full' /\ \A i \in 1..Len(result') : used'[result'[i].key] > used'[j]
  <2>1. j # k /\ used'[j] = used[j] /\ used[j] \in 0..now /\ j \notin KeysOf(s)
    BY <1>1, <1>2, <1>8, <1>14 DEF TypeOK
  <2>2. Full /\ \A i \in 1..Len(s) : used[s[i].key] > used[j]
    <3>1. CASE j \notin KeysOf(result)
      <4>1. Full /\ \A i \in 1..Len(result) : used[result[i].key] > used[j]
        BY <1>14, <2>1, <3>1 DEF IInv, MostRecentAreKept
      <4>2. QED
        BY <1>3, <4>1
    <3>2. CASE j \in KeysOf(result)
      <4>1. PICK r \in 1..Len(result) : result[r].key = j
        BY <3>2 DEF KeysOf
      <4>2. r \notin 1..Len(s)
        BY <1>3, <2>1, <4>1 DEF KeysOf
      <4>3. Full /\ \A i \in 1..Len(s) : i < r
        BY <1>2, <1>3, <4>2
      <4>4. \A i \in 1..Len(s) : used[result[i].key] > used[result[r].key]
        BY <1>3, <4>3 DEF IInv, MostRecentAreKept
      <4>5. QED
        BY <1>3, <4>1, <4>3, <4>4
    <3>3. QED
      BY <3>1, <3>2
  <2>3. Full'
    BY <1>2, <1>3, <1>8, <2>2 DEF Full
  <2>4. ASSUME NEW i \in 1..Len(result') PROVE used'[result'[i].key] > used'[j]
    <3>1. CASE i = 1
      <4>1. result'[i].key = k /\ used'[k] = now + 1
        BY <1>1, <1>2, <1>8, <3>1 DEF Node, TypeOK
      <4>2. QED
        BY <1>2, <2>1, <4>1
    <3>2. CASE i # 1
      <4>1. i - 1 \in 1..Len(s) /\ result'[i] = s[i - 1]
        BY <1>4, <1>8, <3>2
      <4>2. result'[i].key # k /\ result'[i].key \in Keys
        BY <1>3, <1>7, <4>1, KeysOfElements
      <4>3. used'[result'[i].key] = used[result'[i].key]
        BY <1>1, <1>2, <4>2 DEF TypeOK
      <4>4. QED
        BY <2>1, <2>2, <4>1, <4>3
    <3>3. QED
      BY <3>1, <3>2
  <2>5. QED
    BY <2>3, <2>4
<1>15. MostRecentAreKept'
  BY <1>8, <1>14 DEF MostRecentAreKept
<1>16. QED
  BY <1>8, <1>13, <1>15 DEF IInv

LEMMA StutterStep == IInv /\ UNCHANGED vars => IInv'
<1> SUFFICES ASSUME IInv, UNCHANGED vars PROVE IInv'
  OBVIOUS
<1>1. /\ result' = result /\ map' = map /\ pending' = pending
      /\ now' = now /\ used' = used /\ last' = last
  BY DEF vars
<1>2. TypeOK'
  BY <1>1 DEF IInv, MapMatchesList, TypeOK
<1>3. MapMatchesList'
  BY <1>1, <1>2 DEF IInv, MapMatchesList, KeysOf
<1>4. MostRecentAreKept' /\ NodesAreUses'
  BY <1>1 DEF IInv, MostRecentAreKept, NodesAreUses, KeysOf, Full
<1>5. QED
  BY <1>3, <1>4 DEF IInv

LEMMA Invariance == Spec => []IInv
<1>1. IInv /\ [Next]_vars => IInv'
  <2> SUFFICES ASSUME IInv, [Next]_vars PROVE IInv'
    OBVIOUS
  <2>1. CASE Next
    <3>1. PICK k \in Keys, v \in Values : AddRecord(k, v)
      BY <2>1 DEF Next
    <3>2. QED
      BY <3>1, UpdateStep, InsertStep DEF AddRecord
  <2>2. CASE UNCHANGED vars
    BY <2>2, StutterStep
  <2>3. QED
    BY <2>1, <2>2
<1>2. QED
  BY <1>1, InitIInv, PTL DEF Spec

(* Whatever is added in whatever order, the map of LruCache has an iterator *)
(* for the keys of the list and no others, and none of them dangles.        *)
THEOREM MapAlwaysMatches == Spec => []MapMatchesList
<1>1. IInv => MapMatchesList
  BY DEF IInv
<1>2. QED
  BY <1>1, Invariance, PTL

(* The cache is the least recently used one: AddRecord drops the record     *)
(* whose key was added longest ago, and what stays has its last value.      *)
THEOREM RecentAlwaysKept == Spec => []MostRecentAreKept
<1>1. IInv => MostRecentAreKept
  BY DEF IInv
<1>2. QED
  BY <1>1, Invariance, PTL
=============================================================================
