------------------------------- MODULE XmlTree -------------------------------
(***************************************************************************)
(* The document tree of tinyxml2, in which RssParser finds the items of a  *)
(* feed: nodes linked by parent, child and sibling pointers, the list of   *)
(* nodes that are in no tree, and the counters of the pools they are       *)
(* allocated from.  A tree is a record d, every operation a function of it. *)
(***************************************************************************)
EXTENDS Integers, Sequences, FiniteSets, SequencesExt

CONSTANTS
  MaxNodes,    \* how many nodes can be allocated at once (bound)
  Names,       \* the names of elements
  AttrNames,   \* the names of attributes
  Null         \* the null pointer

ASSUME TreeAssumption ==
  /\ MaxNodes \in Nat
  /\ Null \notin Nat /\ Null \notin Names

Nodes == 1..MaxNodes
Doc == 0                      \* the XMLDocument, which is a node as well
Kinds == {"element", "text", "comment", "declaration", "unknown"}
PoolOf(kind) == IF kind \in {"element", "text"} THEN kind ELSE "comment"
Pools == {"element", "attribute", "text", "comment"}

NoPointer == [n \in Nodes \cup {Doc} |-> Null]
NoAllocs == [p \in Pools |-> 0]
EmptyTree ==
  [kind |-> [n \in Nodes |-> "free"], name |-> [n \in Nodes |-> Null],
   attrs |-> [n \in Nodes |-> <<>>],
   parent |-> NoPointer, prev |-> NoPointer, next |-> NoPointer,
   first |-> NoPointer, last |-> NoPointer,
   unlinked |-> <<>>, allocs |-> NoAllocs, untracked |-> NoAllocs]

Pointers == [Nodes \cup {Doc} -> Nodes \cup {Doc, Null}]
Trees ==
  [kind : [Nodes -> Kinds \cup {"free"}], name : [Nodes -> Names \cup {Null}],
   attrs : [Nodes -> Seq(AttrNames)],
   parent : Pointers, prev : Pointers, next : Pointers, first : Pointers, last : Pointers,
   unlinked : Seq(Nodes), allocs : [Pools -> Nat], untracked : [Pools -> Nat]]

Free(d) == {n \in Nodes : d.kind[n] = "free"}
Fresh(d) == CHOOSE n \in Free(d) : \A m \in Free(d) : n <= m
Alone(d, n) == d.parent[n] = Null
-----------------------------------------------------------------------------
(* Nodes that are in no tree.                                              *)
Alloc(d, pool) ==
  [d EXCEPT !.allocs[pool] = @ + 1, !.untracked[pool] = @ + 1]

CreateUnlinkedNode(d, kind, name) ==
  [Alloc(d, PoolOf(kind)) EXCEPT
     !.kind[Fresh(d)] = kind, !.name[Fresh(d)] = name,
     !.unlinked = Append(@, Fresh(d))]

SwapRemove(s, i) == [j \in 1..(Len(s) - 1) |-> IF j = i THEN Last(s) ELSE s[j]]

MarkInUse(d, n) ==
  IF n \in Range(d.unlinked)
  THEN [d EXCEPT !.unlinked =
          SwapRemove(@, CHOOSE i \in DOMAIN @ : @[i] = n)]
  ELSE d

SetTracked(d, n) == [d EXCEPT !.untracked[PoolOf(d.kind[n])] = @ - 1]
-----------------------------------------------------------------------------
(* Linking and unlinking.                                                  *)
(* Mutant: _lastChild keeps pointing to the node taken out.                 *)
UnlinkNotLast(d, c) ==
  LET p == d.parent[c]  b == d.prev[c]  a == d.next[c] IN
  [d EXCEPT
     !.first[p] = IF @ = c THEN a ELSE @,
     !.next = [n \in DOMAIN @ |-> IF n = c THEN Null ELSE IF n = b THEN a ELSE @[n]],
     !.prev = [n \in DOMAIN @ |-> IF n = c THEN Null ELSE IF n = a THEN b ELSE @[n]],
     !.parent[c] = Null]

Unlink(d, c) ==
  LET p == d.parent[c]  b == d.prev[c]  a == d.next[c] IN
  [d EXCEPT
     !.first[p] = IF @ = c THEN a ELSE @,
     !.last[p] = IF @ = c THEN b ELSE @,
     !.next = [n \in DOMAIN @ |-> IF n = c THEN Null ELSE IF n = b THEN a ELSE @[n]],
     !.prev = [n \in DOMAIN @ |-> IF n = c THEN Null ELSE IF n = a THEN b ELSE @[n]],
     !.parent[c] = Null]

InsertChildPreamble(d, c) ==
  IF Alone(d, c) THEN SetTracked(MarkInUse(d, c), c) ELSE Unlink(d, c)

(* c becomes a child of p between b and a, each of which may be null.      *)
LinkBetween(d, p, b, c, a) ==
  [d EXCEPT
     !.parent[c] = p,
     !.first[p] = IF b = Null THEN c ELSE @,
     !.last[p] = IF a = Null THEN c ELSE @,
     !.next = [n \in DOMAIN @ |-> IF n = b THEN c ELSE IF n = c THEN a ELSE @[n]],
     !.prev = [n \in DOMAIN @ |-> IF n = a THEN c ELSE IF n = c THEN b ELSE @[n]]]

InsertEndChild(d, p, c) ==
  LET e == InsertChildPreamble(d, c) IN LinkBetween(e, p, e.last[p], c, Null)

InsertFirstChild(d, p, c) ==
  LET e == InsertChildPreamble(d, c) IN LinkBetween(e, p, Null, c, e.first[p])

(* The test for the last child is made before the preamble takes c out, so  *)
(* that the pointer followed next is null when c was the one child after b. *)
InsertAfterFaults(d, b, c) ==
  /\ b # c /\ d.next[b] # Null
  /\ InsertChildPreamble(d, c).next[b] = Null

InsertAfterChild(d, p, b, c) ==
  IF b = c THEN d
  ELSE IF d.next[b] = Null THEN InsertEndChild(d, p, c)
  ELSE LET e == InsertChildPreamble(d, c) IN LinkBetween(e, p, b, c, e.next[b])
-----------------------------------------------------------------------------
(* Deleting.                                                               *)
WithChildren(d, S) == S \cup {m \in Nodes : d.parent[m] \in S}
Subtree(d, n) ==
  LET below[k \in 0..MaxNodes] ==
        IF k = 0 THEN {n} ELSE WithChildren(d, below[k - 1])
  IN below[MaxNodes]

OfPool(d, S, pool) == {n \in S : PoolOf(d.kind[n]) = pool}
Attributes(d, S) == UNION {{n} \X DOMAIN d.attrs[n] : n \in S}

(* ~XMLNode and ~XMLElement of every node of S, and Free of their memory.  *)
Release(d, S) ==
  LET Kept(f) == [n \in DOMAIN f |-> IF n \in S THEN Null ELSE f[n]]
  IN [d EXCEPT
        !.kind = [n \in Nodes |-> IF n \in S THEN "free" ELSE @[n]],
        !.attrs = [n \in Nodes |-> IF n \in S THEN <<>> ELSE @[n]],
        !.name = Kept(@), !.parent = Kept(@), !.prev = Kept(@), !.next = Kept(@),
        !.first = Kept(@), !.last = Kept(@),
        !.allocs = [p \in Pools |->
           @[p] - Cardinality(IF p = "attribute" THEN Attributes(d, S)
                              ELSE OfPool(d, S, p))]]

(* XMLNode::DeleteNode, of a node that has no parent.                      *)
DeleteAlone(d, n) == Release(MarkInUse(d, n), Subtree(d, n))
DeleteChild(d, n) == DeleteAlone(Unlink(d, n), n)
DeleteChildren(d, p) ==
  [Release(d, Subtree(d, p) \ {p}) EXCEPT !.first[p] = Null, !.last[p] = Null]

(* XMLDocument::DeleteNode.                                                *)
DeleteNode(d, n) ==
  IF Alone(d, n) THEN DeleteAlone(SetTracked(d, n), n) ELSE DeleteChild(d, n)

(* XMLDocument::Clear, without the error and the buffer.                   *)
Clear(d) ==
  LET e == DeleteChildren(d, Doc)
      cleared[k \in 0..Len(e.unlinked)] ==
        IF k = 0 THEN e ELSE DeleteNode(cleared[k - 1], cleared[k - 1].unlinked[1])
  IN cleared[Len(e.unlinked)]

ClearPools(d) == [d EXCEPT !.allocs = NoAllocs, !.untracked = NoAllocs]
-----------------------------------------------------------------------------
(* Navigation.                                                             *)
(* What is met from a node on, by a loop that ends at the null pointer: the  *)
(* nodes so far, and the next one, if there is one.                         *)
WithNext(begin, step, s) ==
  LET n == IF s = <<>> THEN begin ELSE step[Last(s)]
  IN IF n = Null THEN s ELSE Append(s, n)
Follow(begin, step) ==
  LET met[k \in 0..MaxNodes] ==
        IF k = 0 THEN <<>> ELSE WithNext(begin, step, met[k - 1])
  IN met[MaxNodes]

Children(d, p) == Follow(d.first[p], d.next)

IsElement(d, n, name) == d.kind[n] = "element" /\ d.name[n] = name

(* A search ends at an element of the name, or at the null pointer.         *)
Onwards(d, step, name, n) ==
  IF n = Null \/ IsElement(d, n, name) THEN n ELSE step[n]
NextElementFrom(d, step, n, name) ==
  LET at[k \in 0..MaxNodes] ==
        IF k = 0 THEN n ELSE Onwards(d, step, name, at[k - 1])
  IN at[MaxNodes]

FirstChildElement(d, p, name) == NextElementFrom(d, d.next, d.first[p], name)
LastChildElement(d, p, name) == NextElementFrom(d, d.prev, d.last[p], name)
(* Mutant: the search begins with the node it starts from.                  *)
NextSiblingElementSame(d, n, name) == NextElementFrom(d, d.next, n, name)
NextSiblingElement(d, n, name) == NextElementFrom(d, d.next, d.next[n], name)
PreviousSiblingElement(d, n, name) == NextElementFrom(d, d.prev, d.prev[n], name)
=============================================================================
