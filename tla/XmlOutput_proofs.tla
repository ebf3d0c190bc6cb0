-------------------------- MODULE XmlOutput_proofs --------------------------
(***************************************************************************)
(* Proofs about what comes out of an XmlDocument, on top of the invariant  *)
(* that XmlDocument_proofs has of its tree.  XmlPrinter writes the tree,   *)
(* for any tree and either mode: the invariant has the way from the        *)
(* document to the node that is visited, what was written before each      *)
(* node on it, and how many elements the output has open.  XmlText decodes *)
(* texts of any bytes: the invariant has what every rest of a text stands  *)
(* for.                                                                    *)
(***************************************************************************)
EXTENDS XmlDocument_proofs

(* What the children before a node are written as.                          *)
Sums(d, item, n) ==
  CHOOSE g : /\ Flat([i \in DOMAIN Children(d, n) |-> item[Children(d, n)[i]]],
                     Len(Children(d, n)), g)
             /\ Inner(d, item, n) = g[Len(Children(d, n))]
Rank(d, m) ==
  CHOOSE i \in DOMAIN Children(d, d.parent[m]) : Children(d, d.parent[m])[i] = m
Earlier(d, item, m) == Sums(d, item, d.parent[m])[Rank(d, m) - 1]

(* g sums up what the children s of n are written as.                       *)
Summed(d, item, n, s, k, g) ==
  /\ Chain(d, n, s, k) /\ Children(d, n) = s
  /\ g[0] = <<>> /\ (\A i \in 1..k : g[i] = Then(g[i - 1], item[s[i]]))
  /\ Inner(d, item, n) = g[k]
  /\ \A i \in 1..k : Earlier(d, item, s[i]) = g[i - 1]

LEMMA SumsAre ==
  ASSUME NEW d, Shape(d), NEW V, NEW item \in [Nodes -> Seq(V)], NEW n \in Joints
  PROVE  \E k \in Nat : \E s \in [1..k -> Nodes] : \E g \in [0..k -> Seq(V)] :
           Summed(d, item, n, s, k, g)
<1>1. PICK k \in Nat : \E s \in [1..k -> Nodes] : Chain(d, n, s, k)
  BY DEF Shape, Chained
<1>2. PICK s \in [1..k -> Nodes] : Chain(d, n, s, k)
  BY <1>1
<1>3. Children(d, n) = s
  BY <1>2, ChildrenAre
<1>4. s \in Seq(Nodes) /\ Len(s) = k /\ DOMAIN s = 1..k
  BY ONLY k \in Nat, s \in [1..k -> Nodes]
<1>5. PICK ss : ss = [i \in 1..k |-> item[s[i]]]
  OBVIOUS
<1>6. ss \in [1..k -> Seq(V)]
  BY <1>5
<1>7. ss \in Seq(Seq(V)) /\ Len(ss) = k
  BY ONLY <1>6, k \in Nat
<1>8. PICK f \in [0..k -> Seq(V)] : Flat(ss, k, f) /\ FlattenSeq(ss) = f[k]
  BY <1>7, FlattenSeqIs
<1>9. Inner(d, item, n) = f[k]
  BY <1>3, <1>4, <1>5, <1>8 DEF Inner
<1>10. PICK g : g = Sums(d, item, n)
  OBVIOUS
<1>11. Flat(ss, k, g) /\ Inner(d, item, n) = g[k]
  <2>1. [i \in DOMAIN Children(d, n) |-> item[Children(d, n)[i]]] = ss
    BY <1>3, <1>4, <1>5
  <2>2. Len(Children(d, n)) = k
    BY <1>3, <1>4
  <2>3. g = CHOOSE e : Flat(ss, k, e) /\ Inner(d, item, n) = e[k]
    BY <1>10, <2>1, <2>2 DEF Sums
  <2>4. \E e : Flat(ss, k, e) /\ Inner(d, item, n) = e[k]
    BY <1>8, <1>9
  <2>5. QED
    BY <2>3, <2>4, Zenon
<1>12. PICK h : h = [i \in 0..k |-> g[i]]
  OBVIOUS
<1>13. \A i \in 0..k : h[i] = f[i]
  <2> DEFINE S == {i \in Nat : i <= k => g[i] = f[i]}
  <2>1. 0 \in S
    BY <1>8, <1>11 DEF Flat
  <2>2. ASSUME NEW i \in Nat, i \in S PROVE i + 1 \in S
    <3> SUFFICES ASSUME i + 1 <= k PROVE g[i + 1] = f[i + 1]
      OBVIOUS
    <3>1. i + 1 \in 1..k /\ (i + 1) - 1 = i /\ i <= k
      OBVIOUS
    <3>2. g[i] = f[i]
      BY <2>2, <3>1
    <3>3. g[i + 1] = g[i] \o ss[i + 1] /\ f[i + 1] = f[i] \o ss[i + 1]
      BY <1>8, <1>11, <3>1 DEF Flat
    <3>4. QED
      BY <3>2, <3>3
  <2> HIDE DEF S
  <2>3. Nat \subseteq S
    BY <2>1, <2>2, AllNaturals
  <2> USE DEF S
  <2>4. QED
    BY <1>12, <2>3
<1>14. h \in [0..k -> Seq(V)]
  BY <1>8, <1>12, <1>13
<1>15. ASSUME NEW i \in 1..k PROVE Earlier(d, item, s[i]) = h[i - 1]
  <2>1. s[i] \in Nodes /\ d.parent[s[i]] = n
    BY <1>2 DEF Chain
  <2>2. Rank(d, s[i]) = CHOOSE j \in 1..k : s[j] = s[i]
    BY <1>3, <1>4, <2>1 DEF Rank
  <2>3. Rank(d, s[i]) \in 1..k /\ s[Rank(d, s[i])] = s[i]
    <3>1. \E j \in 1..k : s[j] = s[i]
      OBVIOUS
    <3>2. QED
      BY <2>2, <3>1, Zenon
  <2>4. Rank(d, s[i]) = i
    BY <1>2, <2>3 DEF Chain
  <2>5. i - 1 \in 0..k
    OBVIOUS
  <2>6. QED
    BY <1>10, <1>12, <2>1, <2>4, <2>5 DEF Earlier
<1>16. ASSUME NEW i \in 1..k PROVE h[i] = Then(h[i - 1], item[s[i]])
  <2>1. i \in 0..k /\ i - 1 \in 0..k
    OBVIOUS
  <2>2. f[i] = f[i - 1] \o ss[i] /\ ss[i] = item[s[i]]
    BY <1>5, <1>8 DEF Flat
  <2>3. QED
    BY <1>13, <2>1, <2>2 DEF Then
<1>17. h[0] = <<>> /\ Inner(d, item, n) = h[k]
  <2>1. 0 \in 0..k /\ k \in 0..k
    OBVIOUS
  <2>2. QED
    BY <1>8, <1>9, <1>13, <2>1 DEF Flat
<1>18. Summed(d, item, n, s, k, h)
  BY <1>2, <1>3, <1>15, <1>16, <1>17 DEF Summed
<1>19. QED
  BY <1>14, <1>18

(* What is written before, at and after a child.                            *)
LEMMA EarlierIs ==
  ASSUME NEW d, Shape(d), NEW V, NEW item \in [Nodes -> Seq(V)], NEW n \in Joints
  PROVE  /\ d.first[n] = Null => Inner(d, item, n) = <<>>
         /\ d.first[n] # Null =>
              /\ d.first[n] \in Nodes /\ d.parent[d.first[n]] = n
              /\ Earlier(d, item, d.first[n]) = <<>>
         /\ \A m \in Nodes : d.parent[m] = n =>
              /\ Earlier(d, item, m) \in Seq(V)
              /\ d.next[m] # Null =>
                   /\ d.next[m] \in Nodes /\ d.parent[d.next[m]] = n
                   /\ Earlier(d, item, d.next[m]) = Then(Earlier(d, item, m), item[m])
              /\ d.next[m] = Null => Inner(d, item, n) = Then(Earlier(d, item, m), item[m])
<1>1. PICK k \in Nat : \E s \in [1..k -> Nodes] : \E g \in [0..k -> Seq(V)] :
           Summed(d, item, n, s, k, g)
  BY SumsAre
<1>2. PICK s \in [1..k -> Nodes] : \E g \in [0..k -> Seq(V)] : Summed(d, item, n, s, k, g)
  BY <1>1
<1>3. PICK g \in [0..k -> Seq(V)] : Summed(d, item, n, s, k, g)
  BY <1>2
<1>4. /\ d.first[n] = IF k = 0 THEN Null ELSE s[1]
      /\ \A m \in Nodes : d.parent[m] = n <=> \E i \in 1..k : s[i] = m
      /\ \A i \in 1..k : d.next[s[i]] = IF i = k THEN Null ELSE s[i + 1]
  BY <1>3 DEF Summed, Chain
<1>5. /\ g[0] = <<>> /\ (\A i \in 1..k : g[i] = Then(g[i - 1], item[s[i]]))
      /\ Inner(d, item, n) = g[k]
      /\ \A i \in 1..k : Earlier(d, item, s[i]) = g[i - 1]
  BY <1>3 DEF Summed
<1>6. Null \notin Nodes
  BY JointsAre DEF Joints
<1>7. ASSUME k # 0
      PROVE  /\ d.first[n] \in Nodes /\ d.parent[d.first[n]] = n
             /\ Earlier(d, item, d.first[n]) = <<>>
  <2>1. 1 \in 1..k /\ 1 - 1 = 0
    BY <1>7
  <2>2. d.first[n] = s[1] /\ s[1] \in Nodes
    BY <1>4, <1>7, <2>1
  <2>3. QED
    BY <1>4, <1>5, <2>1, <2>2
<1>8. ASSUME NEW m \in Nodes, d.parent[m] = n
      PROVE  /\ Earlier(d, item, m) \in Seq(V)
             /\ d.next[m] # Null =>
                  /\ d.next[m] \in Nodes /\ d.parent[d.next[m]] = n
                  /\ Earlier(d, item, d.next[m]) = Then(Earlier(d, item, m), item[m])
             /\ d.next[m] = Null => Inner(d, item, n) = Then(Earlier(d, item, m), item[m])
  <2>1. PICK i \in 1..k : s[i] = m
    BY <1>4, <1>8
  <2>2. i - 1 \in 0..k /\ i \in Nat
    OBVIOUS
  <2>3. Earlier(d, item, m) = g[i - 1] /\ Earlier(d, item, m) \in Seq(V)
    BY <1>5, <2>1, <2>2
  <2>4. g[i] = Then(Earlier(d, item, m), item[m])
    BY <1>5, <2>1, <2>3
  <2>5. CASE i = k
    <3>1. d.next[m] = Null
      BY <1>4, <2>1, <2>5
    <3>2. QED
      BY <1>5, <2>3, <2>4, <2>5, <3>1
  <2>6. CASE i # k
    <3>1. i + 1 \in 1..k /\ (i + 1) - 1 = i
      BY <2>2, <2>6
    <3>2. d.next[m] = s[i + 1] /\ s[i + 1] \in Nodes
      BY <1>4, <2>1, <2>6, <3>1
    <3>3. Earlier(d, item, s[i + 1]) = g[i]
      BY <1>5, <3>1
    <3>4. d.parent[s[i + 1]] = n
      BY <1>4, <3>1, <3>2
    <3>5. QED
      BY <1>6, <2>3, <2>4, <3>2, <3>3, <3>4
  <2>7. QED
    BY <2>5, <2>6
<1>9. k = 0 => d.first[n] = Null /\ Inner(d, item, n) = <<>>
  BY <1>4, <1>5
<1>10. QED
  BY <1>6, <1>7, <1>8, <1>9

-----------------------------------------------------------------------------
(* What a printer writes, without its white space.                          *)
Prints ==
  ({"<", "</", "attribute", "space", ">", "/>", "free"} \cup Kinds)
    \X (Names \cup AttrNames \cup {Null})
Space == Plain("space")
Without(y) == IF y = Space THEN <<>> ELSE <<y>>

LEMMA WithoutIs ==
  ASSUME NEW a \in Seq(Prints)
  PROVE  \E ss \in Seq(Seq(Prints)) :
           /\ Len(ss) = Len(a) /\ DOMAIN ss = 1..Len(a)
           /\ \A i \in 1..Len(a) : ss[i] = Without(a[i])
           /\ Unspaced(a) = FlattenSeq(ss)
<1>1. PICK k \in Nat : k = Len(a) /\ DOMAIN a = 1..k
  BY LenProperties
<1>2. PICK ss : ss = [i \in 1..k |-> Without(a[i])]
  OBVIOUS
<1>3. \A i \in 1..k : a[i] \in Prints
  BY <1>1, ElementOfSeq
<1>4. \A y \in Prints : Without(y) \in Seq(Prints)
  <2>1. \A y \in Prints : <<y>> \in Seq(Prints)
    OBVIOUS
  <2>2. <<>> \in Seq(Prints)
    BY EmptySeq
  <2>3. QED
    BY <2>1, <2>2 DEF Without
<1>5. ss \in [1..k -> Seq(Prints)]
  BY <1>2, <1>3, <1>4
<1>6. ss \in Seq(Seq(Prints)) /\ Len(ss) = k /\ DOMAIN ss = 1..k
  BY ONLY <1>5, k \in Nat
<1>7. [i \in DOMAIN a |-> IF a[i] = Plain("space") THEN <<>> ELSE <<a[i]>>] = ss
  BY <1>1, <1>2 DEF Without, Space
<1>8. Unspaced(a) = FlattenSeq(ss)
  BY <1>7 DEF Unspaced
<1>9. QED
  BY <1>1, <1>2, <1>6, <1>8

LEMMA UnspacedType ==
  ASSUME NEW a \in Seq(Prints) PROVE Unspaced(a) \in Seq(Prints)
BY WithoutIs, FlattenSeqType

LEMMA UnspacedJoin ==
  ASSUME NEW a \in Seq(Prints), NEW b \in Seq(Prints)
  PROVE  Unspaced(a \o b) = Then(Unspaced(a), Unspaced(b))
<1>1. PICK s \in Seq(Seq(Prints)) :
           /\ Len(s) = Len(a) /\ DOMAIN s = 1..Len(a)
           /\ \A i \in 1..Len(a) : s[i] = Without(a[i])
           /\ Unspaced(a) = FlattenSeq(s)
  BY WithoutIs
<1>2. PICK t \in Seq(Seq(Prints)) :
           /\ Len(t) = Len(b) /\ DOMAIN t = 1..Len(b)
           /\ \A i \in 1..Len(b) : t[i] = Without(b[i])
           /\ Unspaced(b) = FlattenSeq(t)
  BY WithoutIs
<1>3. PICK ab : ab = a \o b
  OBVIOUS
<1>4. PICK m \in Nat, n \in Nat : m = Len(a) /\ n = Len(b)
  BY LenProperties
<1>5. /\ ab \in Seq(Prints) /\ Len(ab) = m + n
      /\ \A i \in 1..(m + n) : ab[i] = IF i <= m THEN a[i] ELSE b[i - m]
  BY <1>3, <1>4, ConcatProperties
<1>6. PICK st \in Seq(Seq(Prints)) :
           /\ Len(st) = Len(ab) /\ DOMAIN st = 1..Len(ab)
           /\ \A i \in 1..Len(ab) : st[i] = Without(ab[i])
           /\ Unspaced(ab) = FlattenSeq(st)
  BY <1>5, WithoutIs
<1>7. PICK u : u = s \o t
  OBVIOUS
<1>8. /\ u \in Seq(Seq(Prints)) /\ Len(u) = m + n
      /\ \A i \in 1..(m + n) : u[i] = IF i <= m THEN s[i] ELSE t[i - m]
  <2>1. PICK V : V = Seq(Prints)
    OBVIOUS
  <2>2. s \in Seq(V) /\ t \in Seq(V) /\ Len(s) = m /\ Len(t) = n
    BY <1>1, <1>2, <1>4, <2>1
  <2>3. /\ u \in Seq(V) /\ Len(u) = m + n
        /\ \A i \in 1..(m + n) : u[i] = IF i <= m THEN s[i] ELSE t[i - m]
    BY ONLY <1>7, <2>2, m \in Nat, n \in Nat, ConcatProperties
  <2>4. QED
    BY <2>1, <2>3
<1>9. st = u
  <2>1. \A i \in 1..(m + n) : st[i] = u[i]
    <3> SUFFICES ASSUME NEW i \in 1..(m + n) PROVE st[i] = u[i]
      OBVIOUS
    <3>1. st[i] = Without(ab[i])
      BY <1>5, <1>6
    <3>2. CASE i <= m
      <4>1. i \in 1..m
        BY <3>2
      <4>2. ab[i] = a[i] /\ u[i] = s[i] /\ s[i] = Without(a[i])
        BY <1>1, <1>4, <1>5, <1>8, <3>2, <4>1
      <4>3. QED
        BY <3>1, <4>2
    <3>3. CASE ~(i <= m)
      <4>1. i - m \in 1..n
        BY <3>3
      <4>2. ab[i] = b[i - m] /\ u[i] = t[i - m] /\ t[i - m] = Without(b[i - m])
        BY <1>2, <1>4, <1>5, <1>8, <3>3, <4>1
      <4>3. QED
        BY <3>1, <4>2
    <3>4. QED
      BY <3>2, <3>3
  <2>2. st = [i \in 1..(m + n) |-> st[i]] /\ u = [i \in 1..(m + n) |-> u[i]]
    BY <1>5, <1>6, <1>8, LenProperties
  <2>3. QED
    BY <2>1, <2>2
<1>10. FlattenSeq(u) = FlattenSeq(s) \o FlattenSeq(t)
  BY <1>7, FlattenSeqConcat
<1>11. QED
  BY <1>1, <1>2, <1>3, <1>6, <1>9, <1>10 DEF Then

Unbroken(y) == \A i \in 1..Len(y) : y[i] # Space

LEMMA UnspacedPlain ==
  ASSUME NEW y \in Seq(Prints), Unbroken(y) PROVE Unspaced(y) = y
<1>1. PICK ss \in Seq(Seq(Prints)) :
           /\ Len(ss) = Len(y) /\ DOMAIN ss = 1..Len(y)
           /\ \A i \in 1..Len(y) : ss[i] = Without(y[i])
           /\ Unspaced(y) = FlattenSeq(ss)
  BY WithoutIs
<1>2. PICK k \in Nat : k = Len(y) /\ y = [i \in 1..k |-> y[i]] /\ \A i \in 1..k : y[i] \in Prints
  <2>1. Len(y) \in Nat /\ y = [i \in 1..Len(y) |-> y[i]]
    BY LenProperties
  <2>2. \A i \in 1..Len(y) : y[i] \in Prints
    BY ElementOfSeq
  <2>3. QED
    BY <2>1, <2>2
<1>3. PICK f \in [0..k -> Seq(Prints)] : Flat(ss, k, f) /\ FlattenSeq(ss) = f[k]
  BY <1>1, <1>2, FlattenSeqIs
<1>4. \A i \in 1..k : f[i] = f[i - 1] \o <<y[i]>>
  BY <1>1, <1>2, <1>3 DEF Flat, Without, Unbroken
<1> DEFINE S == {j \in Nat : j <= k => f[j] = [i \in 1..j |-> y[i]]}
<1>5. 0 \in S
  <2>1. f[0] = <<>>
    BY <1>3 DEF Flat
  <2>2. [i \in 1..0 |-> y[i]] = <<>>
    <3>1. PICK z : z = [i \in 1..0 |-> y[i]]
      OBVIOUS
    <3>2. z \in Seq(Prints) /\ Len(z) = 0
      BY ONLY <3>1
    <3>3. QED
      BY <3>1, <3>2, EmptySeq
  <2>3. QED
    BY <2>1, <2>2
<1>6. ASSUME NEW j \in Nat, j \in S PROVE j + 1 \in S
  <2> SUFFICES ASSUME j + 1 <= k PROVE f[j + 1] = [i \in 1..(j + 1) |-> y[i]]
    OBVIOUS
  <2>1. j <= k /\ j + 1 \in 1..k /\ (j + 1) - 1 = j
    OBVIOUS
  <2>2. PICK z : z = [i \in 1..j |-> y[i]]
    OBVIOUS
  <2>3. z \in [1..j -> Prints]
    BY <1>2, <2>1, <2>2
  <2>4. z \in Seq(Prints) /\ Len(z) = j
    BY ONLY <2>3, j \in Nat
  <2>5. PICK x \in Prints : x = y[j + 1]
    BY <1>2, <2>1
  <2>6. f[j + 1] = Append(z, x)
    <3>1. f[j] = z
      BY <1>6, <2>1, <2>2
    <3>2. Append(z, x) = z \o <<x>>
      BY <2>4, AppendIsConcat
    <3>3. QED
      BY <1>4, <2>1, <2>5, <3>1, <3>2
  <2>7. PICK w : w = Append(z, x)
    OBVIOUS
  <2>8. w \in Seq(Prints) /\ Len(w) = j + 1 /\ w[j + 1] = x /\ \A i \in 1..j : w[i] = z[i]
    BY <2>4, <2>7, AppendProperties
  <2>9. w = [i \in 1..(j + 1) |-> w[i]]
    BY <2>8, LenProperties
  <2>10. \A i \in 1..(j + 1) : w[i] = y[i]
    <3>1. \A i \in 1..(j + 1) : i \in 1..j \/ i = j + 1
      OBVIOUS
    <3>2. QED
      BY <2>2, <2>5, <2>8, <3>1
  <2>11. QED
    BY <2>6, <2>7, <2>9, <2>10
<1>7. k \in S
  <2> HIDE DEF S
  <2> QED
    BY <1>5, <1>6, AllNaturals
<1>8. QED
  BY <1>1, <1>2, <1>3, <1>7

LEMMA UnspacedSpace == Unspaced(<<>>) = <<>> /\ Unspaced(<<Space>>) = <<>>
<1>1. Unspaced(<<>>) = <<>>
  <2>1. PICK y : y = <<>>
    OBVIOUS
  <2>2. y \in Seq(Prints) /\ Len(y) = 0
    BY <2>1, EmptySeq
  <2>3. Unbroken(y)
    BY <2>2 DEF Unbroken
  <2>4. QED
    BY <2>1, <2>2, <2>3, UnspacedPlain
<1>2. Unspaced(<<Space>>) = <<>>
  <2>1. PICK y : y = <<Space>>
    OBVIOUS
  <2>2. PICK e \in Seq(Prints) : e = <<>>
    BY EmptySeq
  <2>3. [i \in DOMAIN y |-> IF y[i] = Plain("space") THEN <<>> ELSE <<y[i]>>] = <<e>>
    BY <2>1, <2>2 DEF Space
  <2>4. FlattenSeq(<<e>>) = e
    BY FlattenSeqOne
  <2>5. QED
    BY <2>1, <2>2, <2>3, <2>4 DEF Unspaced
<1>3. QED
  BY <1>1, <1>2

-----------------------------------------------------------------------------
(* What the tree is written as by a printer.                                *)
Openings(d) == [n \in Nodes |-> OpeningOf(d, n)]
Closings(d) == [n \in Nodes |-> ClosingOf(d, n)]
Output(d) == Items(d, Openings(d), Closings(d))
Within(d, n) == Inner(d, Output(d), n)

Tag(d, n) ==
  << <<"<", d.name[n]>> >> \o [i \in DOMAIN d.attrs[n] |-> <<"attribute", d.attrs[n][i]>>]

LEMMA PrintIs ==
  ASSUME NEW what \in {"<", "</", "attribute", "space", ">", "/>", "free"} \cup Kinds,
         NEW x \in Names \cup AttrNames \cup {Null}
  PROVE  /\ <<what, x>> \in Prints
         /\ what # "space" => <<what, x>> # Space
<1>1. <<what, x>>[1] = what /\ Space[1] = "space"
  BY DEF Space, Plain
<1>2. QED
  BY <1>1 DEF Prints

LEMMA OneUnbroken ==
  ASSUME NEW y \in Prints, y # Space
  PROVE  <<y>> \in Seq(Prints) /\ Unbroken(<<y>>)
<1>1. PICK a : a = <<y>>
  OBVIOUS
<1>2. a \in Seq(Prints) /\ Len(a) = 1 /\ a[1] = y
  BY ONLY y \in Prints, <1>1
<1>3. \A i \in 1..1 : i = 1
  OBVIOUS
<1>4. QED
  BY <1>1, <1>2, <1>3 DEF Unbroken

LEMMA NoneUnbroken == <<>> \in Seq(Prints) /\ Unbroken(<<>>)
<1>1. PICK a \in Seq(Prints) : a = <<>> /\ Len(a) = 0
  BY EmptySeq
<1>2. QED
  BY <1>1 DEF Unbroken

LEMMA ThenUnbroken ==
  ASSUME NEW a \in Seq(Prints), NEW b \in Seq(Prints), Unbroken(a), Unbroken(b)
  PROVE  Then(a, b) \in Seq(Prints) /\ Unbroken(Then(a, b))
<1>1. PICK m \in Nat, n \in Nat : m = Len(a) /\ n = Len(b)
  BY LenProperties
<1>2. PICK z : z = a \o b
  OBVIOUS
<1>3. /\ z \in Seq(Prints) /\ Len(z) = m + n
      /\ \A i \in 1..(m + n) : z[i] = IF i <= m THEN a[i] ELSE b[i - m]
  BY <1>1, <1>2, ConcatProperties
<1>4. \A i \in 1..m : a[i] # Space
  BY <1>1 DEF Unbroken
<1>5. \A i \in 1..n : b[i] # Space
  BY <1>1 DEF Unbroken
<1>6. \A i \in 1..(m + n) : z[i] # Space
  <2> SUFFICES ASSUME NEW i \in 1..(m + n) PROVE z[i] # Space
    OBVIOUS
  <2>1. i <= m => i \in 1..m
    OBVIOUS
  <2>2. ~(i <= m) => i - m \in 1..n
    OBVIOUS
  <2>3. QED
    BY <1>3, <1>4, <1>5, <2>1, <2>2
<1>7. QED
  BY <1>2, <1>3, <1>6 DEF Then, Unbroken

(* The two parts of a start tag.                                            *)
LEMMA TagIs ==
  ASSUME NEW d, Shape(d), NEW n \in Nodes
  PROVE  \E a, b \in Seq(Prints) :
           /\ a = << <<"<", d.name[n]>> >>
           /\ b = [i \in DOMAIN d.attrs[n] |-> <<"attribute", d.attrs[n][i]>>]
           /\ Unbroken(a) /\ Unbroken(b)
           /\ Tag(d, n) = Then(a, b) /\ Tag(d, n) \in Seq(Prints) /\ Unbroken(Tag(d, n))
           /\ \A i \in 1..Len(b) : b[i][1] = "attribute"
<1>1. Typed(d)
  BY TreeMeans DEF Shape
<1>2. d.name[n] \in Names \cup {Null} /\ d.attrs[n] \in Seq(AttrNames)
  BY <1>1 DEF Typed
<1>3. PICK k \in Nat : k = Len(d.attrs[n]) /\ DOMAIN d.attrs[n] = 1..k
  BY <1>2, LenProperties
<1>4. \A i \in 1..k : d.attrs[n][i] \in AttrNames
  BY <1>2, <1>3, ElementOfSeq
<1>5. PICK b : b = [i \in 1..k |-> <<"attribute", d.attrs[n][i]>>]
  OBVIOUS
<1>6. b \in [1..k -> Prints] /\ \A i \in 1..k : b[i] # Space /\ b[i][1] = "attribute"
  <2>1. \A i \in 1..k : b[i] = <<"attribute", d.attrs[n][i]>>
    BY <1>5
  <2>2. \A i \in 1..k : b[i] \in Prints /\ b[i] # Space
    BY <1>4, <2>1, PrintIs
  <2>3. QED
    BY <1>5, <2>1, <2>2
<1>7. b \in Seq(Prints) /\ Len(b) = k
  BY ONLY <1>6, k \in Nat
<1>8. PICK x \in Prints : x = <<"<", d.name[n]>> /\ x # Space
  <2>1. PICK y \in Names \cup AttrNames \cup {Null} : y = d.name[n]
    BY <1>2
  <2>2. <<"<", y>> \in Prints /\ <<"<", y>> # Space
    BY PrintIs
  <2>3. QED
    BY <2>1, <2>2
<1>9. PICK a : a = <<x>>
  OBVIOUS
<1>10. a \in Seq(Prints) /\ Unbroken(a)
  BY <1>8, <1>9, OneUnbroken
<1>11. Unbroken(b)
  BY <1>6, <1>7 DEF Unbroken
<1>12. Tag(d, n) = Then(a, b)
  BY <1>3, <1>5, <1>8, <1>9 DEF Tag, Then
<1>13. Then(a, b) \in Seq(Prints) /\ Unbroken(Then(a, b))
  BY <1>7, <1>10, <1>11, ThenUnbroken
<1>14. QED
  BY <1>3, <1>5, <1>6, <1>7, <1>8, <1>9, <1>10, <1>11, <1>12, <1>13

(* What is written at the end of a start tag.                               *)
Sealing(d, n) == IF d.first[n] = Null THEN <<Plain("/>")>> ELSE <<Plain(">")>>

LEMMA OpeningIs ==
  ASSUME NEW d, Shape(d), NEW n \in Nodes
  PROVE  /\ OpeningOf(d, n) \in Seq(Prints) /\ ClosingOf(d, n) \in Seq(Prints)
         /\ d.kind[n] = "element" => OpeningOf(d, n) = Then(Tag(d, n), Sealing(d, n))
         /\ d.kind[n] # "element" => OpeningOf(d, n) = <<Plain(d.kind[n])>>
<1>1. Typed(d)
  BY TreeMeans DEF Shape
<1>2. d.kind[n] \in Kinds \cup {"free"} /\ d.name[n] \in Names \cup {Null}
  BY <1>1 DEF Typed
<1>3. /\ Plain(d.kind[n]) \in Prints /\ Plain("/>") \in Prints /\ Plain(">") \in Prints
      /\ <<"</", d.name[n]>> \in Prints
  BY <1>2 DEF Prints, Plain
<1>4. ASSUME NEW y \in Prints PROVE <<y>> \in Seq(Prints)
  BY <1>4
<1>5. d.kind[n] = "element" => OpeningOf(d, n) = Then(Tag(d, n), Sealing(d, n))
  BY DEF OpeningOf, Tag, Sealing, Then
<1>6. d.kind[n] # "element" => OpeningOf(d, n) = <<Plain(d.kind[n])>>
  BY DEF OpeningOf
<1>7. PICK a \in Seq(Prints), b \in Seq(Prints) : a = Tag(d, n) /\ b = Sealing(d, n)
  BY <1>3, <1>4, TagIs DEF Sealing
<1>8. a \o b \in Seq(Prints)
  BY ConcatProperties
<1>9. OpeningOf(d, n) \in Seq(Prints)
  BY <1>3, <1>4, <1>5, <1>6, <1>7, <1>8 DEF Then
<1>10. ClosingOf(d, n) \in Seq(Prints)
  BY <1>3, <1>4, EmptySeq DEF ClosingOf
<1>11. QED
  BY <1>5, <1>6, <1>9, <1>10

LEMMA OutputIs ==
  ASSUME NEW d, Shape(d)
  PROVE  /\ Output(d) \in [Nodes -> Seq(Prints)]
         /\ \A n \in Nodes :
              Output(d)[n] = Then(Then(OpeningOf(d, n), Within(d, n)), ClosingOf(d, n))
         /\ \A n \in Joints : Within(d, n) \in Seq(Prints)
         /\ Written(d) = Within(d, Doc)
<1>1. Openings(d) \in [Nodes -> Seq(Prints)] /\ Closings(d) \in [Nodes -> Seq(Prints)]
  BY OpeningIs DEF Openings, Closings
<1>2. PICK before \in [Nodes -> Seq(Prints)], behind \in [Nodes -> Seq(Prints)] :
        before = Openings(d) /\ behind = Closings(d)
  BY <1>1
<1>3. PICK item : item = Items(d, before, behind)
  OBVIOUS
<1>4. /\ item \in [Nodes -> Seq(Prints)] /\ ItemsOn(d, before, behind, item, Nodes)
      /\ Unfold(d, before, behind) = Inner(d, item, Doc)
  BY <1>3, UnfoldIs
<1>5. Written(d) = Unfold(d, Openings(d), Closings(d))
  BY DEF Written, Openings, Closings
<1>6. item = Output(d)
  BY <1>2, <1>3 DEF Output
<1>7. ASSUME NEW n \in Nodes
      PROVE  Output(d)[n] = Then(Then(OpeningOf(d, n), Within(d, n)), ClosingOf(d, n))
  <2>1. item[n] = (before[n] \o Inner(d, item, n)) \o behind[n]
    BY <1>4 DEF ItemsOn
  <2>2. before[n] = OpeningOf(d, n) /\ behind[n] = ClosingOf(d, n)
    BY <1>2 DEF Openings, Closings
  <2>3. QED
    BY <1>6, <2>1, <2>2 DEF Then, Within
<1>8. \A n \in Joints : Within(d, n) \in Seq(Prints)
  BY <1>4, <1>6, InnerType DEF Within
<1>9. QED
  BY <1>2, <1>4, <1>5, <1>6, <1>7, <1>8 DEF Within

-----------------------------------------------------------------------------
(* The way from the document to the node that is visited: way[1] to way[k], and  *)
(* what is written when each is entered.                                    *)
Held(way, i) == IF i = 0 THEN Doc ELSE way[i]
Reached(d, way, w, i) == IF i = 0 THEN <<>> ELSE Then(w[i], OpeningOf(d, way[i]))
Trail(d, k, way, w) ==
  \A i \in 1..k : /\ d.parent[way[i]] = Held(way, i - 1)
                  /\ w[i] = Then(Reached(d, way, w, i - 1), Earlier(d, Output(d), way[i]))
Ways(k, way, w) == k \in Nat /\ way \in [1..k -> Nodes] /\ w \in [1..k -> Seq(Prints)]
Called(d, way, h) == [i \in 1..h |-> d.name[way[i]]]

(* x has been written when a is visited, inside of the elements ns.          *)
Entering(d, k, way, w, a, x, ns) ==
  k > 0 /\ a = Enter(way[k]) /\ x = w[k] /\ ns = Called(d, way, k - 1)
Exiting(d, k, way, w, a, x, ns) ==
  /\ a = Exit(Held(way, k)) /\ ns = Called(d, way, k)
  /\ x = Then(Reached(d, way, w, k), Within(d, Held(way, k)))
Stands(d, k, way, w, a, x, ns) ==
  /\ Ways(k, way, w) /\ Trail(d, k, way, w)
  /\ Entering(d, k, way, w, a, x, ns) \/ Exiting(d, k, way, w, a, x, ns)
Standing(d, a, x, ns) == \E k, way, w : Stands(d, k, way, w, a, x, ns)

LEMMA HeldIs ==
  ASSUME NEW d, Shape(d), NEW k, NEW way, NEW w, Ways(k, way, w), NEW i \in 0..k
  PROVE  /\ Held(way, i) \in Joints /\ Reached(d, way, w, i) \in Seq(Prints)
         /\ i # 0 => Held(way, i) \in Nodes
<1>1. k \in Nat /\ way \in [1..k -> Nodes] /\ w \in [1..k -> Seq(Prints)]
  BY DEF Ways
<1>2. CASE i = 0
  BY <1>2, EmptySeq DEF Held, Reached, Joints
<1>3. CASE i # 0
  <2>1. i \in 1..k
    BY <1>1, <1>3
  <2>2. way[i] \in Nodes
    BY <1>1, <2>1
  <2>3. PICK a \in Seq(Prints), b \in Seq(Prints) : a = w[i] /\ b = OpeningOf(d, way[i])
    BY <1>1, <2>1, <2>2, OpeningIs
  <2>4. a \o b \in Seq(Prints)
    BY ConcatProperties
  <2>5. QED
    BY <1>3, <2>2, <2>3, <2>4 DEF Held, Reached, Joints, Then
<1>4. QED
  BY <1>2, <1>3

(* One level down.                                                          *)
Deeper(k, way, w, on, v, n, x) ==
  /\ on \in [1..(k + 1) -> Nodes] /\ v \in [1..(k + 1) -> Seq(Prints)]
  /\ \A i \in 1..k : on[i] = way[i] /\ v[i] = w[i]
  /\ on[k + 1] = n /\ v[k + 1] = x

LEMMA GoDown ==
  ASSUME NEW k, NEW way, NEW w, Ways(k, way, w), NEW n \in Nodes, NEW x \in Seq(Prints)
  PROVE  \E on, v : Deeper(k, way, w, on, v, n, x)
<1>1. k \in Nat /\ way \in [1..k -> Nodes] /\ w \in [1..k -> Seq(Prints)]
  BY DEF Ways
<1>2. PICK on, v : /\ on = [i \in 1..(k + 1) |-> IF i = k + 1 THEN n ELSE way[i]]
                   /\ v = [i \in 1..(k + 1) |-> IF i = k + 1 THEN x ELSE w[i]]
  OBVIOUS
<1>3. k + 1 \in 1..(k + 1) /\ \A i \in 1..k : i \in 1..(k + 1) /\ i # k + 1
  BY <1>1
<1>4. \A i \in 1..(k + 1) : i = k + 1 \/ i \in 1..k
  BY <1>1
<1>5. on[k + 1] = n /\ v[k + 1] = x
  BY <1>2, <1>3
<1>6. \A i \in 1..k : on[i] = way[i] /\ v[i] = w[i]
  BY <1>2, <1>3
<1>7. \A i \in 1..(k + 1) : on[i] \in Nodes /\ v[i] \in Seq(Prints)
  BY <1>1, <1>4, <1>5, <1>6
<1>8. on \in [1..(k + 1) -> Nodes] /\ v \in [1..(k + 1) -> Seq(Prints)]
  BY <1>2, <1>7
<1>9. QED
  BY <1>5, <1>6, <1>8 DEF Deeper

LEMMA TrailDown ==
  ASSUME NEW d, NEW k, NEW way, NEW w, Ways(k, way, w), Trail(d, k, way, w),
         NEW n \in Nodes, NEW x \in Seq(Prints), NEW on, NEW v, Deeper(k, way, w, on, v, n, x),
         d.parent[n] = Held(way, k),
         x = Then(Reached(d, way, w, k), Earlier(d, Output(d), n))
  PROVE  Ways(k + 1, on, v) /\ Trail(d, k + 1, on, v)
<1>1. k \in Nat
  BY DEF Ways
<1>2. \A i \in 0..k : Held(on, i) = Held(way, i) /\ Reached(d, on, v, i) = Reached(d, way, w, i)
  <2> SUFFICES ASSUME NEW i \in 0..k
               PROVE  Held(on, i) = Held(way, i) /\ Reached(d, on, v, i) = Reached(d, way, w, i)
    OBVIOUS
  <2>1. CASE i = 0
    BY <2>1 DEF Held, Reached
  <2>2. CASE i # 0
    <3>1. i \in 1..k
      BY <1>1, <2>2
    <3>2. on[i] = way[i] /\ v[i] = w[i]
      BY <3>1 DEF Deeper
    <3>3. QED
      BY <3>2 DEF Held, Reached
  <2>3. QED
    BY <2>1, <2>2
<1>3. Ways(k + 1, on, v)
  BY <1>1 DEF Ways, Deeper
<1>4. ASSUME NEW i \in 1..(k + 1)
      PROVE  /\ d.parent[on[i]] = Held(on, i - 1)
             /\ v[i] = Then(Reached(d, on, v, i - 1), Earlier(d, Output(d), on[i]))
  <2>1. i - 1 \in 0..k
    BY <1>1
  <2>2. CASE i = k + 1
    <3>1. on[i] = n /\ v[i] = x /\ i - 1 = k
      BY <1>1, <2>2 DEF Deeper
    <3>2. QED
      BY <1>2, <2>1, <3>1
  <2>3. CASE i # k + 1
    <3>1. i \in 1..k
      BY <1>1, <2>3
    <3>2. on[i] = way[i] /\ v[i] = w[i]
      BY <3>1 DEF Deeper
    <3>3. QED
      BY <1>2, <2>1, <3>1, <3>2 DEF Trail
  <2>4. QED
    BY <2>2, <2>3
<1>5. QED
  BY <1>3, <1>4 DEF Trail

(* One level up.                                                            *)
Shallower(k, way, w, on, v) ==
  /\ on \in [1..(k - 1) -> Nodes] /\ v \in [1..(k - 1) -> Seq(Prints)]
  /\ \A i \in 1..(k - 1) : on[i] = way[i] /\ v[i] = w[i]

LEMMA TrailUp ==
  ASSUME NEW d, NEW k, NEW way, NEW w, Ways(k, way, w), Trail(d, k, way, w), k > 0
  PROVE  \E on, v : /\ Shallower(k, way, w, on, v)
                    /\ Ways(k - 1, on, v) /\ Trail(d, k - 1, on, v)
                    /\ Held(on, k - 1) = Held(way, k - 1)
                    /\ Reached(d, on, v, k - 1) = Reached(d, way, w, k - 1)
<1>1. k \in Nat /\ k - 1 \in Nat /\ way \in [1..k -> Nodes] /\ w \in [1..k -> Seq(Prints)]
  BY DEF Ways
<1>2. PICK on, v : /\ on = [i \in 1..(k - 1) |-> way[i]]
                   /\ v = [i \in 1..(k - 1) |-> w[i]]
  OBVIOUS
<1>3. \A i \in 1..(k - 1) : i \in 1..k
  BY <1>1
<1>4. Shallower(k, way, w, on, v)
  BY <1>1, <1>2, <1>3 DEF Shallower
<1>5. \A i \in 0..(k - 1) :
        Held(on, i) = Held(way, i) /\ Reached(d, on, v, i) = Reached(d, way, w, i)
  <2> SUFFICES ASSUME NEW i \in 0..(k - 1)
               PROVE  Held(on, i) = Held(way, i) /\ Reached(d, on, v, i) = Reached(d, way, w, i)
    OBVIOUS
  <2>1. CASE i = 0
    BY <2>1 DEF Held, Reached
  <2>2. CASE i # 0
    <3>1. i \in 1..(k - 1)
      BY <1>1, <2>2
    <3>2. on[i] = way[i] /\ v[i] = w[i]
      BY <1>4, <3>1 DEF Shallower
    <3>3. QED
      BY <3>2 DEF Held, Reached
  <2>3. QED
    BY <2>1, <2>2
<1>6. Ways(k - 1, on, v)
  BY <1>1, <1>4 DEF Ways, Shallower
<1>7. Trail(d, k - 1, on, v)
  <2> SUFFICES ASSUME NEW i \in 1..(k - 1)
               PROVE  /\ d.parent[on[i]] = Held(on, i - 1)
                      /\ v[i] = Then(Reached(d, on, v, i - 1), Earlier(d, Output(d), on[i]))
    BY DEF Trail
  <2>1. i \in 1..k /\ i - 1 \in 0..(k - 1)
    BY <1>1
  <2>2. on[i] = way[i] /\ v[i] = w[i]
    BY <1>4 DEF Shallower
  <2>3. QED
    BY <1>5, <2>1, <2>2 DEF Trail
<1>8. k - 1 \in 0..(k - 1)
  BY <1>1
<1>9. QED
  BY <1>4, <1>5, <1>6, <1>7, <1>8

-----------------------------------------------------------------------------
LEMMA ThenIs ==
  ASSUME NEW V
  PROVE  /\ \A a, b \in Seq(V) : Then(a, b) \in Seq(V)
         /\ \A a \in Seq(V) : Then(<<>>, a) = a /\ Then(a, <<>>) = a
         /\ \A a, b, c \in Seq(V) : Then(Then(a, b), c) = Then(a, Then(b, c))
BY SequencesJoin DEF Joined, Then

LEMMA CalledIs ==
  ASSUME NEW d, Shape(d), NEW h \in Nat, NEW way, \A i \in 1..h : way[i] \in Nodes
  PROVE  /\ Called(d, way, h) \in Seq(Names \cup {Null}) /\ Len(Called(d, way, h)) = h
         /\ \A i \in 1..h : Called(d, way, h)[i] = d.name[way[i]]
<1>1. Typed(d)
  BY TreeMeans DEF Shape
<1>2. PICK c : c = Called(d, way, h)
  OBVIOUS
<1>3. c \in [1..h -> Names \cup {Null}] /\ \A i \in 1..h : c[i] = d.name[way[i]]
  BY <1>1, <1>2 DEF Called, Typed
<1>4. c \in Seq(Names \cup {Null}) /\ Len(c) = h
  BY ONLY <1>3, h \in Nat
<1>5. QED
  BY <1>2, <1>3, <1>4

LEMMA CalledMore ==
  ASSUME NEW d, Shape(d), NEW k \in Nat, k > 0, NEW way \in [1..k -> Nodes]
  PROVE  /\ Append(Called(d, way, k - 1), d.name[way[k]]) = Called(d, way, k)
         /\ Front(Called(d, way, k)) = Called(d, way, k - 1)
         /\ Called(d, way, k) # <<>> /\ Last(Called(d, way, k)) = d.name[way[k]]
<1>1. PICK h \in Nat : h = k - 1 /\ k = h + 1 /\ k \in 1..k
  OBVIOUS
<1>2. \A i \in 1..h : way[i] \in Nodes
  BY <1>1
<1>3. PICK c : c = Called(d, way, h)
  OBVIOUS
<1>4. c \in Seq(Names \cup {Null}) /\ Len(c) = h /\ \A i \in 1..h : c[i] = d.name[way[i]]
  BY <1>2, <1>3, CalledIs
<1>5. PICK y \in Names \cup {Null} : y = d.name[way[k]]
  <2>1. Typed(d)
    BY TreeMeans DEF Shape
  <2>2. QED
    BY <1>1, <2>1 DEF Typed
<1>6. PICK a : a = Append(c, y)
  OBVIOUS
<1>7. a \in Seq(Names \cup {Null}) /\ Len(a) = h + 1 /\ a[h + 1] = y /\ \A i \in 1..h : a[i] = c[i]
  BY <1>4, <1>6, AppendProperties
<1>8. a = [i \in 1..(h + 1) |-> a[i]]
  BY <1>7, LenProperties
<1>9. \A i \in 1..(h + 1) : a[i] = d.name[way[i]]
  <2>1. \A i \in 1..(h + 1) : i \in 1..h \/ i = h + 1
    OBVIOUS
  <2>2. QED
    BY <1>1, <1>4, <1>5, <1>7, <2>1
<1>10. a = Called(d, way, k)
  BY <1>1, <1>8, <1>9 DEF Called
<1>11. a # <<>> /\ Front(a) = c /\ Last(a) = y
  BY <1>4, <1>6, FrontAppended
<1>12. QED
  BY <1>1, <1>3, <1>5, <1>6, <1>10, <1>11

LEMMA CalledSame ==
  ASSUME NEW d, NEW h, NEW way, NEW on, \A i \in 1..h : on[i] = way[i]
  PROVE  Called(d, on, h) = Called(d, way, h)
BY DEF Called

(* Accept goes on behind a node that has been written.                      *)
LEMMA GoesOn ==
  ASSUME NEW d, Shape(d), NEW k, NEW way, NEW w, Ways(k, way, w), Trail(d, k, way, w), k > 0,
         NEW n, n = way[k], NEW x, x = Then(w[k], Output(d)[n])
  PROVE  /\ Standing(d, After(d, n), x, Called(d, way, k - 1))
         /\ After(d, n).enter \/ After(d, n).node = Doc
            \/ d.first[After(d, n).node] # Null
<1>1. /\ k \in Nat /\ k - 1 \in Nat /\ k \in 1..k /\ k - 1 \in 0..k
      /\ way \in [1..k -> Nodes] /\ w \in [1..k -> Seq(Prints)]
  BY DEF Ways
<1>2. n \in Nodes /\ d.parent[n] = Held(way, k - 1)
      /\ w[k] = Then(Reached(d, way, w, k - 1), Earlier(d, Output(d), n))
  BY <1>1 DEF Trail
<1>3. PICK u \in Joints : u = Held(way, k - 1)
  BY <1>1, HeldIs
<1>4. PICK r \in Seq(Prints) : r = Reached(d, way, w, k - 1)
  BY <1>1, HeldIs
<1>5. PICK item \in [Nodes -> Seq(Prints)] : item = Output(d)
  BY OutputIs
<1>6. /\ Earlier(d, item, n) \in Seq(Prints)
      /\ d.next[n] # Null =>
           /\ d.next[n] \in Nodes /\ d.parent[d.next[n]] = u
           /\ Earlier(d, item, d.next[n]) = Then(Earlier(d, item, n), item[n])
      /\ d.next[n] = Null => Inner(d, item, u) = Then(Earlier(d, item, n), item[n])
  BY <1>2, <1>3, EarlierIs
<1>7. PICK e \in Seq(Prints), o \in Seq(Prints) : e = Earlier(d, item, n) /\ o = item[n]
  BY <1>2, <1>6
<1>8. x = Then(r, Then(e, o)) /\ x \in Seq(Prints)
  <2>1. x = Then(Then(r, e), o)
    BY <1>2, <1>4, <1>5, <1>7
  <2>2. QED
    BY <2>1, ThenIs
<1>9. PICK on, v : /\ Shallower(k, way, w, on, v)
                   /\ Ways(k - 1, on, v) /\ Trail(d, k - 1, on, v)
                   /\ Held(on, k - 1) = u /\ Reached(d, on, v, k - 1) = r
  BY <1>3, <1>4, TrailUp
<1>10. Called(d, on, k - 1) = Called(d, way, k - 1)
  <2>1. \A i \in 1..(k - 1) : on[i] = way[i]
    BY <1>9 DEF Shallower
  <2>2. QED
    BY <2>1, CalledSame
<1>11. CASE d.next[n] # Null
  <2>1. PICK m \in Nodes : m = d.next[n]
    BY <1>6, <1>11
  <2>2. After(d, n) = Enter(m)
    BY <1>11, <2>1 DEF After
  <2>3. PICK p2, w2 : Deeper(k - 1, on, v, p2, w2, m, x)
    BY <1>8, <1>9, GoDown
  <2>4. d.parent[m] = Held(on, k - 1)
    BY <1>6, <1>9, <1>11, <2>1
  <2>5. x = Then(Reached(d, on, v, k - 1), Earlier(d, Output(d), m))
    BY <1>5, <1>6, <1>7, <1>8, <1>9, <1>11, <2>1
  <2>6. Ways((k - 1) + 1, p2, w2) /\ Trail(d, (k - 1) + 1, p2, w2)
    BY <1>8, <1>9, <2>3, <2>4, <2>5, TrailDown
  <2>7. (k - 1) + 1 = k
    BY <1>1
  <2>8. p2[k] = m /\ w2[k] = x /\ \A i \in 1..(k - 1) : p2[i] = on[i]
    BY <2>3, <2>7 DEF Deeper
  <2>9. Called(d, p2, k - 1) = Called(d, way, k - 1)
    BY <1>10, <2>8, CalledSame
  <2>10. Entering(d, k, p2, w2, Enter(m), x, Called(d, way, k - 1))
    BY <2>8, <2>9 DEF Entering
  <2>11. QED
    BY <2>2, <2>6, <2>7, <2>10 DEF Standing, Stands, Enter
<1>12. CASE d.next[n] = Null
  <2>1. After(d, n) = Exit(u)
    BY <1>2, <1>3, <1>12 DEF After
  <2>2. x = Then(Reached(d, on, v, k - 1), Within(d, Held(on, k - 1)))
    BY <1>5, <1>6, <1>7, <1>8, <1>9, <1>12 DEF Within
  <2>3. Exiting(d, k - 1, on, v, Exit(u), x, Called(d, way, k - 1))
    BY <1>9, <1>10, <2>2 DEF Exiting
  <2>4. d.first[u] # Null
    BY <1>2, <1>3, FirstChild
  <2>5. QED
    BY <1>9, <2>1, <2>3, <2>4 DEF Standing, Stands, Exit
<1>13. QED
  BY <1>11, <1>12

(* Accept goes to the first child, if there is one.                          *)
LEMMA GoesIn ==
  ASSUME NEW d, Shape(d), NEW k, NEW way, NEW w, Ways(k, way, w), Trail(d, k, way, w),
         NEW n, n = Held(way, k), NEW x, x = Reached(d, way, w, k)
  PROVE  Standing(d, IF d.first[n] # Null THEN Enter(d.first[n]) ELSE Exit(n), x,
                  Called(d, way, k))
<1>1. k \in Nat /\ k \in 0..k
  BY DEF Ways
<1>2. n \in Joints /\ x \in Seq(Prints)
  BY <1>1, HeldIs
<1>3. PICK item \in [Nodes -> Seq(Prints)] : item = Output(d)
  BY OutputIs
<1>4. /\ d.first[n] = Null => Inner(d, item, n) = <<>>
      /\ d.first[n] # Null =>
           /\ d.first[n] \in Nodes /\ d.parent[d.first[n]] = n
           /\ Earlier(d, item, d.first[n]) = <<>>
  BY <1>2, EarlierIs
<1>5. Then(x, <<>>) = x
  BY <1>2, ThenIs
<1>6. CASE d.first[n] # Null
  <2>1. PICK m \in Nodes : m = d.first[n]
    BY <1>4, <1>6
  <2>2. PICK on, v : Deeper(k, way, w, on, v, m, x)
    BY <1>2, GoDown
  <2>3. x = Then(Reached(d, way, w, k), Earlier(d, Output(d), m))
    BY <1>3, <1>4, <1>5, <1>6, <2>1
  <2>4. Ways(k + 1, on, v) /\ Trail(d, k + 1, on, v)
    BY <1>2, <1>4, <1>6, <2>1, <2>2, <2>3, TrailDown
  <2>5. on[k + 1] = m /\ v[k + 1] = x /\ \A i \in 1..k : on[i] = way[i]
    BY <2>2 DEF Deeper
  <2>6. Called(d, on, k) = Called(d, way, k)
    BY <2>5, CalledSame
  <2>7. (k + 1) - 1 = k /\ k + 1 > 0
    BY <1>1
  <2>8. Entering(d, k + 1, on, v, Enter(m), x, Called(d, way, k))
    BY <2>5, <2>6, <2>7 DEF Entering
  <2>9. QED
    BY <1>6, <2>1, <2>4, <2>8 DEF Standing, Stands
<1>7. CASE d.first[n] = Null
  <2>1. x = Then(Reached(d, way, w, k), Within(d, Held(way, k)))
    BY <1>3, <1>4, <1>5, <1>7 DEF Within
  <2>2. Exiting(d, k, way, w, Exit(n), x, Called(d, way, k))
    BY <2>1 DEF Exiting
  <2>3. QED
    BY <1>7, <2>2 DEF Standing, Stands
<1>8. QED
  BY <1>6, <1>7

LEMMA StandsFirst ==
  ASSUME NEW d, Shape(d)
  PROVE  Standing(d, IF d.first[Doc] # Null THEN Enter(d.first[Doc]) ELSE Nowhere,
                  <<>>, <<>>)
<1>1. PICK way, w : way = [i \in 1..0 |-> Doc] /\ w = [i \in 1..0 |-> <<>>]
  OBVIOUS
<1>2. Ways(0, way, w)
  BY <1>1 DEF Ways
<1>3. Trail(d, 0, way, w)
  BY DEF Trail
<1>4. Held(way, 0) = Doc /\ Reached(d, way, w, 0) = <<>>
  BY DEF Held, Reached
<1>5. Called(d, way, 0) = <<>>
  <2>1. \A i \in 1..0 : way[i] \in Nodes
    OBVIOUS
  <2>2. Called(d, way, 0) \in Seq(Names \cup {Null}) /\ Len(Called(d, way, 0)) = 0
    BY <2>1, CalledIs
  <2>3. QED
    BY <2>2, EmptySeq
<1>6. Standing(d, IF d.first[Doc] # Null THEN Enter(d.first[Doc]) ELSE Exit(Doc),
               <<>>, Called(d, way, 0))
  BY <1>2, <1>3, <1>4, GoesIn
<1>7. QED
  BY <1>5, <1>6 DEF Nowhere

-----------------------------------------------------------------------------
(* What each visit writes.                                                  *)
LEMMA EnteringIs ==
  ASSUME NEW d, NEW n, NEW x, NEW ns, Standing(d, Enter(n), x, ns)
  PROVE  \E k, way, w : /\ Ways(k, way, w) /\ Trail(d, k, way, w) /\ k > 0
                        /\ n = way[k] /\ x = w[k] /\ ns = Called(d, way, k - 1)
<1>1. PICK k, way, w : Stands(d, k, way, w, Enter(n), x, ns)
  BY DEF Standing
<1>2. ~Exiting(d, k, way, w, Enter(n), x, ns)
  BY DEF Exiting, Enter, Exit
<1>3. Entering(d, k, way, w, Enter(n), x, ns)
  BY <1>1, <1>2 DEF Stands
<1>4. n = way[k]
  BY <1>3 DEF Entering, Enter
<1>5. QED
  BY <1>1, <1>3, <1>4 DEF Stands, Entering

LEMMA ExitingIs ==
  ASSUME NEW d, NEW n, NEW x, NEW ns, Standing(d, Exit(n), x, ns)
  PROVE  \E k, way, w : /\ Ways(k, way, w) /\ Trail(d, k, way, w)
                        /\ n = Held(way, k) /\ ns = Called(d, way, k)
                        /\ x = Then(Reached(d, way, w, k), Within(d, n))
<1>1. PICK k, way, w : Stands(d, k, way, w, Exit(n), x, ns)
  BY DEF Standing
<1>2. ~Entering(d, k, way, w, Exit(n), x, ns)
  BY DEF Entering, Enter, Exit
<1>3. Exiting(d, k, way, w, Exit(n), x, ns)
  BY <1>1, <1>2 DEF Stands
<1>4. n = Held(way, k)
  BY <1>3 DEF Exiting, Exit
<1>5. QED
  BY <1>1, <1>3, <1>4 DEF Stands, Exiting

Ready(d, a, x) ==
  /\ a.node \in Joints /\ x \in Seq(Prints)
  /\ a.enter => a.node \in Nodes

LEMMA StandsReady ==
  ASSUME NEW d, Shape(d), NEW a, NEW x, NEW ns, Standing(d, a, x, ns)
  PROVE  Ready(d, a, x) /\ (a = Enter(a.node) \/ a = Exit(a.node))
         /\ ns \in Seq(Names \cup {Null})
<1>1. PICK k, way, w : Stands(d, k, way, w, a, x, ns)
  BY DEF Standing
<1>2. Ways(k, way, w) /\ k \in Nat /\ way \in [1..k -> Nodes] /\ w \in [1..k -> Seq(Prints)]
  BY <1>1 DEF Stands, Ways
<1>3. CASE Entering(d, k, way, w, a, x, ns)
  <2>1. k \in 1..k /\ a = Enter(way[k]) /\ x = w[k]
    BY <1>2, <1>3 DEF Entering
  <2>2. a.node = way[k] /\ way[k] \in Nodes
    BY <1>2, <2>1 DEF Enter
  <2>3. k - 1 \in Nat /\ \A i \in 1..(k - 1) : way[i] \in Nodes
    BY <1>2, <2>1
  <2>4. ns \in Seq(Names \cup {Null})
    BY <1>3, <2>3, CalledIs DEF Entering
  <2>5. QED
    BY <1>2, <2>1, <2>2, <2>4 DEF Ready, Joints
<1>4. CASE Exiting(d, k, way, w, a, x, ns)
  <2>1. k \in 0..k
    BY <1>2
  <2>2. PICK u \in Joints, r \in Seq(Prints) : u = Held(way, k) /\ r = Reached(d, way, w, k)
    BY <1>2, <2>1, HeldIs
  <2>3. PICK o \in Seq(Prints) : o = Within(d, u)
    BY OutputIs
  <2>4. a = Exit(u) /\ x = Then(r, o)
    BY <1>4, <2>2, <2>3 DEF Exiting
  <2>5. a.node = u /\ ~a.enter /\ x \in Seq(Prints)
    BY <2>4, ThenIs DEF Exit
  <2>6. \A i \in 1..k : way[i] \in Nodes
    BY <1>2
  <2>7. ns \in Seq(Names \cup {Null})
    BY <1>2, <1>4, <2>6, CalledIs DEF Exiting
  <2>8. QED
    BY <2>4, <2>5, <2>7 DEF Ready
<1>5. QED
  BY <1>1, <1>3, <1>4 DEF Stands

LEMMA StandsElement ==
  ASSUME NEW d, Shape(d), NEW n, NEW x, NEW ns, Standing(d, Enter(n), x, ns)
  PROVE  /\ n \in Nodes
         /\ Standing(d, IF d.first[n] # Null THEN Enter(d.first[n]) ELSE Exit(n),
                     Then(x, OpeningOf(d, n)), Append(ns, d.name[n]))
<1>1. PICK k, way, w : /\ Ways(k, way, w) /\ Trail(d, k, way, w) /\ k > 0
                       /\ n = way[k] /\ x = w[k] /\ ns = Called(d, way, k - 1)
  BY EnteringIs
<1>2. k \in Nat /\ k \in 1..k /\ way \in [1..k -> Nodes]
  BY <1>1 DEF Ways
<1>3. Held(way, k) = n /\ Reached(d, way, w, k) = Then(x, OpeningOf(d, n)) /\ n \in Nodes
  BY <1>1, <1>2 DEF Held, Reached
<1>4. Append(ns, d.name[n]) = Called(d, way, k)
  BY <1>1, <1>2, CalledMore
<1>5. PICK y, m : y = Reached(d, way, w, k) /\ m = Held(way, k)
  OBVIOUS
<1>6. Standing(d, IF d.first[m] # Null THEN Enter(d.first[m]) ELSE Exit(m), y, Called(d, way, k))
  BY <1>1, <1>5, GoesIn
<1>7. QED
  BY <1>3, <1>4, <1>5, <1>6

LEMMA StandsLeaf ==
  ASSUME NEW d, Shape(d), NEW n, NEW x, NEW ns, Standing(d, Enter(n), x, ns),
         d.kind[n] # "element"
  PROVE  /\ Standing(d, After(d, n), Then(x, OpeningOf(d, n)), ns)
         /\ After(d, n).enter \/ After(d, n).node = Doc
            \/ d.first[After(d, n).node] # Null
<1>1. PICK k, way, w : /\ Ways(k, way, w) /\ Trail(d, k, way, w) /\ k > 0
                       /\ n = way[k] /\ x = w[k] /\ ns = Called(d, way, k - 1)
  BY EnteringIs
<1>2. k \in Nat /\ k \in 1..k /\ way \in [1..k -> Nodes] /\ n \in Nodes /\ n \in Joints
  BY <1>1 DEF Ways, Joints
<1>3. d.first[n] = Null
  <2> SUFFICES ASSUME d.first[n] # Null PROVE FALSE
    OBVIOUS
  <2>1. PICK m \in Nodes : d.parent[m] = n
    BY <1>2, FirstChild
  <2>2. n # Null /\ n # Doc
    BY <1>2, JointsAre
  <2>3. Holds(d, n)
    BY <2>1, <2>2 DEF Shape, Holding
  <2>4. QED
    BY <2>2, <2>3 DEF Holds
<1>4. Within(d, n) = <<>>
  <2>1. PICK item \in [Nodes -> Seq(Prints)] : item = Output(d)
    BY OutputIs
  <2>2. Inner(d, item, n) = <<>>
    BY <1>2, <1>3, EarlierIs
  <2>3. QED
    BY <2>1, <2>2 DEF Within
<1>5. ClosingOf(d, n) = <<>>
  BY <1>3 DEF ClosingOf
<1>6. PICK o \in Seq(Prints) : o = OpeningOf(d, n)
  BY <1>2, OpeningIs
<1>7. Output(d)[n] = o
  <2>1. Output(d)[n] = Then(Then(o, <<>>), <<>>)
    BY <1>2, <1>4, <1>5, <1>6, OutputIs
  <2>2. Then(o, <<>>) = o
    BY ThenIs
  <2>3. QED
    BY <2>1, <2>2
<1>8. Then(x, OpeningOf(d, n)) = Then(w[k], Output(d)[n])
  BY <1>1, <1>6, <1>7
<1>9. PICK y : y = Then(w[k], Output(d)[n])
  OBVIOUS
<1>10. Standing(d, After(d, n), y, Called(d, way, k - 1))
       /\ (After(d, n).enter \/ After(d, n).node = Doc
           \/ d.first[After(d, n).node] # Null)
  BY <1>1, <1>9, GoesOn
<1>11. QED
  BY <1>1, <1>8, <1>9, <1>10

LEMMA StandsExit ==
  ASSUME NEW d, Shape(d), NEW n, NEW x, NEW ns, Standing(d, Exit(n), x, ns), n # Doc
  PROVE  /\ n \in Nodes /\ ns # <<>> /\ Last(ns) = d.name[n]
         /\ Standing(d, After(d, n), Then(x, ClosingOf(d, n)), Front(ns))
         /\ After(d, n).enter \/ After(d, n).node = Doc
            \/ d.first[After(d, n).node] # Null
<1>1. PICK k, way, w : /\ Ways(k, way, w) /\ Trail(d, k, way, w)
                       /\ n = Held(way, k) /\ ns = Called(d, way, k)
                       /\ x = Then(Reached(d, way, w, k), Within(d, n))
  BY ExitingIs
<1>2. k > 0 /\ n = way[k] /\ Reached(d, way, w, k) = Then(w[k], OpeningOf(d, n))
  BY <1>1 DEF Held, Reached, Ways
<1>3. /\ k \in Nat /\ k \in 1..k /\ way \in [1..k -> Nodes] /\ n \in Nodes /\ n \in Joints
      /\ w[k] \in Seq(Prints)
  BY <1>1, <1>2 DEF Ways, Joints
<1>4. ns # <<>> /\ Last(ns) = d.name[n] /\ Front(ns) = Called(d, way, k - 1)
  BY <1>1, <1>2, <1>3, CalledMore
<1>5. PICK o \in Seq(Prints), i \in Seq(Prints), c \in Seq(Prints), v \in Seq(Prints) :
        o = OpeningOf(d, n) /\ i = Within(d, n) /\ c = ClosingOf(d, n) /\ v = w[k]
  BY <1>3, OpeningIs, OutputIs
<1>6. Then(x, ClosingOf(d, n)) = Then(w[k], Output(d)[n])
  <2>1. x = Then(Then(v, o), i)
    BY <1>1, <1>2, <1>5
  <2>2. Output(d)[n] = Then(Then(o, i), c)
    BY <1>3, <1>5, OutputIs
  <2>3. Then(Then(Then(v, o), i), c) = Then(v, Then(Then(o, i), c))
    BY ThenIs
  <2>4. QED
    BY <1>5, <2>1, <2>2, <2>3
<1>7. PICK y : y = Then(w[k], Output(d)[n])
  OBVIOUS
<1>8. Standing(d, After(d, n), y, Called(d, way, k - 1))
      /\ (After(d, n).enter \/ After(d, n).node = Doc
          \/ d.first[After(d, n).node] # Null)
  BY <1>1, <1>2, <1>7, GoesOn
<1>9. QED
  BY <1>3, <1>4, <1>6, <1>7, <1>8

LEMMA StandsEnd ==
  ASSUME NEW d, Shape(d), NEW x, NEW ns, Standing(d, Nowhere, x, ns)
  PROVE  x = Written(d)
<1>1. Standing(d, Exit(Doc), x, ns)
  BY DEF Nowhere
<1>2. PICK n : n = Doc
  OBVIOUS
<1>3. PICK k, way, w : /\ Ways(k, way, w) /\ Trail(d, k, way, w)
                       /\ n = Held(way, k) /\ ns = Called(d, way, k)
                       /\ x = Then(Reached(d, way, w, k), Within(d, n))
  BY <1>1, <1>2, ExitingIs
<1>4. k \in Nat /\ k \in 0..k
  BY <1>3 DEF Ways
<1>5. k = 0
  BY <1>2, <1>3, <1>4, HeldIs, JointsAre
<1>6. Reached(d, way, w, k) = <<>>
  BY <1>5 DEF Reached
<1>7. Within(d, n) \in Seq(Prints) /\ Written(d) = Within(d, n)
  BY <1>2, OutputIs DEF Joints
<1>8. QED
  BY <1>3, <1>6, <1>7, ThenIs

-----------------------------------------------------------------------------
(* What each visit adds to the output.                                      *)
Gap(sp) == sp \in Seq(Prints) /\ (sp = <<>> \/ sp = <<Space>>)
Printing ==
  /\ Shape(dom) /\ out \in Seq(Prints) /\ names \in Seq(Names \cup {Null})
  /\ depth \in Int /\ textDepth \in Int /\ justOpened \in BOOLEAN

LEMMA MarksPrinted ==
  /\ \A what \in {"<", "</", "attribute", "space", ">", "/>", "free"} \cup Kinds :
       /\ Plain(what) \in Prints /\ Plain(what)[1] = what
       /\ what # "space" => Plain(what) # Space
  /\ \A name \in Names \cup {Null} :
       LET y == <<"</", name>> IN y \in Prints /\ y # Space /\ y[1] = "</"
<1>1. PICK x \in Names \cup AttrNames \cup {Null} : x = Null
  OBVIOUS
<1>2. \A what \in {"<", "</", "attribute", "space", ">", "/>", "free"} \cup Kinds :
        /\ <<what, x>> \in Prints /\ <<what, x>>[1] = what
        /\ what # "space" => <<what, x>> # Space
  BY PrintIs
<1>3. ASSUME NEW name \in Names \cup {Null}
      PROVE  LET y == <<"</", name>> IN y \in Prints /\ y # Space /\ y[1] = "</"
  <2>1. PICK z \in Names \cup AttrNames \cup {Null} : z = name
    OBVIOUS
  <2>2. <<"</", z>> \in Prints /\ <<"</", z>> # Space /\ <<"</", z>>[1] = "</"
    BY PrintIs
  <2>3. QED
    BY <2>1, <2>2
<1>4. QED
  BY <1>1, <1>2, <1>3 DEF Plain

LEMMA SealIs ==
  /\ Seal \in Seq(Prints) /\ Unbroken(Seal)
  /\ Seal = IF justOpened THEN <<Plain(">")>> ELSE <<>>
<1>1. Plain(">") \in Prints /\ Plain(">") # Space
  BY MarksPrinted
<1>2. QED
  BY <1>1, OneUnbroken, NoneUnbroken DEF Seal

LEMMA GapsAre == Gap(<<>>) /\ Gap(<<Space>>)
<1>1. Space \in Prints
  BY MarksPrinted DEF Space
<1>2. <<Space>> \in Seq(Prints)
  BY <1>1
<1>3. QED
  BY <1>2, EmptySeq DEF Gap

LEMMA GapUnspaced == ASSUME NEW sp, Gap(sp) PROVE sp \in Seq(Prints) /\ Unspaced(sp) = <<>>
BY UnspacedSpace DEF Gap

LEMMA PrepareIs ==
  \E sp : Gap(sp) /\ PrepareForNewNode = Then(Seal, sp) /\ (sp # <<>> => ~(textDepth >= 0))
<1>1. CASE compact \/ firstElement \/ textDepth >= 0
  BY <1>1, GapsAre DEF PrepareForNewNode, Then
<1>2. CASE ~(compact \/ firstElement \/ textDepth >= 0)
  <2>1. PrepareForNewNode = Then(Seal, <<Space>>)
    BY <1>2 DEF PrepareForNewNode, Then, Space
  <2>2. QED
    BY <1>2, <2>1, GapsAre
<1>3. QED
  BY <1>1, <1>2

LEMMA ElementPrinted ==
  ASSUME Printing, at.node \in Nodes, VisitEnterElement(dom)
  PROVE  \E sp : /\ Gap(sp) /\ (sp # <<>> => ~(textDepth >= 0))
                 /\ out' = Then(Then(Then(out, Seal), sp), Tag(dom, at.node))
<1>1. PICK n \in Nodes : n = at.node
  OBVIOUS
<1>2. Shape(dom) /\ out \in Seq(Prints)
  BY DEF Printing
<1>3. PICK a \in Seq(Prints), b \in Seq(Prints) :
        /\ a = << <<"<", dom.name[n]>> >>
        /\ b = [i \in DOMAIN dom.attrs[n] |-> <<"attribute", dom.attrs[n][i]>>]
        /\ Tag(dom, n) = Then(a, b)
  BY <1>2, TagIs
<1>4. PICK sp : Gap(sp) /\ PrepareForNewNode = Then(Seal, sp) /\ (sp # <<>> => ~(textDepth >= 0))
  BY PrepareIs
<1>5. PICK s \in Seq(Prints), g \in Seq(Prints), o \in Seq(Prints) : s = Seal /\ g = sp /\ o = out
  BY <1>2, <1>4, SealIs DEF Gap
<1>6. out' = Then(Then(Then(o, Then(s, g)), a), b)
  BY <1>1, <1>3, <1>4, <1>5 DEF VisitEnterElement, Then
<1>7. Then(Then(Then(o, Then(s, g)), a), b) = Then(Then(Then(o, s), g), Then(a, b))
  <2>1. Then(o, s) \in Seq(Prints) /\ Then(Then(o, s), g) \in Seq(Prints)
    BY ThenIs
  <2>2. Then(o, Then(s, g)) = Then(Then(o, s), g)
    BY ThenIs
  <2>3. PICK h \in Seq(Prints) : h = Then(Then(o, s), g)
    BY <2>1
  <2>4. Then(Then(h, a), b) = Then(h, Then(a, b))
    BY ThenIs
  <2>5. QED
    BY <2>2, <2>3, <2>4
<1>8. QED
  BY <1>1, <1>3, <1>4, <1>5, <1>6, <1>7

LEMMA OtherPrinted ==
  ASSUME Printing, VisitOther(dom)
  PROVE  \E sp : /\ Gap(sp) /\ (sp # <<>> => ~(textDepth >= 0))
                 /\ out' = Then(Then(Then(out, Seal), sp), <<Plain(dom.kind[at.node])>>)
<1>1. Shape(dom) /\ out \in Seq(Prints)
  BY DEF Printing
<1>2. PICK sp : Gap(sp) /\ PrepareForNewNode = Then(Seal, sp) /\ (sp # <<>> => ~(textDepth >= 0))
  BY PrepareIs
<1>3. PICK s \in Seq(Prints), g \in Seq(Prints), o \in Seq(Prints) : s = Seal /\ g = sp /\ o = out
  BY <1>1, <1>2, SealIs DEF Gap
<1>4. PICK y : y = <<Plain(dom.kind[at.node])>>
  OBVIOUS
<1>5. out' = Then(Then(o, Then(s, g)), y)
  BY <1>2, <1>3, <1>4 DEF VisitOther, Then
<1>6. Then(o, Then(s, g)) = Then(Then(o, s), g)
  BY ThenIs
<1>7. QED
  BY <1>2, <1>3, <1>4, <1>5, <1>6

LEMMA TextPrinted ==
  ASSUME VisitText(dom) PROVE out' = Then(Then(out, Seal), <<Plain("text")>>)
BY DEF VisitText, Then

EndTag == << <<"</", Last(names)>> >>

LEMMA EndPrinted ==
  ASSUME Printing, VisitExitElement(dom), names # <<>>
  PROVE  /\ \E g : /\ Gap(g) /\ (g # <<>> => depth' = 0)
                   /\ justOpened => out' = Then(Then(out, <<Plain("/>")>>), g)
                   /\ ~justOpened => \E sp :
                        /\ Gap(sp) /\ (sp # <<>> => ~(textDepth >= 0))
                        /\ out' = Then(Then(Then(out, sp), EndTag), g)
         /\ <<"</", Last(names)>> \in Prints /\ <<"</", Last(names)>> # Space
<1>1. out \in Seq(Prints) /\ names \in Seq(Names \cup {Null}) /\ textDepth \in Int
  BY DEF Printing
<1>2. Last(names) \in Names \cup {Null}
  <2>1. PICK k \in Nat : k = Len(names) /\ k # 0
    BY <1>1, LenProperties, EmptySeq
  <2>2. k \in 1..k
    BY <2>1
  <2>3. names[k] \in Names \cup {Null}
    BY <1>1, <2>1, <2>2, ElementOfSeq
  <2>4. QED
    BY <2>1, <2>3 DEF Last
<1>3. PICK y \in Prints : y = <<"</", Last(names)>> /\ y # Space
  <2>1. PICK name \in Names \cup {Null} : name = Last(names)
    BY <1>2
  <2>2. <<"</", name>> \in Prints /\ <<"</", name>> # Space
    BY MarksPrinted
  <2>3. QED
    BY <2>1, <2>2
<1>4. PICK e \in Seq(Prints) : e = EndTag
  <2>1. PICK x : x = <<y>>
    OBVIOUS
  <2>2. x \in Seq(Prints)
    BY ONLY y \in Prints, <2>1
  <2>3. x = EndTag
    BY <1>3, <2>1 DEF EndTag
  <2>4. QED
    BY <2>2, <2>3
<1>5. PICK z \in Seq(Prints) : z = <<Plain("/>")>>
  <2>1. Plain("/>") \in Prints
    BY MarksPrinted
  <2>2. <<Plain("/>")>> \in Seq(Prints)
    BY <2>1
  <2>3. QED
    BY <2>2
<1>6. PICK g \in Seq(Prints) : /\ g = IF depth' = 0 /\ ~compact THEN <<Space>> ELSE <<>>
                               /\ Gap(g) /\ (g # <<>> => depth' = 0)
  BY GapsAre DEF Gap
<1>7. ASSUME justOpened PROVE out' = Then(Then(out, z), g)
  BY <1>5, <1>6, <1>7 DEF VisitExitElement, Then, Space
<1>8. ASSUME ~justOpened
      PROVE  \E sp : /\ Gap(sp) /\ (sp # <<>> => ~(textDepth >= 0))
                     /\ out' = Then(Then(Then(out, sp), e), g)
  <2>1. PICK sp \in Seq(Prints) : /\ sp = IF textDepth < 0 /\ ~compact THEN <<Space>> ELSE <<>>
                                  /\ Gap(sp)
    BY GapsAre DEF Gap
  <2>2. out' = Then(Then(out, Then(sp, e)), g)
    BY <1>4, <1>6, <1>8, <2>1 DEF VisitExitElement, Then, Space, EndTag
  <2>3. Then(out, Then(sp, e)) = Then(Then(out, sp), e)
    BY <1>1, ThenIs
  <2>4. sp # <<>> => ~(textDepth >= 0)
    BY <1>1, <2>1
  <2>5. QED
    BY <2>1, <2>2, <2>3, <2>4
<1>9. QED
  BY <1>3, <1>4, <1>5, <1>6, <1>7, <1>8

-----------------------------------------------------------------------------
(* What has been written so far, with the end of the start tag that is still  *)
(* open, is what is written before the node that is visited.                *)
Pending ==
  IF justOpened THEN IF at.enter THEN <<Plain(">")>> ELSE <<Plain("/>")>> ELSE <<>>
Sealed ==
  ~at.enter => (justOpened <=> at.node # Doc /\ dom.first[at.node] = Null)
Walking ==
  /\ out \in Seq(Prints) /\ justOpened \in BOOLEAN
  /\ depth \in Int /\ textDepth \in Int
  /\ Standing(dom, at, Then(Unspaced(out), Pending), names) /\ Sealed

LEMMA UnspacedGap ==
  ASSUME NEW o \in Seq(Prints), NEW sp, Gap(sp)
  PROVE  Then(o, sp) \in Seq(Prints) /\ Unspaced(Then(o, sp)) = Unspaced(o)
<1>1. Unspaced(o \o sp) = Then(Unspaced(o), Unspaced(sp)) /\ Unspaced(sp) = <<>>
  BY GapUnspaced, UnspacedJoin
<1>2. Then(Unspaced(o), <<>>) = Unspaced(o)
  BY UnspacedType, ThenIs
<1>3. Then(o, sp) \in Seq(Prints)
  BY GapUnspaced, ThenIs
<1>4. QED
  BY <1>1, <1>2, <1>3 DEF Then

LEMMA UnspacedMore ==
  ASSUME NEW o \in Seq(Prints), NEW y \in Seq(Prints), Unbroken(y)
  PROVE  Then(o, y) \in Seq(Prints) /\ Unspaced(Then(o, y)) = Then(Unspaced(o), y)
<1>1. Unspaced(o \o y) = Then(Unspaced(o), Unspaced(y)) /\ Unspaced(y) = y
  BY UnspacedJoin, UnspacedPlain
<1>2. Then(o, y) \in Seq(Prints)
  BY ThenIs
<1>3. QED
  BY <1>1, <1>2 DEF Then

LEMMA WalkingIs ==
  ASSUME Shape(dom), Walking
  PROVE  /\ Printing /\ at.node \in Joints
         /\ at = IF at.enter THEN Enter(at.node) ELSE Exit(at.node)
         /\ at.enter => at.node \in Nodes /\ Pending = Seal
<1>1. PICK x : x = Then(Unspaced(out), Pending)
  OBVIOUS
<1>2. Standing(dom, at, x, names)
  BY <1>1 DEF Walking
<1>3. Ready(dom, at, x) /\ (at = Enter(at.node) \/ at = Exit(at.node))
      /\ names \in Seq(Names \cup {Null})
  BY <1>2, StandsReady
<1>4. at = Enter(at.node) => at.enter
  BY DEF Enter
<1>5. at = Exit(at.node) => ~at.enter
  BY DEF Exit
<1>6. QED
  BY <1>3, <1>4, <1>5, SealIs DEF Walking, Printing, Ready, Pending

LEMMA ElementWalked ==
  ASSUME Shape(dom), Walking, VisitEnterElement(dom), dom' = dom PROVE Walking'
<1>1. PICK n : n = at.node
  OBVIOUS
<1>2. /\ Printing /\ n \in Nodes /\ at = Enter(n) /\ Pending = Seal
      /\ dom.kind[n] = "element"
  BY <1>1, WalkingIs DEF VisitEnterElement
<1>3. PICK o \in Seq(Prints), s \in Seq(Prints), t \in Seq(Prints) :
        /\ o = out /\ s = Seal /\ t = Tag(dom, n) /\ Unbroken(s) /\ Unbroken(t)
  BY <1>2, SealIs, TagIs DEF Printing
<1>4. PICK sp : Gap(sp) /\ out' = Then(Then(Then(o, s), sp), t)
  BY <1>1, <1>2, <1>3, ElementPrinted
<1>5. out' \in Seq(Prints) /\ Unspaced(out') = Then(Then(Unspaced(o), s), t)
  <2>1. Then(o, s) \in Seq(Prints) /\ Unspaced(Then(o, s)) = Then(Unspaced(o), s)
    BY <1>3, UnspacedMore
  <2>2. PICK a \in Seq(Prints) : a = Then(o, s)
    BY <2>1
  <2>3. Then(a, sp) \in Seq(Prints) /\ Unspaced(Then(a, sp)) = Unspaced(a)
    BY <1>4, UnspacedGap
  <2>4. PICK b \in Seq(Prints) : b = Then(a, sp)
    BY <2>3
  <2>5. Then(b, t) \in Seq(Prints) /\ Unspaced(Then(b, t)) = Then(Unspaced(b), t)
    BY <1>3, UnspacedMore
  <2>6. QED
    BY <1>4, <2>1, <2>2, <2>3, <2>4, <2>5
<1>6. PICK x : x = Then(Unspaced(o), s)
  OBVIOUS
<1>7. Standing(dom, Enter(n), x, names)
  BY <1>2, <1>3, <1>6 DEF Walking
<1>8. Standing(dom, IF dom.first[n] # Null THEN Enter(dom.first[n]) ELSE Exit(n),
               Then(x, OpeningOf(dom, n)), Append(names, dom.name[n]))
  BY <1>7, StandsElement
<1>9. /\ at' = (IF dom.first[n] # Null THEN Enter(dom.first[n]) ELSE Exit(n))
      /\ names' = Append(names, dom.name[n]) /\ justOpened' = TRUE
      /\ depth' = depth + 1 /\ textDepth' = textDepth
  BY <1>1 DEF VisitEnterElement
<1>10. Pending' = Sealing(dom, n) /\ Sealed'
  <2>1. CASE dom.first[n] # Null
    BY <1>9, <2>1 DEF Pending, Sealing, Enter, Sealed
  <2>2. CASE dom.first[n] = Null
    <3>1. n # Doc
      BY <1>2, JointsAre
    <3>2. at'.node = n /\ ~at'.enter
      BY <1>9, <2>2 DEF Exit
    <3>3. Sealed'
      BY <1>9, <2>2, <3>1, <3>2 DEF Sealed
    <3>4. QED
      BY <1>9, <2>2, <3>2, <3>3 DEF Pending, Sealing
  <2>3. QED
    BY <2>1, <2>2
<1>11. Then(x, OpeningOf(dom, n)) = Then(Unspaced(out'), Pending')
  <2>1. PICK u \in Seq(Prints), z \in Seq(Prints) : u = Then(Unspaced(o), s) /\ z = Sealing(dom, n)
    <3>1. Then(Unspaced(o), s) \in Seq(Prints)
      BY UnspacedType, ThenIs
    <3>2. <<Plain("/>")>> \in Seq(Prints) /\ <<Plain(">")>> \in Seq(Prints)
      BY MarksPrinted
    <3>3. QED
      BY <3>1, <3>2 DEF Sealing
  <2>2. OpeningOf(dom, n) = Then(t, z)
    BY <1>2, <1>3, <2>1, OpeningIs
  <2>3. Then(u, Then(t, z)) = Then(Then(u, t), z)
    BY ThenIs
  <2>4. QED
    BY <1>5, <1>6, <1>10, <2>1, <2>2, <2>3
<1>12. Standing(dom', at', Then(Unspaced(out'), Pending'), names')
  BY <1>8, <1>9, <1>11
<1>13. depth' \in Int /\ textDepth' \in Int /\ justOpened' \in BOOLEAN
  BY <1>9 DEF Walking
<1>14. QED
  BY <1>5, <1>10, <1>12, <1>13 DEF Walking

(* A node without tags.                                                     *)
LEMMA LeafWalked ==
  ASSUME Shape(dom), Walking, dom' = dom, at.enter, NEW n, n = at.node,
         dom.kind[n] \in Kinds \ {"element"},
         NEW sp, Gap(sp), out' = Then(Then(Then(out, Seal), sp), <<Plain(dom.kind[n])>>),
         at' = After(dom, n), names' = names, justOpened' = FALSE,
         depth' \in Int, textDepth' \in Int
  PROVE  Walking'
<1>1. Printing /\ n \in Nodes /\ at = Enter(n) /\ Pending = Seal
  BY WalkingIs
<1>2. Plain(dom.kind[n]) \in Prints /\ Plain(dom.kind[n]) # Space
  BY MarksPrinted DEF Kinds
<1>3. PICK o \in Seq(Prints), s \in Seq(Prints), t \in Seq(Prints) :
        /\ o = out /\ s = Seal /\ t = <<Plain(dom.kind[n])>> /\ Unbroken(s) /\ Unbroken(t)
  <2>1. PICK y \in Prints : y = Plain(dom.kind[n]) /\ y # Space
    BY <1>2
  <2>2. <<y>> \in Seq(Prints) /\ Unbroken(<<y>>)
    BY <2>1, OneUnbroken
  <2>3. QED
    BY <1>1, <2>1, <2>2, SealIs DEF Printing
<1>4. out' \in Seq(Prints) /\ Unspaced(out') = Then(Then(Unspaced(o), s), t)
  <2>1. Then(o, s) \in Seq(Prints) /\ Unspaced(Then(o, s)) = Then(Unspaced(o), s)
    BY <1>3, UnspacedMore
  <2>2. PICK a \in Seq(Prints) : a = Then(o, s)
    BY <2>1
  <2>3. Then(a, sp) \in Seq(Prints) /\ Unspaced(Then(a, sp)) = Unspaced(a)
    BY UnspacedGap
  <2>4. PICK b \in Seq(Prints) : b = Then(a, sp)
    BY <2>3
  <2>5. Then(b, t) \in Seq(Prints) /\ Unspaced(Then(b, t)) = Then(Unspaced(b), t)
    BY <1>3, UnspacedMore
  <2>6. QED
    BY <1>3, <2>1, <2>2, <2>3, <2>4, <2>5
<1>5. PICK x : x = Then(Unspaced(o), s)
  OBVIOUS
<1>6. Standing(dom, Enter(n), x, names)
  BY <1>1, <1>3, <1>5 DEF Walking
<1>7. /\ Standing(dom, After(dom, n), Then(x, OpeningOf(dom, n)), names)
      /\ After(dom, n).enter \/ After(dom, n).node = Doc
         \/ dom.first[After(dom, n).node] # Null
  BY <1>6, StandsLeaf
<1>8. OpeningOf(dom, n) = t
  BY <1>1, <1>3, OpeningIs
<1>9. Pending' = <<>> /\ Sealed'
  BY <1>7 DEF Pending, Sealed
<1>10. Then(Unspaced(out'), Pending') = Unspaced(out')
  <2>1. PICK u \in Seq(Prints) : u = Unspaced(out')
    BY <1>4, UnspacedType
  <2>2. QED
    BY <1>9, <2>1, ThenIs
<1>11. Standing(dom', at', Then(Unspaced(out'), Pending'), names')
  BY <1>4, <1>5, <1>7, <1>8, <1>10
<1>12. QED
  BY <1>4, <1>9, <1>11 DEF Walking

LEMMA OtherWalked ==
  ASSUME Shape(dom), Walking, VisitOther(dom), dom' = dom PROVE Walking'
<1>1. PICK n : n = at.node
  OBVIOUS
<1>2. at.enter /\ dom.kind[n] \in Kinds \ {"element"}
  BY <1>1 DEF VisitOther, Kinds
<1>3. PICK sp : Gap(sp) /\ out' = Then(Then(Then(out, Seal), sp), <<Plain(dom.kind[n])>>)
  BY <1>1, WalkingIs, OtherPrinted
<1>4. /\ at' = After(dom, n) /\ names' = names /\ justOpened' = FALSE
      /\ depth' \in Int /\ textDepth' \in Int
  BY <1>1 DEF VisitOther, Walking
<1>5. QED
  BY <1>1, <1>2, <1>3, <1>4, LeafWalked

LEMMA TextWalked ==
  ASSUME Shape(dom), Walking, VisitText(dom), dom' = dom PROVE Walking'
<1>1. PICK n : n = at.node
  OBVIOUS
<1>2. at.enter /\ dom.kind[n] = "text" /\ dom.kind[n] \in Kinds \ {"element"}
  BY <1>1 DEF VisitText, Kinds
<1>3. PICK sp : sp = <<>> /\ Gap(sp)
  BY GapsAre
<1>4. out' = Then(Then(Then(out, Seal), sp), <<Plain(dom.kind[n])>>)
  <2>1. PICK a \in Seq(Prints) : a = Then(out, Seal)
    BY SealIs, ThenIs DEF Walking
  <2>2. Then(a, sp) = a
    BY <1>3, ThenIs
  <2>3. QED
    BY <1>2, <2>1, <2>2, TextPrinted
<1>5. /\ at' = After(dom, n) /\ names' = names /\ justOpened' = FALSE
      /\ depth' \in Int /\ textDepth' \in Int
  BY <1>1 DEF VisitText, Walking
<1>6. QED
  BY <1>1, <1>2, <1>3, <1>4, <1>5, LeafWalked

-----------------------------------------------------------------------------
LEMMA EndWalked ==
  ASSUME Shape(dom), Walking, VisitExitElement(dom), dom' = dom PROVE Walking'
<1>1. PICK n : n = at.node
  OBVIOUS
<1>2. Printing /\ at = Exit(n) /\ ~at.enter /\ n # Doc
  BY <1>1, WalkingIs DEF VisitExitElement
<1>3. PICK x : x = Then(Unspaced(out), Pending)
  OBVIOUS
<1>4. Standing(dom, Exit(n), x, names)
  BY <1>2, <1>3 DEF Walking
<1>5. /\ n \in Nodes /\ names # <<>> /\ Last(names) = dom.name[n]
      /\ Standing(dom, After(dom, n), Then(x, ClosingOf(dom, n)), Front(names))
      /\ After(dom, n).enter \/ After(dom, n).node = Doc
         \/ dom.first[After(dom, n).node] # Null
  BY <1>2, <1>4, StandsExit
<1>6. /\ names' = Front(names) /\ at' = After(dom, n) /\ justOpened' = FALSE
      /\ depth' \in Int /\ textDepth' \in Int
  BY <1>1 DEF VisitExitElement, Walking
<1>7. Pending' = <<>> /\ Sealed'
  BY <1>5, <1>6 DEF Pending, Sealed
<1>8. PICK g : /\ Gap(g)
               /\ justOpened => out' = Then(Then(out, <<Plain("/>")>>), g)
               /\ ~justOpened => \E sp : /\ Gap(sp)
                                         /\ out' = Then(Then(Then(out, sp), EndTag), g)
  BY <1>2, <1>5, EndPrinted
<1>9. PICK o \in Seq(Prints) : o = out
  BY DEF Walking
<1>10. out' \in Seq(Prints) /\ Unspaced(out') = Then(x, ClosingOf(dom, n))
  <2>1. CASE justOpened
    <3>1. dom.first[n] = Null
      BY <1>1, <1>2, <2>1 DEF Walking, Sealed
    <3>2. ClosingOf(dom, n) = <<>>
      BY <3>1 DEF ClosingOf
    <3>3. PICK y : y = Plain("/>") /\ y \in Prints /\ y # Space
      <4>1. Plain("/>") \in Prints /\ Plain("/>") # Space
        BY MarksPrinted
      <4>2. QED
        BY <4>1
    <3>4. PICK z : z = <<y>>
      OBVIOUS
    <3>5. z \in Seq(Prints) /\ Unbroken(z)
      BY <3>3, <3>4, OneUnbroken
    <3>6. Then(o, z) \in Seq(Prints) /\ Unspaced(Then(o, z)) = Then(Unspaced(o), z)
      BY <3>5, UnspacedMore
    <3>7. PICK a \in Seq(Prints) : a = Then(o, z)
      BY <3>6
    <3>8. Then(a, g) \in Seq(Prints) /\ Unspaced(Then(a, g)) = Unspaced(a)
      BY <1>8, UnspacedGap
    <3>9. Pending = z
      BY <1>2, <2>1, <3>3, <3>4 DEF Pending
    <3>10. out' = Then(a, g)
      BY <1>8, <1>9, <2>1, <3>3, <3>4, <3>7
    <3>11. x = Then(Unspaced(o), z) /\ x \in Seq(Prints)
      BY <1>3, <1>9, <3>5, <3>9, UnspacedType, ThenIs
    <3>12. Then(x, <<>>) = x
      BY <3>11, ThenIs
    <3>13. QED
      BY <3>2, <3>6, <3>7, <3>8, <3>10, <3>11, <3>12
  <2>2. CASE ~justOpened
    <3>1. dom.first[n] # Null
      BY <1>1, <1>2, <2>2 DEF Walking, Sealed
    <3>2. ClosingOf(dom, n) = EndTag
      BY <1>5, <3>1 DEF ClosingOf, EndTag
    <3>3. PICK y : y = <<"</", Last(names)>> /\ y \in Prints /\ y # Space
      <4>1. <<"</", Last(names)>> \in Prints /\ <<"</", Last(names)>> # Space
        BY <1>2, <1>5, EndPrinted
      <4>2. QED
        BY <4>1
    <3>4. PICK z : z = <<y>>
      OBVIOUS
    <3>5. z \in Seq(Prints) /\ Unbroken(z)
      BY <3>3, <3>4, OneUnbroken
    <3>6. EndTag = z
      BY <3>3, <3>4 DEF EndTag
    <3>7. PICK sp : Gap(sp) /\ out' = Then(Then(Then(out, sp), EndTag), g)
      BY <1>8, <2>2
    <3>8. Then(o, sp) \in Seq(Prints) /\ Unspaced(Then(o, sp)) = Unspaced(o)
      BY <3>7, UnspacedGap
    <3>9. PICK a \in Seq(Prints) : a = Then(o, sp)
      BY <3>8
    <3>10. Then(a, z) \in Seq(Prints) /\ Unspaced(Then(a, z)) = Then(Unspaced(a), z)
      BY <3>5, UnspacedMore
    <3>11. PICK b \in Seq(Prints) : b = Then(a, z)
      BY <3>10
    <3>12. Then(b, g) \in Seq(Prints) /\ Unspaced(Then(b, g)) = Unspaced(b)
      BY <1>8, UnspacedGap
    <3>13. out' = Then(b, g)
      BY <1>9, <3>6, <3>7, <3>9, <3>11
    <3>14. x = Unspaced(o)
      <4>1. Pending = <<>>
        BY <2>2 DEF Pending
      <4>2. QED
        BY <1>3, <1>9, <4>1, UnspacedType, ThenIs
    <3>15. QED
      BY <3>2, <3>6, <3>8, <3>9, <3>10, <3>11, <3>12, <3>13, <3>14
  <2>3. QED
    BY <2>1, <2>2
<1>11. Then(Unspaced(out'), Pending') = Unspaced(out')
  <2>1. PICK u \in Seq(Prints) : u = Unspaced(out')
    BY <1>10, UnspacedType
  <2>2. QED
    BY <1>7, <2>1, ThenIs
<1>12. Standing(dom', at', Then(Unspaced(out'), Pending'), names')
  BY <1>5, <1>6, <1>10, <1>11
<1>13. QED
  BY <1>6, <1>7, <1>10, <1>12 DEF Walking

LEMMA StepWalked ==
  ASSUME Shape(dom), Walking, PrinterStep(dom), dom' = dom PROVE Walking'
BY ElementWalked, EndWalked, TextWalked, OtherWalked DEF PrinterStep

LEMMA BeginWalked ==
  ASSUME Shape(dom), NEW c, PrintDocument(dom, c), dom' = dom PROVE Walking'
<1>1. /\ out' = <<>> /\ justOpened' = FALSE /\ names' = <<>> /\ depth' = 0 /\ textDepth' = -1
      /\ at' = IF dom.first[Doc] # Null THEN Enter(dom.first[Doc]) ELSE Nowhere
  BY DEF PrintDocument
<1>2. Pending' = <<>> /\ Unspaced(out') = <<>> /\ out' \in Seq(Prints)
  BY <1>1, UnspacedSpace, EmptySeq DEF Pending
<1>3. Then(Unspaced(out'), Pending') = <<>>
  <2>1. PICK e \in Seq(Prints) : e = <<>>
    BY EmptySeq
  <2>2. Then(e, <<>>) = e
    BY ThenIs
  <2>3. QED
    BY <1>2, <2>1, <2>2
<1>4. Standing(dom, at', <<>>, <<>>)
  BY <1>1, StandsFirst
<1>5. Sealed'
  <2>1. at'.enter \/ at'.node = Doc
    BY <1>1 DEF Nowhere, Exit, Enter
  <2>2. QED
    BY <1>1, <2>1 DEF Sealed
<1>6. Standing(dom', at', Then(Unspaced(out'), Pending'), names')
  <2>1. PICK e : e = <<>>
    OBVIOUS
  <2>2. Then(Unspaced(out'), Pending') = e /\ names' = e
    BY <1>1, <1>3, <2>1
  <2>3. Standing(dom, at', e, e)
    BY <1>4, <2>1
  <2>4. dom' = dom
    OBVIOUS
  <2>5. QED
    BY <2>2, <2>3, <2>4
<1>7. depth' \in Int /\ textDepth' \in Int /\ justOpened' \in BOOLEAN
  <2>1. depth' = 0 /\ justOpened' = FALSE
    BY <1>1
  <2>2. textDepth' = -1
    BY DEF PrintDocument
  <2>3. depth' \in Int
    BY <2>1
  <2>4. textDepth' \in Int
    BY <2>2
  <2>5. justOpened' \in BOOLEAN
    BY <2>1
  <2>6. QED
    BY <2>3, <2>4, <2>5
<1>8. QED
  BY <1>2, <1>5, <1>6, <1>7 DEF Walking

LEMMA WalkedTree ==
  ASSUME Shape(dom), Walking, at = Nowhere PROVE Unspaced(out) = Written(dom)
<1>1. ~at.enter /\ at.node = Doc
  BY DEF Nowhere, Exit
<1>2. Pending = <<>>
  BY <1>1 DEF Walking, Sealed, Pending
<1>3. PICK x : x = Then(Unspaced(out), Pending)
  OBVIOUS
<1>4. x = Unspaced(out)
  BY <1>2, <1>3, UnspacedType, ThenIs DEF Walking
<1>5. Standing(dom, Nowhere, x, names)
  BY <1>3 DEF Walking
<1>6. QED
  BY <1>4, <1>5, StandsEnd

-----------------------------------------------------------------------------
(* How many elements are open behind a place of the output.                 *)
Often(z, k, what) == Cardinality({j \in 1..k : z[j][1] = what})
Nesting(z, k) == Often(z, k, "<") - (Often(z, k, "</") + Often(z, k, "/>"))
Step(y) == IF y[1] = "<" THEN 1 ELSE IF y[1] \in {"</", "/>"} THEN -1 ELSE 0

LEMMA OftenNext ==
  ASSUME NEW z, NEW what, NEW k \in Nat
  PROVE  /\ Often(z, k, what) \in Nat
         /\ Often(z, k + 1, what) = Often(z, k, what) + IF z[k + 1][1] = what THEN 1 ELSE 0
<1>1. PICK S : S = {i \in 1..k : z[i][1] = what}
  OBVIOUS
<1>2. IsFiniteSet(S)
  <2>1. IsFiniteSet(1..k) /\ S \subseteq 1..k
    BY <1>1, FS_Interval
  <2>2. QED
    BY <2>1, FS_Subset
<1>3. Cardinality(S) \in Nat
  BY <1>2, FS_CardinalityType
<1>4. PICK T : T = {i \in 1..(k + 1) : z[i][1] = what}
  OBVIOUS
<1>5. k + 1 \notin S /\ T = IF z[k + 1][1] = what THEN S \cup {k + 1} ELSE S
  BY <1>1, <1>4
<1>6. Cardinality(T) = Cardinality(S) + IF z[k + 1][1] = what THEN 1 ELSE 0
  <2>1. Cardinality(S \cup {k + 1}) = Cardinality(S) + 1
    BY <1>2, <1>5, FS_AddElement
  <2>2. QED
    BY <1>3, <1>5, <2>1
<1>7. QED
  BY <1>1, <1>3, <1>4, <1>6 DEF Often

LEMMA NestingNext ==
  ASSUME NEW z, NEW k \in Nat
  PROVE  /\ Nesting(z, k) \in Int /\ Nesting(z, k + 1) = Nesting(z, k) + Step(z[k + 1])
         /\ Nesting(z, k) > 0 <=> Often(z, k, "<") > Often(z, k, "</") + Often(z, k, "/>")
<1>1. PICK a \in Nat, b \in Nat, c \in Nat :
        a = Often(z, k, "<") /\ b = Often(z, k, "</") /\ c = Often(z, k, "/>")
  BY OftenNext
<1>2. PICK y : y = z[k + 1][1]
  OBVIOUS
<1>3. /\ Often(z, k + 1, "<") = a + IF y = "<" THEN 1 ELSE 0
      /\ Often(z, k + 1, "</") = b + IF y = "</" THEN 1 ELSE 0
      /\ Often(z, k + 1, "/>") = c + IF y = "/>" THEN 1 ELSE 0
  BY <1>1, <1>2, OftenNext
<1>4. Step(z[k + 1]) = IF y = "<" THEN 1 ELSE IF y \in {"</", "/>"} THEN -1 ELSE 0
  BY <1>2 DEF Step
<1>5. Nesting(z, k) = a - (b + c)
  BY <1>1 DEF Nesting
<1>6. Nesting(z, k + 1) = Often(z, k + 1, "<") - (Often(z, k + 1, "</") + Often(z, k + 1, "/>"))
  BY DEF Nesting
<1>7. CASE y = "<"
  BY <1>3, <1>4, <1>5, <1>6, <1>7, <1>1
<1>8. CASE y = "</"
  BY <1>3, <1>4, <1>5, <1>6, <1>8, <1>1
<1>9. CASE y = "/>"
  BY <1>3, <1>4, <1>5, <1>6, <1>9, <1>1
<1>10. CASE y \notin {"<", "</", "/>"}
  BY <1>3, <1>4, <1>5, <1>6, <1>10, <1>1
<1>11. Nesting(z, k + 1) = Nesting(z, k) + Step(z[k + 1])
  BY <1>7, <1>8, <1>9, <1>10
<1>12. QED
  BY <1>1, <1>5, <1>11

LEMMA NestingNone == ASSUME NEW z PROVE Nesting(z, 0) = 0
<1>1. \A what : {i \in 1..0 : z[i][1] = what} = {}
  OBVIOUS
<1>2. \A what : Often(z, 0, what) = 0
  BY <1>1, FS_EmptySet DEF Often
<1>3. QED
  BY <1>2 DEF Nesting

LEMMA NestingSame ==
  ASSUME NEW z, NEW w, NEW k \in Nat, \A i \in 1..k : w[i] = z[i]
  PROVE  Nesting(w, k) = Nesting(z, k)
<1>1. \A what : {i \in 1..k : w[i][1] = what} = {i \in 1..k : z[i][1] = what}
  OBVIOUS
<1>2. \A what : Often(w, k, what) = Often(z, k, what)
  BY <1>1 DEF Often
<1>3. QED
  BY <1>2 DEF Nesting

(* zy is y behind z.                                                        *)
Lengthened(z, m, y, n, zy) ==
  /\ m \in Nat /\ n \in Nat
  /\ \A i \in 1..m : zy[i] = z[i]
  /\ \A i \in 1..n : zy[m + i] = y[i]

LEMMA NestingJoin ==
  ASSUME NEW z, NEW m, NEW y, NEW n, NEW zy, Lengthened(z, m, y, n, zy)
  PROVE  Nesting(zy, m + n) = Nesting(z, m) + Nesting(y, n)
<1>1. m \in Nat /\ n \in Nat
  BY DEF Lengthened
<1>2. PICK b \in Int : b = Nesting(z, m)
  BY <1>1, NestingNext
<1>3. Nesting(zy, m) = b
  BY <1>1, <1>2, NestingSame DEF Lengthened
<1> DEFINE S == {j \in Nat : j <= n => Nesting(zy, m + j) = b + Nesting(y, j)}
<1>4. 0 \in S
  <2>1. Nesting(y, 0) = 0 /\ m + 0 = m /\ b + 0 = b
    BY <1>1, NestingNone
  <2>2. QED
    BY <1>3, <2>1
<1>5. ASSUME NEW j \in Nat, j \in S PROVE j + 1 \in S
  <2> SUFFICES ASSUME j + 1 <= n PROVE Nesting(zy, m + (j + 1)) = b + Nesting(y, j + 1)
    OBVIOUS
  <2>1. j <= n /\ j + 1 \in 1..n
    BY <1>1
  <2>2. Nesting(zy, m + j) = b + Nesting(y, j)
    BY <1>5, <2>1
  <2>3. zy[m + (j + 1)] = y[j + 1]
    BY <2>1 DEF Lengthened
  <2>4. PICK k \in Nat : k = m + j /\ k + 1 = m + (j + 1)
    BY <1>1
  <2>5. PICK c \in Int, e \in Int : c = Nesting(zy, k) /\ e = Nesting(y, j)
    BY NestingNext
  <2>6. PICK f : f = Step(y[j + 1])
    OBVIOUS
  <2>7. f \in Int
    BY <2>6 DEF Step
  <2>8. Nesting(zy, k + 1) = c + f
    BY <2>3, <2>4, <2>5, <2>6, NestingNext
  <2>9. Nesting(y, j + 1) = e + f
    BY <2>5, <2>6, NestingNext
  <2>10. c = b + e
    BY <2>2, <2>4, <2>5
  <2>11. QED
    BY <2>4, <2>5, <2>7, <2>8, <2>9, <2>10
<1>6. n \in S
  <2> HIDE DEF S
  <2> QED
    BY <1>1, <1>4, <1>5, AllNaturals
<1>7. QED
  BY <1>1, <1>2, <1>6

(* No text of an element stands next to white space.                         *)
Text == Plain("text")
Beside(z, k, i) ==
  z[i] = Text /\ Nesting(z, i) > 0 =>
    (i = 1 \/ z[i - 1] # Space) /\ (i = k \/ z[i + 1] # Space)
Spaces(z) == z \in Seq(Prints) /\ \A i \in 1..Len(z) : Beside(z, Len(z), i)

(* y can stand behind z: a text only alone.                                 *)
Single(y, n, r) ==
  Nesting(y, n) = r /\ \A i \in 1..n : y[i] = Text => n = 1 /\ r = 0
Fits(z, m, y, n) ==
  m > 0 /\ n > 0 /\ Nesting(z, m) > 0 =>
    ~(z[m] = Text /\ y[1] = Space) /\ ~(z[m] = Space /\ y[1] = Text)

LEMMA SpacesJoin ==
  ASSUME NEW z, Spaces(z), NEW y \in Seq(Prints), NEW r \in Int, Single(y, Len(y), r),
         Fits(z, Len(z), y, Len(y))
  PROVE  /\ Spaces(Then(z, y))
         /\ Nesting(Then(z, y), Len(Then(z, y))) = Nesting(z, Len(z)) + r
         /\ Len(Then(z, y)) = Len(z) + Len(y)
         /\ Len(y) > 0 => Then(z, y)[Len(z) + Len(y)] = y[Len(y)]
<1>1. z \in Seq(Prints)
  BY DEF Spaces
<1>2. PICK m \in Nat, n \in Nat : m = Len(z) /\ n = Len(y)
  BY <1>1, LenProperties
<1>3. PICK zy : zy = z \o y
  OBVIOUS
<1>4. /\ zy \in Seq(Prints) /\ Len(zy) = m + n
      /\ \A i \in 1..(m + n) : zy[i] = IF i <= m THEN z[i] ELSE y[i - m]
  BY <1>1, <1>2, <1>3, ConcatProperties
<1>5. \A i \in 1..m : zy[i] = z[i]
  BY <1>4
<1>6. \A i \in 1..n : zy[m + i] = y[i]
  <2> SUFFICES ASSUME NEW i \in 1..n PROVE zy[m + i] = y[i]
    OBVIOUS
  <2>1. m + i \in 1..(m + n) /\ ~(m + i <= m) /\ (m + i) - m = i
    OBVIOUS
  <2>2. QED
    BY <1>4, <2>1
<1>7. Nesting(zy, m + n) = Nesting(z, m) + r
  <2>1. Lengthened(z, m, y, n, zy)
    BY <1>5, <1>6 DEF Lengthened
  <2>2. QED
    BY <1>2, <2>1, NestingJoin DEF Single
<1>8. ASSUME NEW i \in 1..(m + n), zy[i] = Text, Nesting(zy, i) > 0
      PROVE  (i = 1 \/ zy[i - 1] # Space) /\ (i = m + n \/ zy[i + 1] # Space)
  <2>1. CASE i <= m
    <3>1. i \in 1..m /\ i \in Nat
      BY <2>1
    <3>2. z[i] = Text /\ Nesting(z, i) > 0
      <4>1. \A j \in 1..i : zy[j] = z[j]
        BY <1>5, <3>1
      <4>2. Nesting(zy, i) = Nesting(z, i)
        BY <3>1, <4>1, NestingSame
      <4>3. QED
        BY <1>5, <1>8, <3>1, <4>2
    <3>3. (i = 1 \/ z[i - 1] # Space) /\ (i = m \/ z[i + 1] # Space)
      BY <1>2, <3>1, <3>2 DEF Spaces, Beside
    <3>4. i = 1 \/ zy[i - 1] # Space
      <4>1. i # 1 => i - 1 \in 1..m
        BY <3>1
      <4>2. QED
        BY <1>5, <3>3, <4>1
    <3>5. i = m + n \/ zy[i + 1] # Space
      <4>1. CASE i # m
        <5>1. i + 1 \in 1..m
          BY <3>1, <4>1
        <5>2. QED
          BY <1>5, <3>3, <4>1, <5>1
      <4>2. CASE i = m /\ n > 0
        <5>1. 1 \in 1..n /\ m > 0
          BY <3>1, <4>2
        <5>2. zy[m + 1] = y[1]
          BY <1>6, <5>1
        <5>3. y[1] # Space
          BY <1>2, <3>2, <4>2, <5>1 DEF Fits
        <5>4. QED
          BY <4>2, <5>2, <5>3
      <4>3. QED
        BY <4>1, <4>2
    <3>6. QED
      BY <3>4, <3>5
  <2>2. CASE ~(i <= m)
    <3>1. PICK j \in 1..n : i = m + j
      <4>1. i - m \in 1..n /\ i = m + (i - m)
        BY <2>2
      <4>2. QED
        BY <4>1
    <3>2. y[j] = Text
      BY <1>6, <1>8, <3>1
    <3>3. n = 1 /\ r = 0
      BY <1>2, <3>2 DEF Single
    <3>4. i = m + 1 /\ i = m + n /\ i - 1 = m /\ y[1] = Text
      BY <3>1, <3>2, <3>3
    <3>5. Nesting(z, m) > 0
      <4>1. PICK b \in Int : b = Nesting(z, m)
        BY NestingNext
      <4>2. QED
        BY <1>7, <1>8, <3>3, <3>4, <4>1
    <3>6. CASE m = 0
      BY <3>4, <3>6
    <3>7. CASE m > 0
      <4>1. z[m] # Space
        BY <1>2, <3>3, <3>4, <3>5, <3>7 DEF Fits
      <4>2. zy[m] = z[m]
        BY <1>5, <3>7
      <4>3. QED
        BY <3>4, <4>1, <4>2
    <3>8. QED
      BY <3>6, <3>7
  <2>3. QED
    BY <2>1, <2>2
<1>9. Spaces(zy)
  BY <1>4, <1>8 DEF Spaces, Beside
<1>10. n > 0 => zy[m + n] = y[n]
  <2>1. n > 0 => n \in 1..n
    OBVIOUS
  <2>2. QED
    BY <1>6, <2>1
<1>11. QED
  BY <1>2, <1>3, <1>4, <1>7, <1>9, <1>10 DEF Then

-----------------------------------------------------------------------------
EndsIn(z, y) == Len(z) > 0 /\ z[Len(z)] = y

LEMMA OneJoined ==
  ASSUME NEW z, Spaces(z), NEW x \in Prints,
         Len(z) > 0 /\ Nesting(z, Len(z)) > 0 =>
           ~(z[Len(z)] = Text /\ x = Space) /\ ~(z[Len(z)] = Space /\ x = Text)
  PROVE  LET w == Then(z, <<x>>) IN
         /\ Spaces(w) /\ EndsIn(w, x) /\ Nesting(w, Len(w)) = Nesting(z, Len(z)) + Step(x)
<1>1. PICK y : y = <<x>>
  OBVIOUS
<1>2. y \in Seq(Prints) /\ Len(y) = 1 /\ y[1] = x
  BY ONLY x \in Prints, <1>1
<1>3. PICK r \in Int : r = Step(x)
  BY DEF Step
<1>4. Nesting(y, 1) = r
  <2>1. Nesting(y, 0 + 1) = Nesting(y, 0) + Step(y[0 + 1]) /\ Nesting(y, 0) = 0
    BY NestingNext, NestingNone
  <2>2. QED
    BY <1>2, <1>3, <2>1
<1>5. x = Text => r = 0
  <2>1. Text[1] = "text"
    BY DEF Text, Plain
  <2>2. QED
    BY <1>3, <2>1 DEF Step
<1>6. Single(y, Len(y), r)
  <2>1. \A i \in 1..1 : i = 1
    OBVIOUS
  <2>2. QED
    BY <1>2, <1>4, <1>5, <2>1 DEF Single
<1>7. Fits(z, Len(z), y, Len(y))
  BY <1>2 DEF Fits
<1>8. /\ Spaces(Then(z, y))
      /\ Nesting(Then(z, y), Len(Then(z, y))) = Nesting(z, Len(z)) + r
      /\ Len(Then(z, y)) = Len(z) + Len(y)
      /\ Len(y) > 0 => Then(z, y)[Len(z) + Len(y)] = y[Len(y)]
  BY <1>2, <1>6, <1>7, SpacesJoin
<1>9. Len(z) \in Nat
  BY LenProperties DEF Spaces
<1>10. EndsIn(Then(z, y), x)
  BY <1>2, <1>8, <1>9 DEF EndsIn
<1>11. QED
  BY <1>1, <1>3, <1>8, <1>10

LEMMA StepsAre ==
  /\ Step(Plain(">")) = 0 /\ Step(Plain("/>")) = -1 /\ Step(Space) = 0 /\ Step(Text) = 0
  /\ \A name : Step(<<"</", name>>) = -1
  /\ \A kind \in Kinds : Step(Plain(kind)) = 0
  /\ Space # Text /\ \A what : what # "text" => Plain(what) # Text
<1>1. \A what : Plain(what)[1] = what
  BY DEF Plain
<1>2. QED
  BY <1>1 DEF Step, Space, Text, Kinds

LEMMA TagJoined ==
  ASSUME NEW d, Shape(d), NEW n \in Nodes, NEW z, Spaces(z)
  PROVE  LET w == Then(z, Tag(d, n)) IN
         /\ Spaces(w) /\ ~EndsIn(w, Space) /\ ~EndsIn(w, Text)
         /\ Nesting(w, Len(w)) = Nesting(z, Len(z)) + 1
<1>1. PICK a \in Seq(Prints), b \in Seq(Prints) :
        /\ a = << <<"<", d.name[n]>> >>
        /\ Tag(d, n) = Then(a, b)
        /\ \A i \in 1..Len(b) : b[i][1] = "attribute"
  BY TagIs
<1>2. Len(a) = 1 /\ a[1][1] = "<"
  BY <1>1
<1>3. PICK k \in Nat : k = Len(b)
  BY LenProperties
<1>4. PICK y : y = a \o b
  OBVIOUS
<1>5. /\ y \in Seq(Prints) /\ Len(y) = 1 + k
      /\ \A i \in 1..(1 + k) : y[i] = IF i <= 1 THEN a[i] ELSE b[i - 1]
  <2>1. PICK m \in Nat : m = Len(a)
    BY LenProperties
  <2>2. /\ y \in Seq(Prints) /\ Len(y) = m + k
        /\ \A i \in 1..(m + k) : y[i] = IF i <= m THEN a[i] ELSE b[i - m]
    BY <1>3, <1>4, <2>1, ConcatProperties
  <2>3. m = 1
    BY <1>2, <2>1
  <2>4. QED
    BY <2>2, <2>3
<1>6. y[1] = a[1] /\ \A i \in 1..k : y[1 + i] = b[i]
  <2>1. y[1] = a[1]
    BY <1>5
  <2>2. ASSUME NEW i \in 1..k PROVE y[1 + i] = b[i]
    <3>1. 1 + i \in 1..(1 + k) /\ ~(1 + i <= 1) /\ (1 + i) - 1 = i
      OBVIOUS
    <3>2. QED
      BY <1>5, <3>1
  <2>3. QED
    BY <2>1, <2>2
<1>7. \A i \in 1..(1 + k) : y[i][1] \in {"<", "attribute"}
  <2> SUFFICES ASSUME NEW i \in 1..(1 + k) PROVE y[i][1] \in {"<", "attribute"}
    OBVIOUS
  <2>1. CASE i = 1
    BY <1>2, <1>6, <2>1
  <2>2. CASE i # 1
    <3>1. PICK j \in 1..k : i = 1 + j
      <4>1. i - 1 \in 1..k /\ i = 1 + (i - 1)
        BY <2>2
      <4>2. QED
        BY <4>1
    <3>2. y[i] = b[j] /\ b[j][1] = "attribute"
      BY <1>1, <1>3, <1>6, <3>1
    <3>3. QED
      BY <3>2
  <2>3. QED
    BY <2>1, <2>2
<1>8. Text[1] = "text" /\ Space[1] = "space"
  BY DEF Text, Space, Plain
<1>9. \A i \in 1..(1 + k) : y[i] # Text /\ y[i] # Space
  BY <1>7, <1>8
<1>10. Nesting(b, k) = 0
  <2>1. \A what \in {"<", "</", "/>"} : {i \in 1..k : b[i][1] = what} = {}
    BY <1>1, <1>3
  <2>2. \A what \in {"<", "</", "/>"} : Often(b, k, what) = 0
    BY <2>1, FS_EmptySet DEF Often
  <2>3. QED
    BY <2>2 DEF Nesting
<1>11. Nesting(a, 1) = 1
  <2>1. Nesting(a, 0 + 1) = Nesting(a, 0) + Step(a[0 + 1]) /\ Nesting(a, 0) = 0
    BY NestingNext, NestingNone
  <2>2. Step(a[1]) = 1
    BY <1>2 DEF Step
  <2>3. QED
    BY <2>1, <2>2
<1>12. Nesting(y, 1 + k) = 1
  <2>1. \A i \in 1..1 : i = 1
    OBVIOUS
  <2>2. Lengthened(a, 1, b, k, y)
    BY <1>6, <2>1 DEF Lengthened
  <2>3. Nesting(y, 1 + k) = Nesting(a, 1) + Nesting(b, k)
    BY <2>2, NestingJoin
  <2>4. QED
    BY <1>10, <1>11, <2>3
<1>13. PICK r \in Int : r = 1 /\ Single(y, Len(y), r)
  <2>1. PICK r \in Int : r = 1
    OBVIOUS
  <2>2. Nesting(y, Len(y)) = r /\ \A i \in 1..Len(y) : y[i] # Text
    BY <1>5, <1>9, <1>12, <2>1
  <2>3. Single(y, Len(y), r)
    BY <2>2 DEF Single
  <2>4. QED
    BY <2>1, <2>3
<1>14. 1 \in 1..(1 + k) /\ 1 + k \in 1..(1 + k) /\ 1 + k > 0
  OBVIOUS
<1>15. Fits(z, Len(z), y, Len(y))
  BY <1>9, <1>14 DEF Fits
<1>16. /\ Spaces(Then(z, y))
       /\ Nesting(Then(z, y), Len(Then(z, y))) = Nesting(z, Len(z)) + 1
       /\ Len(Then(z, y)) = Len(z) + Len(y)
       /\ Len(y) > 0 => Then(z, y)[Len(z) + Len(y)] = y[Len(y)]
  BY <1>5, <1>13, <1>15, SpacesJoin
<1>17. Then(z, y)[Len(Then(z, y))] = y[1 + k]
  BY <1>5, <1>14, <1>16
<1>18. ~EndsIn(Then(z, y), Space) /\ ~EndsIn(Then(z, y), Text)
  BY <1>9, <1>14, <1>17 DEF EndsIn
<1>19. Tag(d, n) = y
  BY <1>1, <1>4 DEF Then
<1>20. QED
  BY <1>16, <1>18, <1>19

LEMMA NoneJoined == ASSUME NEW z, Spaces(z) PROVE Then(z, <<>>) = z
BY ThenIs DEF Spaces

-----------------------------------------------------------------------------
(* No text of an element stands next to white space; neither will the next   *)
(* piece be white space behind such a text, nor a text behind white space.  *)
Guarded(z, r, t) ==
  /\ Spaces(z) /\ Nesting(z, Len(z)) = r
  /\ r > 0 => ~EndsIn(z, Space) /\ (EndsIn(z, Text) => t >= 0)
Spacing == Guarded(out, depth, textDepth)

LEMMA SealJoined ==
  ASSUME Printing, Spacing
  PROVE  Guarded(Then(out, Seal), depth, textDepth)
<1>1. Spaces(out) /\ Nesting(out, Len(out)) = depth /\ depth \in Int
  BY DEF Spacing, Guarded, Printing
<1>2. CASE justOpened
  <2>1. PICK y \in Prints : y = Plain(">") /\ y # Space /\ y # Text /\ Step(y) = 0
    <3>1. Plain(">") \in Prints /\ Plain(">") # Space
      BY MarksPrinted
    <3>2. Plain(">") # Text /\ Step(Plain(">")) = 0
      BY StepsAre
    <3>3. QED
      BY <3>1, <3>2
  <2>2. PICK w : w = Then(out, <<y>>)
    OBVIOUS
  <2>3. Spaces(w) /\ EndsIn(w, y) /\ Nesting(w, Len(w)) = Nesting(out, Len(out)) + Step(y)
    BY <1>1, <2>1, <2>2, OneJoined
  <2>4. ~EndsIn(w, Space) /\ ~EndsIn(w, Text)
    BY <2>1, <2>3 DEF EndsIn
  <2>5. Nesting(w, Len(w)) = depth
    BY <1>1, <2>1, <2>3
  <2>6. Guarded(w, depth, textDepth)
    BY <2>3, <2>4, <2>5 DEF Guarded
  <2>7. Seal = <<y>>
    BY <1>2, <2>1, SealIs
  <2>8. QED
    BY <2>2, <2>6, <2>7
<1>3. CASE ~justOpened
  <2>1. Seal = <<>>
    BY <1>3, SealIs
  <2>2. Then(out, Seal) = out
    BY <1>1, <2>1, NoneJoined
  <2>3. QED
    BY <2>2 DEF Spacing
<1>4. QED
  BY <1>2, <1>3

(* White space where there is no text, or outside of all elements.           *)
LEMMA GapJoined ==
  ASSUME NEW z, NEW r \in Int, NEW t, Guarded(z, r, t), NEW sp, Gap(sp),
         sp # <<>> => ~(t >= 0) \/ r = 0
  PROVE  /\ Spaces(Then(z, sp)) /\ Nesting(Then(z, sp), Len(Then(z, sp))) = r
         /\ sp = <<>> => Then(z, sp) = z
<1>1. Spaces(z) /\ Nesting(z, Len(z)) = r
  BY DEF Guarded
<1>2. CASE sp = <<>>
  <2>1. Then(z, sp) = z
    BY <1>1, <1>2, NoneJoined
  <2>2. QED
    BY <1>1, <2>1
<1>3. CASE sp # <<>>
  <2>1. PICK y \in Prints : y = Space /\ y # Text /\ Step(y) = 0
    BY MarksPrinted, StepsAre DEF Space
  <2>2. Len(z) > 0 /\ r > 0 => z[Len(z)] # Text
    BY <1>3 DEF Guarded, EndsIn
  <2>3. PICK w : w = Then(z, <<y>>)
    OBVIOUS
  <2>4. Spaces(w) /\ Nesting(w, Len(w)) = Nesting(z, Len(z)) + Step(y)
    BY <1>1, <2>1, <2>2, <2>3, OneJoined
  <2>5. Nesting(w, Len(w)) = r
    BY <1>1, <2>1, <2>4
  <2>6. sp = <<y>>
    BY <1>3, <2>1 DEF Gap
  <2>7. QED
    BY <1>3, <2>3, <2>4, <2>5, <2>6
<1>4. QED
  BY <1>2, <1>3

(* A piece that is neither.                                                 *)
LEMMA MarkJoined ==
  ASSUME NEW z, NEW r \in Int, Spaces(z), Nesting(z, Len(z)) = r,
         NEW y \in Prints, y # Space, y # Text, NEW t
  PROVE  Guarded(Then(z, <<y>>), r + Step(y), t)
<1>1. PICK w : w = Then(z, <<y>>)
  OBVIOUS
<1>2. Spaces(w) /\ EndsIn(w, y) /\ Nesting(w, Len(w)) = r + Step(y)
  BY <1>1, OneJoined
<1>3. ~EndsIn(w, Space) /\ ~EndsIn(w, Text)
  BY <1>2 DEF EndsIn
<1>4. QED
  BY <1>1, <1>2, <1>3 DEF Guarded

LEMMA ElementSpaced ==
  ASSUME Printing, Spacing, at.node \in Nodes, VisitEnterElement(dom) PROVE Spacing'
<1>1. PICK sp : /\ Gap(sp) /\ (sp # <<>> => ~(textDepth >= 0))
                /\ out' = Then(Then(Then(out, Seal), sp), Tag(dom, at.node))
  BY ElementPrinted
<1>2. PICK z : z = Then(Then(out, Seal), sp)
  OBVIOUS
<1>3. depth \in Int /\ Shape(dom)
  BY DEF Printing
<1>4. Spaces(z) /\ Nesting(z, Len(z)) = depth
  BY <1>1, <1>2, <1>3, SealJoined, GapJoined
<1>5. /\ Spaces(out') /\ ~EndsIn(out', Space) /\ ~EndsIn(out', Text)
      /\ Nesting(out', Len(out')) = Nesting(z, Len(z)) + 1
  BY <1>1, <1>2, <1>3, <1>4, TagJoined
<1>6. depth' = depth + 1
  BY DEF VisitEnterElement
<1>7. QED
  BY <1>4, <1>5, <1>6 DEF Spacing, Guarded

LEMMA OtherSpaced ==
  ASSUME Printing, Spacing, VisitOther(dom) PROVE Spacing'
<1>1. PICK sp : /\ Gap(sp) /\ (sp # <<>> => ~(textDepth >= 0))
                /\ out' = Then(Then(Then(out, Seal), sp), <<Plain(dom.kind[at.node])>>)
  BY OtherPrinted
<1>2. PICK z : z = Then(Then(out, Seal), sp)
  OBVIOUS
<1>3. depth \in Int /\ Shape(dom) /\ depth' = depth
  BY DEF Printing, VisitOther
<1>4. Spaces(z) /\ Nesting(z, Len(z)) = depth
  BY <1>1, <1>2, <1>3, SealJoined, GapJoined
<1>5. PICK y \in Prints : y = Plain(dom.kind[at.node]) /\ y # Space /\ y # Text /\ Step(y) = 0
  <2>1. dom.kind[at.node] \in {"comment", "declaration", "unknown"}
    BY DEF VisitOther
  <2>2. PICK kind \in Kinds : kind = dom.kind[at.node] /\ kind # "text" /\ kind # "space"
    BY <2>1 DEF Kinds
  <2>3. Plain(kind) \in Prints /\ Plain(kind) # Space
    BY <2>2, MarksPrinted
  <2>4. Plain(kind) # Text /\ Step(Plain(kind)) = 0
    BY <2>2, StepsAre
  <2>5. QED
    BY <2>2, <2>3, <2>4
<1>6. PICK t : t = textDepth'
  OBVIOUS
<1>7. Guarded(Then(z, <<y>>), depth + Step(y), t)
  BY <1>3, <1>4, <1>5, MarkJoined
<1>8. depth + Step(y) = depth'
  BY <1>3, <1>5
<1>9. out' = Then(z, <<y>>)
  BY <1>1, <1>2, <1>5
<1>10. QED
  BY <1>6, <1>7, <1>8, <1>9 DEF Spacing

LEMMA TextSpaced ==
  ASSUME Printing, Spacing, VisitText(dom) PROVE Spacing'
<1>1. PICK z : z = Then(out, Seal)
  OBVIOUS
<1>2. depth \in Int /\ depth' = depth /\ textDepth' = depth - 1
  BY DEF Printing, VisitText
<1>3. Spaces(z) /\ Nesting(z, Len(z)) = depth /\ (depth > 0 => ~EndsIn(z, Space))
  BY <1>1, SealJoined DEF Guarded
<1>4. PICK y \in Prints : y = Text /\ y # Space /\ Step(y) = 0
  BY MarksPrinted, StepsAre DEF Text, Kinds
<1>5. PICK w : w = Then(z, <<y>>)
  OBVIOUS
<1>6. Len(z) > 0 /\ depth > 0 => z[Len(z)] # Space
  BY <1>3 DEF EndsIn
<1>7. Spaces(w) /\ EndsIn(w, y) /\ Nesting(w, Len(w)) = Nesting(z, Len(z)) + Step(y)
  BY <1>3, <1>4, <1>5, <1>6, OneJoined
<1>8. Nesting(w, Len(w)) = depth /\ ~EndsIn(w, Space)
  <2>1. Nesting(w, Len(w)) = depth
    BY <1>2, <1>3, <1>4, <1>7
  <2>2. ~EndsIn(w, Space)
    BY <1>4, <1>7 DEF EndsIn
  <2>3. QED
    BY <2>1, <2>2
<1>9. depth > 0 => depth - 1 >= 0
  BY <1>2
<1>10. Guarded(w, depth, depth - 1)
  BY <1>7, <1>8, <1>9 DEF Guarded
<1>11. out' = w
  BY <1>1, <1>4, <1>5, TextPrinted DEF Text
<1>12. QED
  BY <1>2, <1>10, <1>11 DEF Spacing

LEMMA EndSpaced ==
  ASSUME Printing, Spacing, names # <<>>, VisitExitElement(dom) PROVE Spacing'
<1>1. PICK g : /\ Gap(g) /\ (g # <<>> => depth' = 0)
               /\ justOpened => out' = Then(Then(out, <<Plain("/>")>>), g)
               /\ ~justOpened => \E sp :
                    /\ Gap(sp) /\ (sp # <<>> => ~(textDepth >= 0))
                    /\ out' = Then(Then(Then(out, sp), EndTag), g)
  BY EndPrinted
<1>2. depth \in Int /\ depth' = depth - 1
  BY DEF Printing, VisitExitElement
<1>3. Spaces(out) /\ Nesting(out, Len(out)) = depth
  BY DEF Spacing, Guarded
<1>4. PICK r, t : r \in Int /\ r = depth' /\ t = textDepth'
  BY <1>2
<1>5. \E z : Guarded(z, r, t) /\ out' = Then(z, g)
  <2>1. CASE justOpened
    <3>1. PICK y \in Prints : y = Plain("/>") /\ y # Space /\ y # Text /\ Step(y) = -1
      <4>1. Plain("/>") \in Prints /\ Plain("/>") # Space
        BY MarksPrinted
      <4>2. Plain("/>") # Text /\ Step(Plain("/>")) = -1
        BY StepsAre
      <4>3. QED
        BY <4>1, <4>2
    <3>2. Guarded(Then(out, <<y>>), depth + Step(y), t)
      BY <1>2, <1>3, <3>1, MarkJoined
    <3>3. depth + Step(y) = r
      BY <1>2, <1>4, <3>1
    <3>4. out' = Then(Then(out, <<y>>), g)
      BY <1>1, <2>1, <3>1
    <3>5. QED
      BY <3>2, <3>3, <3>4
  <2>2. CASE ~justOpened
    <3>1. PICK sp : /\ Gap(sp) /\ (sp # <<>> => ~(textDepth >= 0))
                    /\ out' = Then(Then(Then(out, sp), EndTag), g)
      BY <1>1, <2>2
    <3>2. PICK z : z = Then(out, sp)
      OBVIOUS
    <3>3. Spaces(z) /\ Nesting(z, Len(z)) = depth
      BY <1>2, <3>1, <3>2, GapJoined DEF Spacing
    <3>4. PICK y : y = <<"</", Last(names)>> /\ y \in Prints /\ y # Space
      <4>1. <<"</", Last(names)>> \in Prints /\ <<"</", Last(names)>> # Space
        BY EndPrinted
      <4>2. QED
        BY <4>1
    <3>5. Step(y) = -1 /\ y # Text
      <4>1. Step(y) = -1
        BY <3>4, StepsAre
      <4>2. Step(Text) = 0
        BY StepsAre
      <4>3. QED
        BY <4>1, <4>2
    <3>6. Guarded(Then(z, <<y>>), depth + Step(y), t)
      BY <1>2, <3>3, <3>4, <3>5, MarkJoined
    <3>7. depth + Step(y) = r
      BY <1>2, <1>4, <3>5
    <3>8. EndTag = <<y>>
      BY <3>4 DEF EndTag
    <3>9. out' = Then(Then(z, <<y>>), g)
      BY <3>1, <3>2, <3>8
    <3>10. QED
      BY <3>6, <3>7, <3>9
  <2>3. QED
    BY <2>1, <2>2
<1>6. PICK z : Guarded(z, r, t) /\ out' = Then(z, g)
  BY <1>5
<1>7. Spaces(out') /\ Nesting(out', Len(out')) = r /\ (g = <<>> => out' = z)
  BY <1>1, <1>4, <1>6, GapJoined
<1>8. CASE g = <<>>
  BY <1>4, <1>6, <1>7, <1>8 DEF Spacing
<1>9. CASE g # <<>>
  <2>1. r = 0
    BY <1>1, <1>4, <1>9
  <2>2. QED
    BY <1>4, <1>7, <2>1 DEF Spacing, Guarded
<1>10. QED
  BY <1>8, <1>9

-----------------------------------------------------------------------------
(* The printer, step by step.                                               *)
PrintInv == Spacing /\ (mode = "print" => Walking)

LEMMA NothingSpaced == Guarded(<<>>, 0, -1)
<1>1. PICK e \in Seq(Prints) : e = <<>> /\ Len(e) = 0
  BY EmptySeq
<1>2. \A i \in 1..Len(e) : Beside(e, Len(e), i)
  BY <1>1
<1>3. Nesting(e, Len(e)) = 0
  BY <1>1, NestingNone
<1>4. Guarded(e, 0, -1)
  BY <1>2, <1>3 DEF Guarded, Spaces
<1>5. QED
  BY <1>1, <1>4

LEMMA BeginSpaced == ASSUME NEW d, NEW c, PrintDocument(d, c) PROVE Spacing'
<1>1. out' = <<>> /\ depth' = 0 /\ textDepth' = -1
  BY DEF PrintDocument
<1>2. QED
  BY <1>1, NothingSpaced DEF Spacing

LEMMA StepSpaced ==
  ASSUME Shape(dom), Walking, Spacing, PrinterStep(dom) PROVE Spacing'
<1>1. PICK n : n = at.node
  OBVIOUS
<1>2. Printing /\ at = IF at.enter THEN Enter(n) ELSE Exit(n)
  BY <1>1, WalkingIs
<1>3. PICK x : Standing(dom, at, x, names)
  BY DEF Walking
<1>4. CASE VisitEnterElement(dom)
  <2>1. at.enter
    BY <1>4 DEF VisitEnterElement
  <2>2. Ready(dom, at, x)
    BY <1>3, StandsReady
  <2>3. QED
    BY <1>2, <1>4, <2>1, <2>2, ElementSpaced DEF Ready
<1>5. CASE VisitExitElement(dom)
  <2>1. ~at.enter /\ n # Doc
    BY <1>1, <1>5 DEF VisitExitElement
  <2>2. Standing(dom, Exit(n), x, names)
    BY <1>2, <1>3, <2>1
  <2>3. names # <<>>
    BY <2>1, <2>2, StandsExit
  <2>4. QED
    BY <1>2, <1>5, <2>3, EndSpaced
<1>6. CASE VisitText(dom)
  BY <1>2, <1>6, TextSpaced
<1>7. CASE VisitOther(dom)
  BY <1>2, <1>7, OtherSpaced
<1>8. QED
  BY <1>4, <1>5, <1>6, <1>7 DEF PrinterStep

LEMMA ParserPrintsNothing == ASSUME ParserStep PROVE mode' # "print"
<1>1. \A d, e, s : ReturnNull(d, e, s) => mode' # "print"
  BY DEF ReturnNull, EndLoad
<1>2. \A d, e, n : Fail(d, e, n) => mode' # "print"
  BY DEF Fail
<1>3. \A d : Continue(d) => mode' # "print"
  BY DEF Continue
<1>4. \A from : BeginLoad(from) \/ RefuseLoad(from) => mode' # "print"
  BY DEF BeginLoad, RefuseLoad
<1>5. \A form : ReadLeaf(form) \/ ReadEndlessLeaf(form) => mode' # "print"
  BY <1>1, <1>2, <1>3 DEF ReadLeaf, ReadEndlessLeaf
<1>6. \A name, type : ReadTagName(name, type) => mode' # "print"
  BY DEF ReadTagName
<1>7. ReadBadName \/ ReadEndOfFile => mode' # "print"
  BY <1>1, <1>2 DEF ReadBadName, ReadEndOfFile
<1>8. \A x : ReadAttribute(x) => mode' # "print"
  BY DEF ReadAttribute, InTag
<1>9. FailInTag \/ ReadSealedEnd \/ ReadOpeningEnd => mode' # "print"
  BY <1>1, <1>2, <1>3 DEF FailInTag, ReadSealedEnd, ReadOpeningEnd, Mismatch
<1>10. ReadClosingEnd => mode' # "print"
  BY <1>1, <1>3 DEF ReadClosingEnd, Mismatch, EndLoad
<1>11. Unwind => mode' # "print"
  BY <1>1 DEF Unwind
<1>12. QED
  BY <1>4, <1>5, <1>6, <1>7, <1>8, <1>9, <1>10, <1>11 DEF ParserStep, ParseStep

LEMMA EditsPrintNothing ==
  ASSUME EditStep PROVE UNCHANGED printerVars
<1>1. ASSUME NEW d, Edit(d) PROVE UNCHANGED printerVars
  BY <1>1 DEF Edit
<1>2. ASSUME NEW kind \in Kinds, NewNode(kind) PROVE UNCHANGED printerVars
  BY <1>1, <1>2 DEF NewNode
<1>3. ASSUME NEW n, NEW kind, InsertNew(n, kind) PROVE UNCHANGED printerVars
  BY <1>1, <1>3 DEF InsertNew
<1>4. ASSUME NEW n, NEW c, InsertLast(n, c) \/ InsertFirst(n, c) PROVE UNCHANGED printerVars
  BY <1>1, <1>4 DEF InsertLast, InsertFirst
<1>5. ASSUME NEW b, NEW c, InsertAfter(b, c) \/ InsertAfterCrash(b, c)
      PROVE  UNCHANGED printerVars
  BY <1>1, <1>5 DEF InsertAfter, InsertAfterCrash
<1>6. ASSUME NEW n, Delete(n) \/ DeleteAllUnder(n) PROVE UNCHANGED printerVars
  BY <1>1, <1>6 DEF Delete, DeleteAllUnder
<1>7. ASSUME NEW n, SetText(n) PROVE UNCHANGED printerVars
  BY <1>1, <1>7 DEF SetText
<1>8. ASSUME NEW n, NEW x, FindOrCreateAttribute(n, x) \/ DeleteAttribute(n, x)
      PROVE  UNCHANGED printerVars
  BY <1>1, <1>8 DEF FindOrCreateAttribute, DeleteAttribute
<1>9. CASE ClearDocument
  BY <1>9 DEF ClearDocument
<1>10. QED
  BY <1>2, <1>3, <1>4, <1>5, <1>6, <1>7, <1>8, <1>9 DEF EditStep

LEMMA PrintInvInit == Init => PrintInv
<1> SUFFICES ASSUME Init PROVE PrintInv
  OBVIOUS
<1>1. out = <<>> /\ depth = 0 /\ textDepth = -1
  BY DEF Init, PrinterInit
<1>2. mode # "print"
  BY DEF Init, ParserInit
<1>3. QED
  BY <1>1, <1>2, NothingSpaced DEF PrintInv, Spacing

LEMMA PrintInvNext == DocInv /\ PrintInv /\ [Next]_vars => PrintInv'
<1> SUFFICES ASSUME DocInv, PrintInv, [Next]_vars PROVE PrintInv'
  OBVIOUS
<1>1. Shape(dom)
  BY DocInvMeans
<1>2. ASSUME UNCHANGED printerVars PROVE Spacing'
  BY <1>2 DEF printerVars, PrintInv, Spacing
<1>3. CASE ParserStep /\ UNCHANGED <<printerVars, textVars, edits>>
  BY <1>2, <1>3, ParserPrintsNothing DEF PrintInv
<1>4. CASE EditStep
  <2>1. mode' # "print"
    BY <1>4, EditsEndReading
  <2>2. Spacing'
    BY <1>2, <1>4, EditsPrintNothing
  <2>3. QED
    BY <2>1, <2>2 DEF PrintInv
<1>5. CASE \E c \in BOOLEAN : BeginPrint(c)
  <2>1. PICK c : PrintDocument(dom, c) /\ dom' = dom
    BY <1>5 DEF BeginPrint
  <2>2. QED
    BY <1>1, <2>1, BeginSpaced, BeginWalked DEF PrintInv
<1>6. CASE PrintMore
  <2>1. Walking /\ Spacing /\ PrinterStep(dom) /\ dom' = dom
    BY <1>6 DEF PrintMore, PrintInv, parserVars
  <2>2. QED
    BY <1>1, <2>1, StepWalked, StepSpaced DEF PrintInv
<1>7. CASE EndPrint
  <2>1. mode' # "print" /\ PrintDocument(EmptyTree, FALSE)
    BY <1>7 DEF EndPrint
  <2>2. QED
    BY <2>1, BeginSpaced DEF PrintInv
<1>8. CASE BeginValue \/ ValueMore
  <2>1. mode' # "print" /\ UNCHANGED printerVars
    BY <1>8 DEF BeginValue, ValueMore, parserVars
  <2>2. QED
    BY <1>2, <2>1 DEF PrintInv
<1>9. CASE UNCHANGED vars
  <2>1. UNCHANGED <<dom, mode>> /\ UNCHANGED printerVars
    BY <1>9 DEF vars, parserVars
  <2>2. mode = "print" => Walking'
    BY <2>1 DEF PrintInv, Walking, Sealed, Pending, printerVars
  <2>3. QED
    BY <1>2, <2>1, <2>2 DEF PrintInv
<1>10. QED
  BY <1>3, <1>4, <1>5, <1>6, <1>7, <1>8, <1>9 DEF Next

LEMMA PrintInvAlways == Spec => []PrintInv
<1>1. QED
  BY DocInvAlways, PrintInvInit, PrintInvNext, PTL DEF Spec

LEMMA InsideIs == ASSUME NEW i \in Nat PROVE Inside(i) <=> Nesting(out, i) > 0
<1>1. Nesting(out, i) > 0 <=> Often(out, i, "<") > Often(out, i, "</") + Often(out, i, "/>")
  BY NestingNext
<1>2. QED
  BY <1>1 DEF Inside, Often

LEMMA PrintInvShows == DocInv /\ PrintInv => PrintedIsTree
<1> SUFFICES ASSUME DocInv, PrintInv PROVE PrintedIsTree
  OBVIOUS
<1>1. Shape(dom)
  BY DocInvMeans
<1>2. PiecesAreTree
  BY <1>1, WalkedTree DEF PrintInv, PiecesAreTree
<1>3. NoSpaceBesideText
  <2>1. Spaces(out) /\ out \in Seq(Prints)
    BY DEF PrintInv, Spacing, Guarded, Spaces
  <2>2. DOMAIN out = 1..Len(out) /\ Len(out) \in Nat
    BY <2>1, LenProperties
  <2>3. ASSUME NEW i \in DOMAIN out, out[i] = Plain("text"), Inside(i)
        PROVE  /\ i = 1 \/ out[i - 1] # Plain("space")
               /\ i = Len(out) \/ out[i + 1] # Plain("space")
    <3>1. i \in 1..Len(out) /\ i \in Nat
      BY <2>2
    <3>2. Nesting(out, i) > 0
      BY <2>3, <3>1, InsideIs
    <3>3. Beside(out, Len(out), i)
      BY <2>1, <3>1 DEF Spaces
    <3>4. QED
      BY <2>3, <3>2, <3>3 DEF Beside, Text, Space
  <2>4. QED
    BY <2>3 DEF NoSpaceBesideText
<1>4. QED
  BY <1>2, <1>3 DEF PrintedIsTree

(* XMLDocument::Print and SaveFile write every node of the tree once and in   *)
(* its place, with the tags that its children call for, however many and     *)
(* however deep they are; and white space for the reader never where it      *)
(* would become part of a text.                                             *)
THEOREM PrintedIsAlwaysTree == Spec => []PrintedIsTree
<1>1. QED
  BY DocInvAlways, PrintInvAlways, PrintInvShows, PTL
-----------------------------------------------------------------------------
Chars == Nat \ {0}

LEMMA AtIs ==
  ASSUME NEW s \in Seq(Nat), NEW i \in Nat
  PROVE  /\ At(s, i) \in Nat
         /\ At(s, i) # 0 => i \in 1..Len(s) /\ At(s, i) = s[i]
         /\ i \in 1..Len(s) => At(s, i) = s[i]
<1>1. DOMAIN s = 1..Len(s) /\ \A j \in 1..Len(s) : s[j] \in Nat
  BY LenProperties, ElementOfSeq
<1>2. QED
  BY <1>1 DEF At

LEMMA LeastOf ==
  ASSUME NEW S \in SUBSET Nat, S # {} PROVE Min(S) \in S /\ \A j \in S : Min(S) <= j
<1>1. PICK n \in S : \A m \in S : n <= m
  BY LeastNatural
<1>2. QED
  BY <1>1 DEF Min

LEMMA GreatestOf ==
  ASSUME NEW S \in SUBSET Nat, S # {}, NEW n \in Nat, \A j \in S : j <= n
  PROVE  Max(S) \in S /\ \A j \in S : j <= Max(S)
<1> DEFINE T == {n - j : j \in S}
<1>1. T \in SUBSET Nat /\ T # {}
  <2>1. \A j \in S : n - j \in Nat
    <3>1. TAKE j \in S
    <3>2. j \in Nat /\ j <= n
      OBVIOUS
    <3>3. QED
      BY <3>2
  <2>2. QED
    BY <2>1
<1>2. PICK t \in T : \A u \in T : t <= u
  BY <1>1, LeastNatural
<1>3. PICK m \in S : t = n - m
  BY <1>2
<1>4. \A j \in S : m >= j
  <2>1. TAKE j \in S
  <2>2. t <= n - j
    BY <1>2
  <2>3. m \in Nat /\ j \in Nat
    OBVIOUS
  <2>4. QED
    BY <1>3, <2>2, <2>3
<1>5. QED
  BY <1>4 DEF Max
-----------------------------------------------------------------------------
(* A numeric reference.                                                     *)
Amped(s, i) == s \in Seq(Nat) /\ i \in 1..Len(s) /\ At(s, i + 1) = Hash

LEMMA RefEndIs ==
  ASSUME NEW s, NEW i, Amped(s, i), RefEnds(s, i) # {}
  PROVE  /\ RefEnd(s, i) \in (IF IsHex(s, i) THEN i + 3 ELSE i + 2)..Len(s)
         /\ RefEnds(s, i) \subseteq Nat
<1>1. s \in Seq(Nat) /\ i \in Nat \ {0} /\ Len(s) \in Nat
  BY LenProperties DEF Amped
<1>2. PICK b \in Nat : b = IF IsHex(s, i) THEN i + 3 ELSE i + 2
  BY <1>1
<1>3. PICK S : S = RefEnds(s, i)
  OBVIOUS
<1>4. S = {j \in b..Len(s) : s[j] = Semicolon}
  BY <1>2, <1>3 DEF RefEnds
<1>5. S \subseteq b..Len(s) /\ S \in SUBSET Nat
  BY <1>1, <1>4
<1>6. Min(S) \in S
  BY <1>3, <1>5, LeastOf
<1>7. QED
  BY <1>2, <1>3, <1>5, <1>6 DEF RefEnd

LEMMA LastMarkIs ==
  ASSUME NEW s, NEW i, Amped(s, i), RefEnds(s, i) # {}
  PROVE  /\ Max(RefMarks(s, i)) \in (IF IsHex(s, i) THEN i + 2 ELSE i + 1)..(RefEnd(s, i) - 1)
         /\ i \in Nat \ {0} /\ RefEnd(s, i) \in Nat
<1>1. s \in Seq(Nat) /\ i \in Nat \ {0} /\ Len(s) \in Nat /\ i \in 1..Len(s)
  BY LenProperties DEF Amped
<1>2. PICK e : e = RefEnd(s, i)
  OBVIOUS
<1>3. e \in (IF IsHex(s, i) THEN i + 3 ELSE i + 2)..Len(s)
  BY <1>2, RefEndIs
<1>4. PICK m : m = IF IsHex(s, i) THEN i + 2 ELSE i + 1
  OBVIOUS
<1>5. PICK c : c = IF IsHex(s, i) THEN Letter_x ELSE Hash
  OBVIOUS
<1>6. e \in Nat /\ e <= Len(s) /\ m \in Nat /\ m < e /\ i < m
  BY <1>1, <1>3, <1>4
<1>7. At(s, m) = c
  BY <1>4, <1>5 DEF Amped, IsHex
<1>8. c # Semicolon /\ c # 0
  BY <1>5 DEF Letter_x, Hash, Semicolon
<1>9. s[m] = c
  BY <1>1, <1>6, <1>7, <1>8, AtIs
<1>10. PICK S : S = RefMarks(s, i)
  OBVIOUS
<1>11. S = {j \in i..e : s[j] = c}
  BY <1>2, <1>5, <1>10 DEF RefMarks
<1>12. m \in S
  BY <1>1, <1>6, <1>9, <1>11
<1>13. s[e] = Semicolon
  <2>1. RefEnds(s, i) \in SUBSET Nat
    BY RefEndIs
  <2>2. e \in RefEnds(s, i)
    BY <1>2, <2>1, LeastOf DEF RefEnd
  <2>3. QED
    BY <2>2 DEF RefEnds
<1>14. S \in SUBSET Nat /\ \A j \in S : j <= e /\ j # e
  BY <1>1, <1>6, <1>8, <1>11, <1>13
<1>15. Max(S) \in S /\ m <= Max(S)
  BY <1>6, <1>12, <1>14, GreatestOf
<1>16. Max(S) \in m..(e - 1)
  <2>1. PICK x \in S : x = Max(S)
    BY <1>15
  <2>2. x \in Nat /\ x <= e /\ x # e /\ m <= x
    BY <1>14, <1>15, <2>1
  <2>3. QED
    BY <1>6, <2>1, <2>2
<1>17. QED
  BY <1>1, <1>2, <1>4, <1>6, <1>10, <1>16

LEMMA RefDigitsAre ==
  ASSUME NEW s, NEW i, Amped(s, i), RefEnds(s, i) # {}
  PROVE  /\ RefDigits(s, i) \in Seq(Nat \cup {-1})
         /\ Len(RefDigits(s, i)) = RefEnd(s, i) - Max(RefMarks(s, i)) - 1
<1>1. PICK e, m, b : e = RefEnd(s, i) /\ m = Max(RefMarks(s, i)) /\ b = Base(s, i)
  OBVIOUS
<1>2. i \in Nat \ {0} /\ e \in Nat /\ m \in Nat /\ i < m /\ m < e /\ e <= Len(s)
  <2>1. Len(s) \in Nat
    BY LenProperties DEF Amped
  <2>2. m \in (IF IsHex(s, i) THEN i + 2 ELSE i + 1)..(e - 1) /\ i \in Nat \ {0} /\ e \in Nat
    BY <1>1, LastMarkIs
  <2>3. e \in (IF IsHex(s, i) THEN i + 3 ELSE i + 2)..Len(s)
    BY <1>1, RefEndIs
  <2>4. QED
    BY <2>1, <2>2, <2>3
<1>3. PICK n \in Nat : n = e - m - 1
  BY <1>2
<1>4. RefDigits(s, i) = [k \in 1..n |-> Digit(s[m + k], b)]
  BY <1>1, <1>3 DEF RefDigits
<1>5. \A k \in 1..n : Digit(s[m + k], b) \in Nat \cup {-1}
  <2>1. TAKE k \in 1..n
  <2>2. m + k \in 1..Len(s)
    BY <1>2, <1>3
  <2>3. s[m + k] \in Nat
    BY <2>2, ElementOfSeq DEF Amped
  <2>4. PICK c \in Nat : c = s[m + k]
    BY <2>3
  <2>5. Digit(c, b) \in Nat \cup {-1}
    BY DEF Digit
  <2>6. QED
    BY <2>4, <2>5
<1>6. RefDigits(s, i) \in Seq(Nat \cup {-1}) /\ Len(RefDigits(s, i)) = n
  BY <1>4, <1>5
<1>7. QED
  BY <1>1, <1>3, <1>6

-----------------------------------------------------------------------------
(* What a recursion over 0..n computes stays in V, if its steps do.          *)
LEMMA StepsStay ==
  ASSUME NEW V, NEW x, NEW n, NEW step, Steps(V, x, n, step), NEW h,
         h[0] = x, \A k \in 1..n : h[k - 1] \in V => h[k] = step[k][h[k - 1]]
  PROVE  \A k \in 0..n : h[k] \in V
<1>1. x \in V /\ n \in Nat /\ step \in [1..n -> [V -> V]]
  BY DEF Steps
<1> DEFINE T == {k \in Nat : k \in 0..n => h[k] \in V}
<1>2. 0 \in T
  BY <1>1
<1>3. ASSUME NEW k \in Nat, k \in T PROVE k + 1 \in T
  <2> SUFFICES ASSUME k + 1 \in 0..n PROVE h[k + 1] \in V
    OBVIOUS
  <2>1. k + 1 \in 1..n /\ (k + 1) - 1 = k /\ k \in 0..n
    BY <1>1
  <2>2. h[k] \in V
    BY <1>3, <2>1
  <2>3. h[k + 1] = step[k + 1][h[k]]
    BY <2>1, <2>2
  <2>4. step[k + 1][h[k]] \in V
    BY <1>1, <2>1, <2>2
  <2>5. QED
    BY <2>3, <2>4
<1>4. Nat \subseteq T
  <2> HIDE DEF T
  <2> QED
    BY <1>2, <1>3, AllNaturals
<1>5. QED
  BY <1>1, <1>4

(* What the recursions of XmlText have after k digits.                      *)
LeftSums(h, digits, base, n) ==
  /\ h \in [0..n -> Nat] /\ h[0] = 0
  /\ \A k \in 1..n : h[k] = h[k - 1] * base + digits[k]
CappedPowers(m, base, n) ==
  /\ m \in [0..n -> Nat] /\ m[0] = 1
  /\ \A k \in 1..n : m[k] = Capped(m[k - 1] * base)
RightSums(u, w, digits, n) ==
  /\ u \in [0..n -> Nat] /\ u[0] = 0
  /\ \A k \in 1..n : u[k] = u[k - 1] + w[k - 1] * digits[n - k + 1]

Digits(digits, n) ==
  digits \in Seq(Nat) /\ n = Len(digits) /\ \A k \in 1..n : digits[k] \in Nat

LEMMA NumberIs ==
  ASSUME NEW digits, NEW n \in Nat, Digits(digits, n), NEW base \in Nat
  PROVE  \E h : LeftSums(h, digits, base, n) /\ Number(digits, base) = h[n]
<1>0. n = Len(digits) /\ \A k \in 1..n : digits[k] \in Nat
  BY DEF Digits
<1>1. \A k \in 1..n : digits[k] \in Nat
  BY <1>0
<1> DEFINE step == [k \in 1..n |-> [v \in Nat |-> v * base + digits[k]]]
           R(f) == [k \in 0..n |-> IF k = 0 THEN 0 ELSE f[k - 1] * base + digits[k]]
           value == CHOOSE f : f = R(f)
<1>2. Steps(Nat, 0, n, step)
  BY <1>1 DEF Steps
<1>3. \A k \in 1..n, v \in Nat : step[k][v] = v * base + digits[k]
  OBVIOUS
<1> HIDE DEF step
<1>4. PICK g : Stepped(Nat, 0, n, step, g)
  BY <1>2, StepByStep
<1>5. g = R(g)
  <2>1. g \in [0..n -> Nat] /\ g[0] = 0 /\ \A k \in 1..n : g[k] = step[k][g[k - 1]]
    BY <1>4 DEF Stepped
  <2>2. \A k \in 1..n : g[k - 1] \in Nat
    BY <2>1
  <2>3. \A k \in 1..n : g[k] = g[k - 1] * base + digits[k]
    BY <1>3, <2>1, <2>2
  <2>4. QED
    BY <2>1, <2>3
<1>6. value = R(value)
  <2> HIDE DEF R
  <2> QED
    BY <1>5
<1>7. PICK h : h = value
  OBVIOUS
<1>8. h = R(h) /\ Number(digits, base) = h[n]
  BY <1>0, <1>6, <1>7, Zenon DEF Number
<1> HIDE DEF value
<1>9. h[0] = 0 /\ \A k \in 1..n : h[k] = h[k - 1] * base + digits[k]
  BY <1>8
<1>10. \A k \in 0..n : h[k] \in Nat
  <2>1. \A k \in 1..n : h[k - 1] \in Nat => h[k] = step[k][h[k - 1]]
    BY <1>3, <1>9
  <2>2. QED
    BY <1>2, <1>9, <2>1, StepsStay
<1>11. LeftSums(h, digits, base, n)
  BY <1>8, <1>9, <1>10 DEF LeftSums
<1>12. QED
  BY <1>8, <1>11

LEMMA MultsAre ==
  ASSUME NEW base \in Nat, NEW n \in Nat
  PROVE  CappedPowers(Mults(n, base), base, n)
<1>0. \A v \in Nat : Capped(v) \in Nat
  BY DEF Capped, MaxCodePoint
<1> DEFINE step == [k \in 1..n |-> [v \in Nat |-> Capped(v * base)]]
           R(f) == [k \in 0..n |-> IF k = 0 THEN 1 ELSE Capped(f[k - 1] * base)]
           value == CHOOSE f : f = R(f)
<1>1. \A v \in Nat : Capped(v * base) \in Nat
  <2>1. \A v \in Nat : v * base \in Nat
    OBVIOUS
  <2>2. QED
    BY <1>0, <2>1
<1>2. Steps(Nat, 1, n, step)
  BY <1>1 DEF Steps
<1>3. \A k \in 1..n, v \in Nat : step[k][v] = Capped(v * base)
  OBVIOUS
<1> HIDE DEF step
<1>4. PICK g : Stepped(Nat, 1, n, step, g)
  BY <1>2, StepByStep
<1>5. g = R(g)
  <2>1. g \in [0..n -> Nat] /\ g[0] = 1 /\ \A k \in 1..n : g[k] = step[k][g[k - 1]]
    BY <1>4 DEF Stepped
  <2>2. \A k \in 1..n : g[k - 1] \in Nat
    BY <2>1
  <2>3. \A k \in 1..n : g[k] = Capped(g[k - 1] * base)
    BY <1>3, <2>1, <2>2
  <2>4. QED
    BY <2>1, <2>3
<1>6. value = R(value)
  <2> HIDE DEF R
  <2> QED
    BY <1>5
<1>7. PICK h : h = value
  OBVIOUS
<1>8. h = R(h) /\ Mults(n, base) = h
  BY <1>6, <1>7, Zenon DEF Mults
<1> HIDE DEF value
<1>9. h[0] = 1 /\ \A k \in 1..n : h[k] = Capped(h[k - 1] * base)
  BY <1>8
<1>10. \A k \in 0..n : h[k] \in Nat
  <2>1. \A k \in 1..n : h[k - 1] \in Nat => h[k] = step[k][h[k - 1]]
    BY <1>3, <1>9
  <2>2. QED
    BY <1>2, <1>9, <2>1, StepsStay
<1>11. h \in [0..n -> Nat]
  BY <1>8, <1>10
<1>12. QED
  BY <1>8, <1>9, <1>11 DEF CappedPowers

LEMMA UcsIs ==
  ASSUME NEW digits, NEW n \in Nat, Digits(digits, n), NEW w \in [0..n -> Nat]
  PROVE  \E u : RightSums(u, w, digits, n) /\ Ucs(digits, w) = u[n]
<1>12. n = Len(digits) /\ \A k \in 1..n : digits[k] \in Nat
  BY DEF Digits
<1>1. \A k \in 1..n : digits[n - k + 1] \in Nat /\ w[k - 1] \in Nat
  <2>1. \A k \in 1..n : n - k + 1 \in 1..n /\ k - 1 \in 0..n
    OBVIOUS
  <2>2. QED
    BY <1>12, <2>1
<1> DEFINE d(k) == w[k - 1] * digits[n - k + 1]
           step == [k \in 1..n |-> [v \in Nat |-> v + d(k)]]
           R(f) == [k \in 0..n |-> IF k = 0 THEN 0 ELSE f[k - 1] + d(k)]
           value == CHOOSE f : f = R(f)
<1>0. \A k \in 1..n : d(k) \in Nat
  BY <1>1
<1> HIDE DEF d
<1>2. Steps(Nat, 0, n, step)
  BY <1>0, <1>1 DEF Steps
<1>3. \A k \in 1..n, v \in Nat : step[k][v] = v + d(k)
  OBVIOUS
<1> HIDE DEF step
<1>4. PICK g : Stepped(Nat, 0, n, step, g)
  BY <1>2, StepByStep
<1>5. g = R(g)
  <2>1. g \in [0..n -> Nat] /\ g[0] = 0 /\ \A k \in 1..n : g[k] = step[k][g[k - 1]]
    BY <1>4 DEF Stepped
  <2>2. \A k \in 1..n : g[k - 1] \in Nat
    BY <1>1, <2>1
  <2>3. \A k \in 1..n : g[k] = g[k - 1] + d(k)
    BY <1>3, <2>1, <2>2
  <2>4. QED
    BY <2>1, <2>3
<1>6. value = R(value)
  <2> HIDE DEF R
  <2> QED
    BY <1>5
<1>7. PICK u : u = value
  OBVIOUS
<1>8. u = R(u) /\ Ucs(digits, w) = u[n]
  BY <1>12, <1>6, <1>7, Zenon DEF Ucs, d
<1> HIDE DEF value
<1>9. u[0] = 0 /\ \A k \in 1..n : u[k] = u[k - 1] + d(k)
  BY <1>1, <1>8
<1>10. \A k \in 0..n : u[k] \in Nat
  <2>1. \A k \in 1..n : u[k - 1] \in Nat => u[k] = step[k][u[k - 1]]
    BY <1>3, <1>9
  <2>2. PICK x : x = 0
    OBVIOUS
  <2>3. Steps(Nat, x, n, step) /\ u[0] = x
    BY <1>2, <1>9, <2>2
  <2>4. QED
    BY <2>1, <2>3, StepsStay
<1>11. RightSums(u, w, digits, n)
  BY <1>8, <1>9, <1>10 DEF RightSums, d
<1>13. QED
  BY <1>8, <1>11

LEMMA Shifted ==
  ASSUME NEW a \in Nat, NEW b \in Nat, NEW c \in Nat, NEW x \in Nat, NEW y \in Nat
  PROVE  (a * b + c) * x + y = a * (x * b) + (y + x * c)
<1>1. (a * b + c) * x = a * (x * b) + x * c
  OBVIOUS
<1>2. a * (x * b) \in Nat /\ x * c \in Nat
  OBVIOUS
<1>3. QED
  BY <1>1, <1>2

Powers(w, base, n) ==
  w \in [0..n -> Nat] /\ w[0] = 1 /\ \A k \in 1..n : w[k] = w[k - 1] * base

(* The digits from the last on, with the powers of the base, are the number. *)
LEMMA NumberFromTheEnd ==
  ASSUME NEW digits, NEW n \in Nat, Digits(digits, n), NEW base \in Nat,
         NEW w, Powers(w, base, n),
         NEW t, RightSums(t, w, digits, n)
  PROVE  Number(digits, base) = t[n]
<1>1. PICK h : LeftSums(h, digits, base, n) /\ Number(digits, base) = h[n]
  BY NumberIs
<1>0. \A k \in 1..n : digits[k] \in Nat
  BY DEF Digits
<1> DEFINE T == {k \in Nat : k \in 0..n => h[n - k] * w[k] + t[k] = h[n]}
<1>3. 0 \in T
  <2>1. h[n] \in Nat /\ t[0] = 0 /\ n - 0 = n /\ w[0] = 1
    BY <1>1 DEF LeftSums, RightSums, Powers
  <2>2. QED
    BY <2>1
<1>4. ASSUME NEW k \in Nat, k \in T PROVE k + 1 \in T
  <2> SUFFICES ASSUME k + 1 \in 0..n PROVE h[n - (k + 1)] * w[k + 1] + t[k + 1] = h[n]
    OBVIOUS
  <2>1. PICK i \in 1..n : i = n - k /\ n - (k + 1) = i - 1 /\ n - (k + 1) + 1 = i
    OBVIOUS
  <2>2. k \in 0..n /\ k + 1 \in 1..n /\ (k + 1) - 1 = k /\ i - 1 \in 0..n
    BY <2>1
  <2>3. PICK a \in Nat, d \in Nat, x \in Nat, y \in Nat :
          a = h[i - 1] /\ d = digits[i] /\ x = w[k] /\ y = t[k]
    BY <1>0, <1>1, <2>2 DEF LeftSums, RightSums, Powers
  <2>4. h[n] = h[i] * x + y
    BY <1>4, <2>1, <2>2, <2>3
  <2>5. h[i] = a * base + d
    BY <1>1, <2>3 DEF LeftSums
  <2>6. w[k + 1] = x * base
    BY <2>2, <2>3 DEF Powers
  <2>7. t[k + 1] = y + x * d
    <3>1. t[k + 1] = t[(k + 1) - 1] + w[(k + 1) - 1] * digits[n - (k + 1) + 1]
      BY <2>2 DEF RightSums
    <3>2. QED
      BY <2>1, <2>2, <2>3, <3>1
  <2>8. (a * base + d) * x + y = a * (x * base) + (y + x * d)
    BY <2>3, Shifted
  <2>9. QED
    BY <2>1, <2>3, <2>4, <2>5, <2>6, <2>7, <2>8
<1>5. Nat \subseteq T
  <2> HIDE DEF T
  <2> QED
    BY <1>3, <1>4, AllNaturals
<1>6. h[n - n] * w[n] + t[n] = h[n]
  BY <1>5
<1>7. h[0] = 0 /\ n - n = 0 /\ w[n] \in Nat /\ t[n] \in Nat
  BY <1>1 DEF LeftSums, RightSums, Powers
<1>8. QED
  BY <1>1, <1>6, <1>7

LEMMA CappedTwice ==
  ASSUME NEW v \in Nat \ {0}, NEW b \in Nat \ {0}
  PROVE  Capped(Capped(v) * b) = Capped(v * b)
<1>1. CASE v <= MaxCodePoint
  <2>1. Capped(v) = v
    BY <1>1 DEF Capped, MaxCodePoint
  <2>2. QED
    BY <2>1
<1>2. CASE v > MaxCodePoint
  <2>1. PICK m \in Nat : m = MaxCodePoint
    BY DEF MaxCodePoint
  <2>2. Capped(v) = m /\ v > m
    BY <1>2, <2>1 DEF Capped
  <2>3. m * b >= m /\ v * b >= v /\ m * b \in Nat /\ v * b \in Nat
    <3>1. \A x \in Nat : x * b \in Nat /\ x * b >= x
      BY SMT
    <3>2. QED
      BY <3>1
  <2>4. Capped(m * b) = m /\ Capped(v * b) = m
    BY <2>1, <2>2, <2>3 DEF Capped
  <2>5. QED
    BY <2>2, <2>4
<1>3. QED
  BY <1>1, <1>2 DEF MaxCodePoint

CapsOf(m, w, n) == \A k \in 0..n : w[k] # 0 /\ m[k] = Capped(w[k])

(* The powers of the base are there, and mult has them up to the cap.        *)
LEMMA PowersAre ==
  ASSUME NEW base \in Nat \ {0}, NEW n \in Nat
  PROVE  \E w : Powers(w, base, n) /\ CapsOf(Mults(n, base), w, n)
<1>1. PICK m : m = Mults(n, base) /\ CappedPowers(m, base, n)
  BY MultsAre
<1> DEFINE step == [k \in 1..n |-> [v \in Nat \ {0} |-> v * base]]
<1>2. ASSUME NEW v \in Nat \ {0} PROVE v * base \in Nat \ {0}
  BY SMT
<1>3. Steps(Nat \ {0}, 1, n, step)
  BY <1>2 DEF Steps
<1>4. \A k \in 1..n, v \in Nat \ {0} : step[k][v] = v * base
  OBVIOUS
<1> HIDE DEF step
<1>5. PICK w : Stepped(Nat \ {0}, 1, n, step, w)
  BY <1>3, StepByStep
<1>6. w \in [0..n -> Nat \ {0}] /\ w[0] = 1 /\ \A k \in 1..n : w[k] = step[k][w[k - 1]]
  BY <1>5 DEF Stepped
<1>7. \A k \in 1..n : w[k - 1] \in Nat \ {0}
  BY <1>6
<1>8. \A k \in 1..n : w[k] = w[k - 1] * base
  BY <1>4, <1>6, <1>7
<1>9. Powers(w, base, n)
  BY <1>6, <1>8 DEF Powers
<1> DEFINE T == {k \in Nat : k \in 0..n => m[k] = Capped(w[k])}
<1>10. 0 \in T
  BY <1>1, <1>6 DEF CappedPowers, Capped, MaxCodePoint
<1>11. ASSUME NEW k \in Nat, k \in T PROVE k + 1 \in T
  <2> SUFFICES ASSUME k + 1 \in 0..n PROVE m[k + 1] = Capped(w[k + 1])
    OBVIOUS
  <2>1. k \in 0..n /\ k + 1 \in 1..n /\ (k + 1) - 1 = k
    OBVIOUS
  <2>2. PICK v \in Nat \ {0} : v = w[k]
    BY <1>6, <2>1
  <2>3. m[k + 1] = Capped(Capped(v) * base)
    BY <1>1, <1>11, <2>1, <2>2 DEF CappedPowers
  <2>4. w[k + 1] = v * base
    BY <1>8, <2>1, <2>2
  <2>5. Capped(Capped(v) * base) = Capped(v * base)
    BY CappedTwice
  <2>6. QED
    BY <2>3, <2>4, <2>5
<1>12. Nat \subseteq T
  <2> HIDE DEF T
  <2> QED
    BY <1>10, <1>11, AllNaturals
<1>13. \A k \in 0..n : w[k] # 0 /\ m[k] = Capped(w[k])
  BY <1>6, <1>12
<1>14. QED
  BY <1>1, <1>9, <1>13 DEF CapsOf

-----------------------------------------------------------------------------
(* One turn of the loop beside the same turn without a cap.                  *)
LoopTurn(u, t, w, d, x, y) ==
  /\ u \in Nat /\ t \in Nat /\ w \in Nat \ {0} /\ d \in Nat
  /\ x = u + Capped(w) * d /\ y = t + w * d
  /\ u <= t /\ (u = t \/ u >= MaxCodePoint)

LEMMA CappedTurn ==
  ASSUME NEW u, NEW t, NEW w, NEW d, NEW x, NEW y, LoopTurn(u, t, w, d, x, y)
  PROVE  /\ x <= y /\ (x = y \/ x >= MaxCodePoint)
         /\ x = 0 => u = 0 /\ d = 0
         /\ x <= MaxCodePoint /\ x # y => (u # t /\ u <= MaxCodePoint /\ d = 0) \/ (u = 0 /\ d = 1)
<1>0. /\ u \in Nat /\ t \in Nat /\ w \in Nat \ {0} /\ d \in Nat
      /\ u <= t /\ (u = t \/ u >= MaxCodePoint)
  BY DEF LoopTurn
<1>1. PICK m \in Nat \ {0} : m = MaxCodePoint
  BY DEF MaxCodePoint
<1>2. PICK a \in Nat \ {0} : a = Capped(w) /\ a <= w /\ a <= m /\ (a = w \/ a = m)
  BY <1>0, <1>1 DEF Capped
<1>3. PICK e \in Nat, f \in Nat : e = a * d /\ f = w * d
  BY <1>0, <1>2
<1>4. e <= f /\ (a = w => e = f)
  <2>1. PICK g \in Nat : w = a + g
    <3>1. w - a \in Nat /\ w = a + (w - a)
      BY <1>0, <1>2
    <3>2. QED
      BY <3>1
  <2>2. w * d = a * d + g * d /\ g * d \in Nat
    BY <1>0, <1>2, <2>1
  <2>3. QED
    BY <1>3, <2>2
<1>5. /\ d = 0 => e = 0 /\ f = 0
      /\ d # 0 => e >= a
      /\ d # 0 /\ d # 1 => e >= a + a
  <2>1. d = 0 => e = 0 /\ f = 0
    BY <1>0, <1>2, <1>3
  <2>2. ASSUME d # 0 PROVE e >= a
    <3>1. PICK c \in Nat : d = c + 1
      <4>1. d - 1 \in Nat /\ d = (d - 1) + 1
        BY <1>0, <2>2
      <4>2. QED
        BY <4>1
    <3>2. a * d = a * c + a /\ a * c \in Nat
      BY <1>2, <3>1
    <3>3. QED
      BY <1>2, <1>3, <3>2
  <2>3. ASSUME d # 0, d # 1 PROVE e >= a + a
    <3>1. PICK c \in Nat : d = c + 2
      <4>1. d - 2 \in Nat /\ d = (d - 2) + 2
        BY <1>0, <2>3
      <4>2. QED
        BY <4>1
    <3>2. a * d = a * c + (a + a) /\ a * c \in Nat
      BY <1>2, <3>1
    <3>3. QED
      BY <1>2, <1>3, <3>2
  <2>4. QED
    BY <2>1, <2>2, <2>3
<1>6. x = u + e /\ y = t + f
  BY <1>2, <1>3 DEF LoopTurn
<1>7. QED
  BY <1>0, <1>1, <1>2, <1>4, <1>5, <1>6

LastOne(digits, n, k) ==
  \E j \in (n - k + 1)..n :
    \A i \in (n - k + 1)..n : digits[i] = IF i = j THEN 1 ELSE 0
LastZeros(digits, n, k) == \A i \in (n - k + 1)..n : digits[i] = 0
Comparable(u, t, digits, n, k) ==
  /\ u[k] <= t[k] /\ (u[k] = t[k] \/ u[k] >= MaxCodePoint)
  /\ u[k] = 0 => LastZeros(digits, n, k)
  /\ u[k] <= MaxCodePoint /\ u[k] # t[k] => LastOne(digits, n, k)

LEMMA TurnsCompare ==
  ASSUME NEW digits, NEW n \in Nat, Digits(digits, n), NEW base \in Nat \ {0},
         NEW w, Powers(w, base, n), CapsOf(Mults(n, base), w, n),
         NEW u, RightSums(u, Mults(n, base), digits, n), NEW t, RightSums(t, w, digits, n)
  PROVE  Comparable(u, t, digits, n, n)
<1>1. PICK m : m = Mults(n, base)
  OBVIOUS
<1> DEFINE T == {k \in Nat : k \in 0..n => Comparable(u, t, digits, n, k)}
<1>2. 0 \in T
  <2>1. u[0] = 0 /\ t[0] = 0 /\ (n - 0 + 1)..n = {}
    BY DEF RightSums
  <2>2. LastZeros(digits, n, 0)
    BY <2>1 DEF LastZeros
  <2>3. QED
    BY <2>1, <2>2 DEF Comparable
<1>3. ASSUME NEW k \in Nat, k \in T PROVE k + 1 \in T
  <2> SUFFICES ASSUME k + 1 \in 0..n PROVE Comparable(u, t, digits, n, k + 1)
    OBVIOUS
  <2>1. k \in 0..n /\ k + 1 \in 1..n /\ (k + 1) - 1 = k
    OBVIOUS
  <2>2. PICK i \in 1..n : i = n - k /\ n - (k + 1) + 1 = i /\ n - k + 1 = i + 1
    OBVIOUS
  <2>3. Comparable(u, t, digits, n, k)
    BY <1>3, <2>1
  <2>a. PICK a : a = m[k]
    OBVIOUS
  <2>4. PICK U \in Nat, V \in Nat, W \in Nat \ {0}, d \in Nat :
          U = u[k] /\ V = t[k] /\ W = w[k] /\ d = digits[i]
    BY <2>1 DEF RightSums, Powers, Digits, CapsOf
  <2>5. a = Capped(W)
    BY <1>1, <2>a, <2>1, <2>4 DEF CapsOf
  <2>6. u[k + 1] = U + a * d /\ t[k + 1] = V + W * d
    <3>1. u[k + 1] = u[(k + 1) - 1] + m[(k + 1) - 1] * digits[n - (k + 1) + 1]
      BY <1>1, <2>1 DEF RightSums
    <3>2. t[k + 1] = t[(k + 1) - 1] + w[(k + 1) - 1] * digits[n - (k + 1) + 1]
      BY <2>1 DEF RightSums
    <3>3. QED
      BY <2>a, <2>1, <2>2, <2>4, <3>1, <3>2
  <2>7. U <= V /\ (U = V \/ U >= MaxCodePoint)
    BY <2>3, <2>4 DEF Comparable
  <2>8. PICK X, Y : X = u[k + 1] /\ Y = t[k + 1] /\ LoopTurn(U, V, W, d, X, Y)
    BY <2>4, <2>5, <2>6, <2>7 DEF LoopTurn
  <2>9. /\ X <= Y /\ (X = Y \/ X >= MaxCodePoint)
        /\ X = 0 => U = 0 /\ d = 0
        /\ X <= MaxCodePoint /\ X # Y =>
             \/ U # V /\ U <= MaxCodePoint /\ d = 0
             \/ U = 0 /\ d = 1
    BY <2>8, CappedTurn
  <2>10. i..n = {i} \cup (i + 1)..n /\ i \notin (i + 1)..n
    OBVIOUS
  <2>11. ASSUME LastZeros(digits, n, k), d = 0 PROVE LastZeros(digits, n, k + 1)
    BY <2>2, <2>4, <2>10, <2>11 DEF LastZeros
  <2>12. ASSUME LastZeros(digits, n, k), d = 1 PROVE LastOne(digits, n, k + 1)
    <3>1. \A j \in i..n : digits[j] = IF j = i THEN 1 ELSE 0
      BY <2>2, <2>4, <2>10, <2>12 DEF LastZeros
    <3>2. QED
      BY <2>2, <2>10, <3>1 DEF LastOne
  <2>13. ASSUME LastOne(digits, n, k), d = 0 PROVE LastOne(digits, n, k + 1)
    <3>1. PICK j \in (i + 1)..n : \A l \in (i + 1)..n : digits[l] = IF l = j THEN 1 ELSE 0
      BY <2>2, <2>13 DEF LastOne
    <3>2. j \in i..n /\ \A l \in i..n : digits[l] = IF l = j THEN 1 ELSE 0
      BY <2>4, <2>10, <2>13, <3>1
    <3>3. QED
      BY <2>2, <3>2 DEF LastOne
  <2>14. /\ U = 0 => LastZeros(digits, n, k)
         /\ U <= MaxCodePoint /\ U # V => LastOne(digits, n, k)
    BY <2>3, <2>4 DEF Comparable
  <2>15. X = 0 => LastZeros(digits, n, k + 1)
    BY <2>9, <2>11, <2>14
  <2>16. X <= MaxCodePoint /\ X # Y => LastOne(digits, n, k + 1)
    BY <2>9, <2>12, <2>13, <2>14
  <2>17. QED
    BY <2>8, <2>9, <2>15, <2>16 DEF Comparable
<1>4. Nat \subseteq T
  <2> HIDE DEF T
  <2> QED
    BY <1>2, <1>3, AllNaturals
<1>5. QED
  BY <1>4

(* A 1 and zeros come to one multiplier.                                    *)
LEMMA OneAndZerosSum ==
  ASSUME NEW digits, NEW n \in Nat, Digits(digits, n), OneAndZeros(digits),
         NEW m, NEW u, RightSums(u, m, digits, n),
         \A k \in 0..n : m[k] \in Nat /\ m[k] <= MaxCodePoint
  PROVE  u[n] <= MaxCodePoint
<1>0. DOMAIN digits = 1..n
  BY LenProperties DEF Digits
<1>1. PICK j \in DOMAIN digits : \A k \in DOMAIN digits : digits[k] = IF k = j THEN 1 ELSE 0
  BY Zenon DEF OneAndZeros
<1>9. j \in 1..n
  BY <1>0, <1>1
<1> DEFINE T == {k \in Nat : k \in 0..n => u[k] = IF k <= n - j THEN 0 ELSE m[n - j]}
<1>2. 0 \in T
  BY <1>9 DEF RightSums
<1> USE <1>9
<1>3. ASSUME NEW k \in Nat, k \in T PROVE k + 1 \in T
  <2> SUFFICES ASSUME k + 1 \in 0..n PROVE u[k + 1] = IF k + 1 <= n - j THEN 0 ELSE m[n - j]
    OBVIOUS
  <2>1. k \in 0..n /\ k + 1 \in 1..n /\ (k + 1) - 1 = k
    OBVIOUS
  <2>2. PICK i \in 1..n : i = n - k /\ n - (k + 1) + 1 = i
    OBVIOUS
  <2>3. PICK a \in Nat, d \in Nat : a = m[k] /\ d = digits[i] /\ (d = IF i = j THEN 1 ELSE 0)
    BY <1>0, <1>1, <2>1
  <2>4. u[k + 1] = u[k] + a * d
    BY <2>1, <2>2, <2>3 DEF RightSums
  <2>5. u[k] = IF k <= n - j THEN 0 ELSE m[n - j]
    BY <1>3, <2>1
  <2>6. n - j \in 0..n /\ m[n - j] \in Nat
    OBVIOUS
  <2>7. CASE i = j
    <3>1. d = 1 /\ a * d = a /\ k = n - j /\ u[k] = 0
      BY <2>2, <2>3, <2>5, <2>7
    <3>2. QED
      BY <2>3, <2>4, <3>1
  <2>8. CASE i # j
    <3>1. d = 0 /\ a * d = 0 /\ k # n - j
      BY <2>2, <2>3, <2>8
    <3>2. u[k + 1] = u[k]
      BY <2>4, <2>5, <2>6, <3>1
    <3>3. QED
      BY <2>5, <3>1, <3>2
  <2>9. QED
    BY <2>7, <2>8
<1>4. Nat \subseteq T
  <2> HIDE DEF T
  <2> QED
    BY <1>2, <1>3, AllNaturals
<1>5. u[n] = m[n - j] /\ n - j \in 0..n
  BY <1>4
<1>6. QED
  BY <1>5

(* What the loop makes of the digits: their number, if it is a code point.   *)
LEMMA UcsIsNumber ==
  ASSUME NEW digits, NEW n \in Nat, Digits(digits, n), NEW base \in Nat \ {0},
         NEW v, v = Ucs(digits, Mults(n, base)), NEW x, x = Number(digits, base)
  PROVE  /\ v \in Nat /\ x \in Nat /\ (n = 0 => v = 0)
         /\ x <= MaxCodePoint => v = x
         /\ v <= MaxCodePoint /\ v # x => v >= MaxCodePoint /\ x > MaxCodePoint /\ OneAndZeros(digits)
         /\ OneAndZeros(digits) => v <= MaxCodePoint
<1>1. PICK w : Powers(w, base, n) /\ CapsOf(Mults(n, base), w, n)
  BY PowersAre
<1>2. PICK m : m = Mults(n, base) /\ CappedPowers(m, base, n)
  BY MultsAre
<1>3. m \in [0..n -> Nat] /\ w \in [0..n -> Nat]
  BY <1>1, <1>2 DEF CappedPowers, Powers
<1>4. PICK u : RightSums(u, m, digits, n) /\ v = u[n]
  BY <1>2, <1>3, UcsIs
<1>5. PICK t : RightSums(t, w, digits, n)
  BY <1>3, UcsIs
<1>6. x = t[n]
  BY <1>1, <1>5, NumberFromTheEnd
<1>7. Comparable(u, t, digits, n, n)
  BY <1>1, <1>2, <1>4, <1>5, TurnsCompare
<1>8. v \in Nat /\ x \in Nat /\ (n = 0 => v = 0)
  BY <1>4, <1>5, <1>6 DEF RightSums
<1>9. v <= x /\ (v = x \/ v >= MaxCodePoint)
      /\ (v <= MaxCodePoint /\ v # x => LastOne(digits, n, n))
  BY <1>4, <1>6, <1>7 DEF Comparable
<1>10. LastOne(digits, n, n) => OneAndZeros(digits)
  <2>1. (n - n + 1)..n = 1..n /\ DOMAIN digits = 1..n
    BY LenProperties DEF Digits
  <2>2. QED
    BY <2>1 DEF LastOne, OneAndZeros
<1>11. ASSUME OneAndZeros(digits) PROVE v <= MaxCodePoint
  <2>1. \A k \in 0..n : m[k] \in Nat /\ m[k] <= MaxCodePoint
    <3>1. TAKE k \in 0..n
    <3>2. PICK a \in Nat : a = w[k]
      BY <1>3
    <3>3. m[k] = Capped(a)
      BY <1>1, <1>2, <3>2 DEF CapsOf
    <3>4. QED
      BY <3>3 DEF Capped, MaxCodePoint
  <2>2. QED
    BY <1>4, <1>11, <2>1, OneAndZerosSum
<1>12. QED
  BY <1>8, <1>9, <1>10, <1>11 DEF MaxCodePoint

-----------------------------------------------------------------------------
(* ConvertUTF32ToUTF8 writes at most four bytes.                            *)
LEMMA ConvertIs ==
  ASSUME NEW u \in Nat
  PROVE  /\ ConvertUTF32ToUTF8(u) \in Seq(Nat)
         /\ Len(ConvertUTF32ToUTF8(u)) <= 4
         /\ u < 128 => Len(ConvertUTF32ToUTF8(u)) = 1
<1>1. ASSUME NEW v \in Nat PROVE Low(v) \in Nat
  BY SMT DEF Low
<1>2. PICK k \in Nat, l \in Nat, m \in Nat :
        k = u \div 64 /\ l = u \div 4096 /\ m = u \div 262144
  <2>1. u \div 64 \in Nat /\ u \div 4096 \in Nat /\ u \div 262144 \in Nat
    BY SMT
  <2>2. QED
    BY <2>1, SMT
<1>3. PICK a \in Nat, b \in Nat, c \in Nat : a = Low(u) /\ b = Low(k) /\ c = Low(l)
  <2>1. Low(u) \in Nat /\ Low(k) \in Nat /\ Low(l) \in Nat
    BY <1>1, SMT
  <2>2. QED
    BY <2>1, SMT
<1>4. PICK x \in Nat, y \in Nat, z \in Nat : x = 192 + k /\ y = 224 + l /\ z = 240 + m
  BY SMT
<1>5. ConvertUTF32ToUTF8(u) =
        IF u < 128 THEN <<u>> ELSE IF u < 2048 THEN <<x, a>>
        ELSE IF u < 65536 THEN <<y, b, a>>
        ELSE IF u < 2097152 THEN <<z, c, b, a>> ELSE <<>>
  BY <1>2, <1>3, <1>4, SMT DEF ConvertUTF32ToUTF8
<1>6. QED
  BY <1>5, SMT

LEMMA ConvertWrites ==
  ASSUME NEW u \in Nat, u < 2097152
  PROVE  ConvertUTF32ToUTF8(u) # <<>>
<1>1. PICK a : a = 192 + u \div 64
  OBVIOUS
<1>2. PICK b : b = Low(u)
  OBVIOUS
<1>3. PICK c : c = 224 + u \div 4096
  OBVIOUS
<1>4. PICK d : d = Low(u \div 64)
  OBVIOUS
<1>5. PICK e : e = 240 + u \div 262144
  OBVIOUS
<1>6. PICK f : f = Low(u \div 4096)
  OBVIOUS
<1>7. ConvertUTF32ToUTF8(u) \in {<<u>>, <<a, b>>, <<c, d, b>>, <<e, f, d, b>>}
  BY <1>1, <1>2, <1>3, <1>4, <1>5, <1>6 DEF ConvertUTF32ToUTF8
<1>8. QED
  BY <1>7

(* And what it writes can be read back.                                     *)
LEMMA ConvertDecodes ==
  ASSUME NEW u \in Nat
  PROVE  IF u < 2097152 THEN Decoded(ConvertUTF32ToUTF8(u)) = u ELSE ConvertUTF32ToUTF8(u) = <<>>
<1>1. PICK k, l, m, a, b, c :
        /\ k = u \div 64 /\ l = u \div 4096 /\ m = u \div 262144
        /\ a = u % 64 /\ b = k % 64 /\ c = l % 64
  BY SMT
<1>0. /\ k \in Nat /\ l \in Nat /\ m \in Nat /\ a \in 0..63 /\ b \in 0..63 /\ c \in 0..63
      /\ u = 64 * k + a /\ k = 64 * l + b /\ l = 64 * m + c
  <2>1. k \in Nat /\ l \in Nat /\ m \in Nat
    BY <1>1, SMT
  <2>2. a \in 0..63 /\ u = 64 * k + a
    BY <1>1, SMT
  <2>3. l = k \div 64 /\ m = l \div 64
    BY <1>1, SMT
  <2>4. b \in 0..63 /\ k = 64 * l + b
    BY <1>1, <2>1, <2>3, SMT
  <2>5. c \in 0..63 /\ l = 64 * m + c
    BY <1>1, <2>1, <2>3, SMT
  <2>6. QED
    BY <2>1, <2>2, <2>4, <2>5, SMT
<1>2. PICK x, y, z, e, f, g :
        /\ x = 192 + k /\ y = 224 + l /\ z = 240 + m
        /\ e = 128 + a /\ f = 128 + b /\ g = 128 + c
  BY SMT
<1>3. Low(u) = e /\ Low(u \div 64) = f /\ Low(u \div 4096) = g
  BY <1>1, <1>2, SMT DEF Low
<1>4. ConvertUTF32ToUTF8(u) =
        IF u < 128 THEN <<u>> ELSE IF u < 2048 THEN <<x, e>>
        ELSE IF u < 65536 THEN <<y, f, e>>
        ELSE IF u < 2097152 THEN <<z, g, f, e>> ELSE <<>>
  BY <1>1, <1>2, <1>3, SMT DEF ConvertUTF32ToUTF8
<1> PICK s : s = ConvertUTF32ToUTF8(u)
  BY SMT
<1>5. CASE u < 128
  <2>1. s = <<u>> /\ u \in 0..127 /\ u < 2097152
    BY <1>4, <1>5, SMT
  <2>2. Decoded(s) = u
    BY <2>1, SMT DEF Decoded
  <2>3. QED
    BY <2>1, <2>2, SMT
<1>6. CASE u >= 128 /\ u < 2048
  <2>1. s = <<x, e>> /\ ~(u < 128)
    BY <1>4, <1>6, SMT
  <2>2. x \in 194..223 /\ (x - 192) * 64 + (e - 128) = u /\ u < 2097152
    BY <1>0, <1>2, <1>6, SMT
  <2>3. Decoded(s) = u
    BY <2>1, <2>2, SMT DEF Decoded
  <2>4. QED
    BY <2>2, <2>3, SMT
<1>7. CASE u >= 2048 /\ u < 65536
  <2>1. s = <<y, f, e>>
    BY <1>4, <1>7, SMT
  <2>2. y \in 224..239 /\ (y - 224) * 4096 + (f - 128) * 64 + (e - 128) = u /\ u < 2097152
    BY <1>0, <1>2, <1>7, SMT
  <2>3. Decoded(s) = u
    BY <2>1, <2>2, SMT DEF Decoded
  <2>4. QED
    BY <2>2, <2>3, SMT
<1>8. CASE u >= 65536 /\ u < 2097152
  <2>1. s = <<z, g, f, e>>
    BY <1>4, <1>8, SMT
  <2>2. /\ z \in 240..247
        /\ (z - 240) * 262144 + (g - 128) * 4096 + (f - 128) * 64 + (e - 128) = u
    BY <1>0, <1>2, <1>8, SMT
  <2>3. Decoded(s) = u
    BY <2>1, <2>2, SMT DEF Decoded
  <2>4. QED
    BY <1>8, <2>3, SMT
<1>9. CASE u >= 2097152
  BY <1>4, <1>9, SMT
<1>10. QED
  BY <1>5, <1>6, <1>7, <1>8, <1>9, SMT

RefSays(s, i, v, d, x) ==
  /\ v \in Nat /\ x \in Nat /\ (RefEnd(s, i) = i + 2 => v = 0)
  /\ x <= MaxCodePoint => v = x
  /\ v <= MaxCodePoint /\ v # x => v >= MaxCodePoint /\ x > MaxCodePoint /\ OneAndZeros(d)
  /\ OneAndZeros(d) => v <= MaxCodePoint

(* What a reference comes to: its number, if that is a code point.           *)
LEMMA RefNumberIs ==
  ASSUME NEW s, NEW i, Amped(s, i), RefEnds(s, i) # {}, -1 \notin Range(RefDigits(s, i)),
         NEW v, v = RefValue(s, i), NEW d, d = RefDigits(s, i), NEW x, x = Number(d, Base(s, i))
  PROVE  RefSays(s, i, v, d, x)
<1>2. PICK n : n = Len(d)
  OBVIOUS
<1>3. d \in Seq(Nat \cup {-1}) /\ n = RefEnd(s, i) - Max(RefMarks(s, i)) - 1
  BY <1>2, RefDigitsAre
<1>4. n \in Nat /\ d = [k \in 1..n |-> d[k]] /\ DOMAIN d = 1..n
  BY <1>2, <1>3, LenProperties
<1>5. \A k \in 1..n : d[k] \in Nat
  <2>1. TAKE k \in 1..n
  <2>2. d[k] \in Nat \cup {-1}
    BY <1>2, <1>3, ElementOfSeq
  <2>3. d[k] \in Range(d)
    BY <1>4 DEF Range
  <2>4. QED
    BY <2>2, <2>3
<1>6. d \in Seq(Nat)
  BY <1>4, <1>5
<1>7. Digits(d, n)
  BY <1>2, <1>5, <1>6 DEF Digits
<1>8. PICK b \in Nat \ {0} : b = Base(s, i)
  BY DEF Base
<1>9. v = Ucs(d, Mults(n, b))
  BY <1>2, <1>8 DEF RefValue
<1>10. RefEnd(s, i) = i + 2 => n = 0
  BY <1>3, LastMarkIs
<1>11. x = Number(d, b)
  BY <1>8
<1>12. QED
  BY <1>4, <1>7, <1>9, <1>10, <1>11, UcsIsNumber DEF RefSays

LEMMA RefValueIs ==
  ASSUME NEW s, NEW i, Amped(s, i), IsRef(s, i)
  PROVE  /\ RefValue(s, i) \in Nat
         /\ RefEnd(s, i) = i + 2 => RefValue(s, i) = 0
BY RefNumberIs DEF IsRef, RefSays

LEMMA CharacterRefIs ==
  ASSUME NEW s, NEW i, Amped(s, i)
  PROVE  LET r == GetCharacterRef(s, i) IN
         /\ r.bytes \in Seq(Nat) /\ r.skip \in Nat \ {0}
         /\ i + r.skip <= Len(s) + 1 /\ Len(r.bytes) <= r.skip
<1>1. i \in Nat \ {0} /\ Len(s) \in Nat /\ i <= Len(s)
  BY LenProperties DEF Amped
<1>2. PICK r : r = GetCharacterRef(s, i)
  OBVIOUS
<1>3. CASE At(s, i + 2) = 0
  <2>1. r.bytes = <<>> /\ r.skip = 1
    BY <1>2, <1>3 DEF GetCharacterRef
  <2>2. QED
    BY <1>1, <1>2, <2>1
<1>4. CASE At(s, i + 2) # 0 /\ ~IsRef(s, i)
  <2>1. r.bytes = <<Amp>> /\ r.skip = 1
    BY <1>2, <1>4 DEF GetCharacterRef, NoRef
  <2>2. QED
    BY <1>1, <1>2, <2>1 DEF Amp
<1>5. CASE At(s, i + 2) # 0 /\ IsRef(s, i)
  <2>1. PICK u, e : u = RefValue(s, i) /\ e = RefEnd(s, i)
    OBVIOUS
  <2>2. r.bytes = ConvertUTF32ToUTF8(u) /\ r.skip = e - i + 1
    BY <1>2, <1>5, <2>1 DEF GetCharacterRef
  <2>3. u \in Nat /\ (e = i + 2 => u = 0)
    BY <1>5, <2>1, RefValueIs
  <2>4. e \in Nat /\ e >= i + 2 /\ e <= Len(s)
    <3>1. e \in (IF IsHex(s, i) THEN i + 3 ELSE i + 2)..Len(s)
      BY <1>5, <2>1, RefEndIs DEF IsRef
    <3>2. QED
      BY <1>1, <3>1
  <2>5. /\ ConvertUTF32ToUTF8(u) \in Seq(Nat) /\ Len(ConvertUTF32ToUTF8(u)) <= 4
        /\ u < 128 => Len(ConvertUTF32ToUTF8(u)) = 1
    BY <2>3, ConvertIs
  <2>6. PICK b : b = ConvertUTF32ToUTF8(u)
    OBVIOUS
  <2>7. Len(b) \in Nat /\ Len(b) <= e - i + 1
    <3>0. PICK l : l = Len(b)
      OBVIOUS
    <3> SUFFICES l \in Nat /\ l <= e - i + 1
      BY <3>0
    <3>1. l \in Nat /\ l <= 4 /\ (u < 128 => l = 1)
      BY <2>5, <2>6, <3>0, LenProperties
    <3>2. CASE e = i + 2
      BY <1>1, <2>3, <3>1, <3>2
    <3>3. CASE e # i + 2
      BY <1>1, <2>4, <3>1, <3>3
    <3>4. QED
      BY <3>2, <3>3
  <2>8. e - i + 1 \in Nat \ {0} /\ i + (e - i + 1) <= Len(s) + 1
    BY <1>1, <2>4
  <2>9. QED
    BY <1>2, <2>2, <2>5, <2>6, <2>7, <2>8
<1>6. QED
  BY <1>3, <1>4, <1>5

LEMMA EntitiesAre ==
  /\ \A e \in Entities :
       /\ e.pattern \in Seq(Chars) /\ e.value \in {34, 38, 39, 60, 62}
       /\ Len(e.pattern) \in {2, 3, 4} /\ e.pattern[1] # Hash
       /\ e.value = 38 <=> e.pattern = <<97, 109, 112>>
       /\ e.value = 60 <=> e.pattern = <<108, 116>>
       /\ e.value = 62 <=> e.pattern = <<103, 116>>
       /\ \A k \in 1..Len(e.pattern) : e.pattern[k] \in 97..122
  /\ \A d, e \in Entities :
       d.pattern[1] = e.pattern[1] /\ d.pattern[2] = e.pattern[2] => d = e
BY DEF Entities, Chars, Hash

LEMMA HasEntity ==
  ASSUME NEW s \in Seq(Nat), NEW i \in Nat \ {0}, NEW e \in EntitiesAt(s, i)
  PROVE  /\ e \in Entities
         /\ i + Len(e.pattern) + 1 <= Len(s)
         /\ At(s, i + 1) = e.pattern[1] /\ At(s, i + 2) = e.pattern[2]
<1>1. e \in Entities /\ HasAt(s, i + 1, Append(e.pattern, Semicolon))
  BY DEF EntitiesAt
<1>2. PICK t, n : t = e.pattern /\ n = Len(t)
  OBVIOUS
<1>3. t \in Seq(Nat) /\ n \in {2, 3, 4} /\ Semicolon \in Nat \ {0}
  BY <1>1, <1>2, EntitiesAre DEF Chars, Semicolon
<1>4. PICK u : u = Append(t, Semicolon)
  OBVIOUS
<1>5. u \in Seq(Nat) /\ Len(u) = n + 1 /\ u[n + 1] = Semicolon /\ \A k \in 1..n : u[k] = t[k]
  BY <1>2, <1>3, <1>4, AppendProperties
<1>6. \A k \in 1..(n + 1) : At(s, (i + 1) + k - 1) = u[k]
  <2>1. DOMAIN u = 1..(n + 1)
    BY <1>5, LenProperties
  <2>2. QED
    BY <1>1, <1>2, <1>4, <2>1 DEF HasAt
<1>7. 1 \in 1..(n + 1) /\ 2 \in 1..(n + 1) /\ n + 1 \in 1..(n + 1) /\ 1 \in 1..n /\ 2 \in 1..n
  BY <1>3
<1>8. At(s, i + 1) = t[1] /\ At(s, i + 2) = t[2]
  <2>1. (i + 1) + 1 - 1 = i + 1 /\ (i + 1) + 2 - 1 = i + 2
    OBVIOUS
  <2>2. QED
    BY <1>5, <1>6, <1>7, <2>1
<1>9. i + n + 1 <= Len(s)
  <2>1. (i + 1) + (n + 1) - 1 = i + n + 1 /\ i + n + 1 \in Nat
    BY <1>3
  <2>2. At(s, i + n + 1) # 0
    BY <1>3, <1>5, <1>6, <1>7, <2>1
  <2>3. i + n + 1 \in 1..Len(s)
    BY <2>1, <2>2, AtIs
  <2>4. QED
    BY <2>3, LenProperties
<1>10. QED
  BY <1>1, <1>2, <1>8, <1>9

LEMMA OneEntity ==
  ASSUME NEW s \in Seq(Nat), NEW i \in Nat \ {0}, NEW d \in EntitiesAt(s, i), NEW e \in EntitiesAt(s, i)
  PROVE  d = e
<1>1. d.pattern[1] = e.pattern[1] /\ d.pattern[2] = e.pattern[2] /\ d \in Entities /\ e \in Entities
  BY HasEntity
<1>2. QED
  BY <1>1, EntitiesAre

-----------------------------------------------------------------------------
(* What one turn reads is all from p on.                                    *)
Alike(s, t, i) ==
  /\ s \in Seq(Nat) /\ t \in Seq(Nat) /\ Len(s) = Len(t)
  /\ i \in Nat \ {0} /\ \A j \in i..Len(s) : s[j] = t[j]

LEMMA AtAlike ==
  ASSUME NEW s, NEW t, NEW i, Alike(s, t, i), NEW j \in Nat, i <= j
  PROVE  At(s, j) = At(t, j)
<1>1. DOMAIN s = 1..Len(s) /\ DOMAIN t = 1..Len(s) /\ Len(s) \in Nat
  BY LenProperties DEF Alike
<1>2. j \in 1..Len(s) => s[j] = t[j]
  BY <1>1 DEF Alike
<1>3. QED
  BY <1>1, <1>2 DEF At

LEMMA RefAlike ==
  ASSUME NEW s, NEW t, NEW i, Alike(s, t, i), Amped(s, i)
  PROVE  GetCharacterRef(s, i) = GetCharacterRef(t, i)
<1>1. /\ s \in Seq(Nat) /\ t \in Seq(Nat) /\ Len(s) = Len(t) /\ Len(s) \in Nat
      /\ i \in Nat \ {0} /\ i \in 1..Len(s) /\ \A j \in i..Len(s) : s[j] = t[j]
  BY LenProperties DEF Alike, Amped
<1>2. At(s, i + 1) = At(t, i + 1) /\ At(s, i + 2) = At(t, i + 2)
  BY <1>1, AtAlike
<1>3. Amped(t, i)
  BY <1>1, <1>2 DEF Amped
<1>4. IsHex(s, i) = IsHex(t, i)
  BY <1>2 DEF IsHex
<1>5. Base(s, i) = Base(t, i)
  BY <1>4 DEF Base
<1>6. RefEnds(s, i) = RefEnds(t, i)
  <2>1. PICK b \in Nat : b = IF IsHex(s, i) THEN i + 3 ELSE i + 2
    BY <1>1
  <2>2. \A j \in b..Len(s) : s[j] = t[j]
    BY <1>1, <2>1
  <2>3. RefEnds(s, i) = {j \in b..Len(s) : s[j] = Semicolon}
    BY <2>1 DEF RefEnds
  <2>4. RefEnds(t, i) = {j \in b..Len(s) : t[j] = Semicolon}
    BY <1>1, <1>4, <2>1 DEF RefEnds
  <2>5. QED
    BY <2>2, <2>3, <2>4
<1>7. CASE RefEnds(s, i) = {}
  BY <1>2, <1>6, <1>7 DEF GetCharacterRef, IsRef
<1>8. CASE RefEnds(s, i) # {}
  <2>1. PICK e : e = RefEnd(s, i) /\ e = RefEnd(t, i)
    BY <1>6 DEF RefEnd
  <2>2. e \in Nat /\ e <= Len(s)
    <3>1. e \in (IF IsHex(s, i) THEN i + 3 ELSE i + 2)..Len(s)
      BY <1>8, <2>1, RefEndIs
    <3>2. QED
      BY <1>1, <3>1
  <2>3. RefMarks(s, i) = RefMarks(t, i)
    <3>1. \A j \in i..e : s[j] = t[j]
      BY <1>1, <2>2
    <3>2. PICK c : c = IF IsHex(s, i) THEN Letter_x ELSE Hash
      OBVIOUS
    <3>3. RefMarks(s, i) = {j \in i..e : s[j] = c}
      BY <2>1, <3>2 DEF RefMarks
    <3>4. RefMarks(t, i) = {j \in i..e : t[j] = c}
      BY <1>4, <2>1, <3>2 DEF RefMarks
    <3>5. QED
      BY <3>1, <3>3, <3>4
  <2>4. PICK m : m = Max(RefMarks(s, i)) /\ m = Max(RefMarks(t, i))
    BY <2>3
  <2>5. m \in Nat /\ i < m /\ m < e
    <3>1. m \in (IF IsHex(s, i) THEN i + 2 ELSE i + 1)..(e - 1)
      BY <1>8, <2>1, <2>4, LastMarkIs
    <3>2. QED
      BY <1>1, <2>2, <3>1
  <2>6. RefDigits(s, i) = RefDigits(t, i)
    <3>1. PICK n \in Nat : n = e - m - 1
      BY <2>2, <2>5
    <3>2. PICK b : b = Base(s, i)
      OBVIOUS
    <3>3. RefDigits(s, i) = [k \in 1..n |-> Digit(s[m + k], b)]
      BY <2>1, <2>4, <3>1, <3>2 DEF RefDigits
    <3>4. RefDigits(t, i) = [k \in 1..n |-> Digit(t[m + k], b)]
      BY <1>5, <2>1, <2>4, <3>1, <3>2 DEF RefDigits
    <3>5. \A k \in 1..n : s[m + k] = t[m + k]
      <4>1. \A k \in 1..n : m + k \in i..Len(s)
        BY <1>1, <2>2, <2>5, <3>1
      <4>2. QED
        BY <1>1, <4>1
    <3>6. QED
      BY <3>3, <3>4, <3>5
  <2>8. RefValue(s, i) = RefValue(t, i)
    BY <1>5, <2>6 DEF RefValue
  <2>7. IsRef(s, i) = IsRef(t, i)
    BY <1>6, <2>6, <2>8 DEF IsRef
  <2>9. QED
    BY <1>2, <2>1, <2>7, <2>8, SMT DEF GetCharacterRef
<1>9. QED
  BY <1>7, <1>8

LEMMA EntitiesAlike ==
  ASSUME NEW s, NEW t, NEW i, Alike(s, t, i)
  PROVE  EntitiesAt(s, i) = EntitiesAt(t, i)
<1>1. i \in Nat \ {0}
  BY DEF Alike
<1>2. ASSUME NEW u \in Seq(Nat) PROVE HasAt(s, i + 1, u) <=> HasAt(t, i + 1, u)
  <2>1. \A j \in 1..Len(u) : (i + 1) + j - 1 \in Nat /\ i <= (i + 1) + j - 1
    BY <1>1, LenProperties
  <2>2. \A j \in 1..Len(u) : At(s, (i + 1) + j - 1) = At(t, (i + 1) + j - 1)
    <3>1. TAKE j \in 1..Len(u)
    <3>2. PICK k \in Nat : k = (i + 1) + j - 1 /\ i <= k
      BY <2>1
    <3>3. QED
      BY <3>2, AtAlike
  <2>3. DOMAIN u = 1..Len(u)
    BY LenProperties
  <2>4. QED
    BY <2>2, <2>3 DEF HasAt
<1>3. \A e \in Entities : Append(e.pattern, Semicolon) \in Seq(Nat)
  <2>1. \A e \in Entities : e.pattern \in Seq(Nat)
    BY EntitiesAre DEF Chars
  <2>2. QED
    BY <2>1, AppendProperties DEF Semicolon
<1>4. \A e \in Entities : HasAt(s, i + 1, Append(e.pattern, Semicolon))
                            <=> HasAt(t, i + 1, Append(e.pattern, Semicolon))
  BY <1>2, <1>3
<1>5. QED
  BY <1>4 DEF EntitiesAt

LEMMA MeantCases ==
  ASSUME NEW s, NEW i
  PROVE  /\ s[i] \in {CR, LF} =>
              Meant(s, i) =
                [bytes |-> <<LF>>, skip |-> IF {s[i], At(s, i + 1)} = {CR, LF} THEN 2 ELSE 1]
         /\ s[i] \notin {CR, LF, Amp} => Meant(s, i) = [bytes |-> <<s[i]>>, skip |-> 1]
         /\ s[i] = Amp /\ At(s, i + 1) = Hash => Meant(s, i) = GetCharacterRef(s, i)
         /\ s[i] = Amp /\ At(s, i + 1) # Hash /\ EntitiesAt(s, i) = {} =>
              Meant(s, i) = [bytes |-> <<Kept>>, skip |-> 1]
         /\ s[i] = Amp /\ At(s, i + 1) # Hash /\ EntitiesAt(s, i) # {} =>
              Meant(s, i) = [bytes |-> <<EntityAt(s, i).value>>,
                             skip |-> Len(EntityAt(s, i).pattern) + 2]
<1>1. Amp \notin {CR, LF}
  BY DEF Amp, CR, LF
<1>2. s[i] \in {CR, LF} => Meant(s, i) =
        [bytes |-> <<LF>>, skip |-> IF {s[i], At(s, i + 1)} = {CR, LF} THEN 2 ELSE 1]
  BY Zenon DEF Meant
<1>3. s[i] \notin {CR, LF, Amp} => Meant(s, i) = [bytes |-> <<s[i]>>, skip |-> 1]
  BY Zenon DEF Meant
<1>4. s[i] = Amp /\ At(s, i + 1) = Hash => Meant(s, i) = GetCharacterRef(s, i)
  BY <1>1, Zenon DEF Meant
<1>5. s[i] = Amp /\ At(s, i + 1) # Hash /\ EntitiesAt(s, i) = {} =>
        Meant(s, i) = [bytes |-> <<Kept>>, skip |-> 1]
  BY <1>1, Zenon DEF Meant
<1>6. s[i] = Amp /\ At(s, i + 1) # Hash /\ EntitiesAt(s, i) # {} =>
        Meant(s, i) = [bytes |-> <<EntityAt(s, i).value>>,
                       skip |-> Len(EntityAt(s, i).pattern) + 2]
  BY <1>1, Zenon DEF Meant
<1>7. QED
  BY <1>2, <1>3, <1>4, <1>5, <1>6, Zenon

LEMMA MeantAlike ==
  ASSUME NEW s, NEW t, NEW i, Alike(s, t, i), i <= Len(s)
  PROVE  Meant(s, i) = Meant(t, i)
<1>1. /\ i \in Nat /\ Len(s) \in Nat /\ i \in i..Len(s) /\ s[i] = t[i] /\ s \in Seq(Nat)
      /\ i \in 1..Len(s)
  BY LenProperties DEF Alike
<1>2. At(s, i + 1) = At(t, i + 1)
  BY <1>1, AtAlike
<1>3. EntitiesAt(s, i) = EntitiesAt(t, i)
  BY EntitiesAlike
<1>4. At(s, i + 1) = Hash => GetCharacterRef(s, i) = GetCharacterRef(t, i)
  BY <1>1, RefAlike DEF Amped
<1>5. QED
  BY <1>1, <1>2, <1>3, <1>4, Zenon DEF Meant, EntityAt

(* What is written for one turn is no longer than what is read in it.        *)
LEMMA MeantIs ==
  ASSUME NEW s \in Seq(Chars), NEW i \in 1..Len(s)
  PROVE  LET m == Meant(s, i) IN
         /\ m.skip \in Nat \ {0} /\ i + m.skip <= Len(s) + 1
         /\ m.bytes \in Seq(Nat \cup {Kept}) /\ Len(m.bytes) <= m.skip
<1>1. s \in Seq(Nat) /\ Len(s) \in Nat /\ s[i] \in Nat /\ i \in Nat \ {0}
  BY SeqMonotonic, LenProperties, ElementOfSeq DEF Chars
<1>2. PICK m : m = Meant(s, i)
  OBVIOUS
<1> SUFFICES /\ m.skip \in Nat \ {0} /\ i + m.skip <= Len(s) + 1
             /\ m.bytes \in Seq(Nat \cup {Kept}) /\ Len(m.bytes) <= m.skip
  BY <1>2
<1>3. CASE s[i] \in {CR, LF}
  <2>1. PICK k : k = IF {s[i], At(s, i + 1)} = {CR, LF} THEN 2 ELSE 1
    OBVIOUS
  <2>2. m.bytes = <<LF>> /\ m.skip = k
    BY <1>2, <1>3, <2>1 DEF Meant
  <2>3. k = 2 => i + 1 <= Len(s)
    <3>1. k = 2 => At(s, i + 1) # 0
      BY <1>3, <2>1 DEF CR, LF
    <3>2. k = 2 => i + 1 \in 1..Len(s)
      BY <1>1, <3>1, AtIs
    <3>3. QED
      BY <1>1, <3>2
  <2>4. k \in {1, 2}
    BY <2>1
  <2>5. QED
    BY <1>1, <2>2, <2>3, <2>4 DEF LF
<1>4. CASE s[i] \notin {CR, LF, Amp}
  <2>1. m.bytes = <<s[i]>> /\ m.skip = 1
    BY <1>2, <1>4 DEF Meant
  <2>2. QED
    BY <1>1, <2>1
<1>5. CASE s[i] = Amp /\ At(s, i + 1) = Hash
  <2>1. m = GetCharacterRef(s, i)
    BY <1>2, <1>5 DEF Meant, CR, LF, Amp
  <2>2. Amped(s, i)
    BY <1>1, <1>5 DEF Amped
  <2>3. /\ m.bytes \in Seq(Nat) /\ m.skip \in Nat \ {0}
        /\ i + m.skip <= Len(s) + 1 /\ Len(m.bytes) <= m.skip
    BY <2>1, <2>2, CharacterRefIs
  <2>4. m.bytes \in Seq(Nat \cup {Kept})
    BY <2>3, SeqMonotonic
  <2>5. QED
    BY <2>3, <2>4
<1>6. CASE s[i] = Amp /\ At(s, i + 1) # Hash /\ EntitiesAt(s, i) = {}
  <2>1. m.bytes = <<Kept>> /\ m.skip = 1
    BY <1>2, <1>6 DEF Meant, CR, LF, Amp
  <2>2. QED
    BY <1>1, <2>1 DEF Kept
<1>7. CASE s[i] = Amp /\ At(s, i + 1) # Hash /\ EntitiesAt(s, i) # {}
  <2>1. PICK e : e = EntityAt(s, i)
    OBVIOUS
  <2>2. e \in EntitiesAt(s, i)
    BY <1>7, <2>1 DEF EntityAt
  <2>3. m.bytes = <<e.value>> /\ m.skip = Len(e.pattern) + 2
    BY <1>2, <1>7, <2>1 DEF Meant, CR, LF, Amp
  <2>4. e \in Entities /\ i + Len(e.pattern) + 1 <= Len(s)
    BY <1>1, <2>2, HasEntity
  <2>5. Len(e.pattern) \in {2, 3, 4} /\ e.value \in Nat
    BY <2>4, EntitiesAre
  <2>6. QED
    BY <1>1, <2>3, <2>4, <2>5
<1>8. QED
  BY <1>3, <1>4, <1>5, <1>6, <1>7
-----------------------------------------------------------------------------
(* What the text stands for from each place on.                             *)
Reads(s, F) ==
  /\ F \in [1..(Len(s) + 1) -> Seq(Nat \cup {Kept})]
  /\ F[Len(s) + 1] = <<>>
  /\ \A i \in 1..Len(s) : F[i] = Meant(s, i).bytes \o F[i + Meant(s, i).skip]

Follows(V, M, n, F, k) ==
  /\ F \in [1..(n + 1) -> V] /\ F[n + 1] = <<>>
  /\ \A i \in 1..n : n - i < k => F[i] = Then(M[i].bytes, F[i + M[i].skip])

LEMMA ExpectedIs ==
  ASSUME NEW s \in Seq(Chars)
  PROVE  \E F : Reads(s, F) /\ Expected(s) = F[1]
<1>1. PICK n \in Nat : n = Len(s)
  BY LenProperties
<1>2. PICK V : V = Seq(Nat \cup {Kept})
  OBVIOUS
<1>3. PICK M : M = [i \in 1..n |-> Meant(s, i)]
  OBVIOUS
<1>4. \A i \in 1..n : /\ M[i] = Meant(s, i) /\ M[i].bytes \in V
                      /\ M[i].skip \in Nat \ {0} /\ i + M[i].skip <= n + 1
  BY <1>1, <1>2, <1>3, MeantIs
<1>5. Joined(V)
  BY <1>2, SequencesJoin
<1> DEFINE T == {k \in Nat : k <= n => \E F : Follows(V, M, n, F, k)}
<1>6. 0 \in T
  <2>1. PICK F : F = [i \in 1..(n + 1) |-> <<>>]
    OBVIOUS
  <2>2. F \in [1..(n + 1) -> V] /\ F[n + 1] = <<>>
    BY <1>5, <2>1 DEF Joined
  <2>3. Follows(V, M, n, F, 0)
    BY <2>2 DEF Follows
  <2>4. QED
    BY <2>3
<1>7. ASSUME NEW k \in Nat, k \in T PROVE k + 1 \in T
  <2> SUFFICES ASSUME k + 1 <= n PROVE \E F : Follows(V, M, n, F, k + 1)
    OBVIOUS
  <2>1. PICK F : Follows(V, M, n, F, k)
    BY <1>7
  <2>0. /\ F \in [1..(n + 1) -> V] /\ F[n + 1] = <<>>
        /\ \A i \in 1..n : n - i < k => F[i] = Then(M[i].bytes, F[i + M[i].skip])
    BY <2>1 DEF Follows
  <2>2. PICK j \in 1..n : j = n - k
    OBVIOUS
  <2>3. PICK x \in V : x = Then(M[j].bytes, F[j + M[j].skip])
    <3>1. M[j].bytes \in V /\ j + M[j].skip \in 1..(n + 1)
      BY <1>4
    <3>2. F[j + M[j].skip] \in V
      BY <2>0, <3>1
    <3>3. QED
      BY <1>5, <3>1, <3>2 DEF Joined, Then
  <2>4. PICK G : G = [i \in 1..(n + 1) |-> IF i = j THEN x ELSE F[i]]
    OBVIOUS
  <2>5. G \in [1..(n + 1) -> V] /\ G[n + 1] = <<>> /\ G[j] = x
        /\ \A i \in 1..(n + 1) : i # j => G[i] = F[i]
    BY <2>0, <2>2, <2>4
  <2>6. ASSUME NEW i \in 1..n, n - i < k + 1 PROVE G[i] = Then(M[i].bytes, G[i + M[i].skip])
    <3>1. PICK r \in 1..(n + 1) : r = i + M[i].skip /\ i < r
      BY <1>4
    <3>2. i >= j
      BY <2>2, <2>6
    <3>3. G[r] = F[r]
      BY <2>5, <3>1, <3>2
    <3>4. CASE i = j
      BY <2>3, <2>5, <3>1, <3>3, <3>4
    <3>5. CASE i # j
      <4>1. n - i < k /\ i \in 1..(n + 1)
        BY <2>2, <3>2, <3>5
      <4>2. F[i] = Then(M[i].bytes, F[r])
        BY <2>0, <3>1, <4>1
      <4>3. QED
        BY <2>5, <3>1, <3>3, <3>5, <4>1, <4>2
    <3>6. QED
      BY <3>4, <3>5
  <2>7. Follows(V, M, n, G, k + 1)
    BY <2>5, <2>6 DEF Follows
  <2>8. QED
    BY <2>7
<1>8. Nat \subseteq T
  <2> HIDE DEF T
  <2> QED
    BY <1>6, <1>7, AllNaturals
<1>9. PICK F : Follows(V, M, n, F, n)
  BY <1>8
<1>10. /\ F \in [1..(n + 1) -> V] /\ F[n + 1] = <<>>
       /\ \A i \in 1..n : F[i] = Then(M[i].bytes, F[i + M[i].skip])
  <2>1. \A i \in 1..n : n - i < n
    OBVIOUS
  <2>2. QED
    BY <1>9, <2>1 DEF Follows
<1> HIDE DEF T
<1> DEFINE R(f) == [i \in 1..(n + 1) |->
                      IF i > n THEN <<>> ELSE Meant(s, i).bytes \o f[i + Meant(s, i).skip]]
           from == CHOOSE f : f = R(f)
<1>11. F = R(F)
  <2>1. ASSUME NEW i \in 1..(n + 1)
        PROVE  F[i] = IF i > n THEN <<>> ELSE Meant(s, i).bytes \o F[i + Meant(s, i).skip]
    <3>1. CASE i = n + 1
      BY <1>10, <3>1
    <3>2. CASE i \in 1..n
      <4>1. F[i] = M[i].bytes \o F[i + M[i].skip] /\ M[i] = Meant(s, i)
        BY <1>4, <1>10, <3>2 DEF Then
      <4>2. F[i] = Meant(s, i).bytes \o F[i + Meant(s, i).skip]
        BY <4>1, Zenon
      <4>3. ~(i > n)
        BY <3>2
      <4>4. QED
        BY <4>2, <4>3, Zenon
    <3>3. QED
      BY <3>1, <3>2
  <2>2. QED
    BY <1>10, <2>1
<1>12. from = R(from)
  <2> HIDE DEF R
  <2> QED
    BY <1>11
<1>13. PICK h : h = from
  OBVIOUS
<1>14. Expected(s) = h[1]
  BY <1>1, <1>13, Zenon DEF Expected
<1>15. h = R(h)
  BY <1>12, <1>13
<1>16. \A i \in 1..(n + 1) :
         h[i] = IF i > n THEN <<>> ELSE Meant(s, i).bytes \o h[i + Meant(s, i).skip]
  <2> HIDE DEF from
  <2> QED
    BY <1>15
<1> HIDE DEF R, from
<1>17. /\ h[n + 1] = <<>>
       /\ \A i \in 1..n : h[i] = Then(M[i].bytes, h[i + M[i].skip])
  <2>1. n + 1 \in 1..(n + 1) /\ n + 1 > n
    OBVIOUS
  <2>2. ASSUME NEW i \in 1..n PROVE h[i] = Then(M[i].bytes, h[i + M[i].skip])
    <3>1. i \in 1..(n + 1) /\ ~(i > n)
      OBVIOUS
    <3>2. QED
      BY <1>4, <1>16, <3>1 DEF Then
  <2>3. QED
    BY <1>16, <2>1, <2>2
<1> DEFINE U == {k \in Nat : \A i \in 1..(n + 1) : n + 1 - i <= k => h[i] = F[i]}
<1>18. 0 \in U
  <2>1. ASSUME NEW i \in 1..(n + 1), n + 1 - i <= 0 PROVE h[i] = F[i]
    <3>1. i = n + 1
      BY <2>1
    <3>2. QED
      BY <1>10, <1>17, <3>1
  <2>2. QED
    BY <2>1
<1>19. ASSUME NEW k \in Nat, k \in U PROVE k + 1 \in U
  <2> SUFFICES ASSUME NEW i \in 1..(n + 1), n + 1 - i <= k + 1 PROVE h[i] = F[i]
    OBVIOUS
  <2>1. CASE n + 1 - i <= k
    BY <1>19, <2>1
  <2>2. CASE n + 1 - i = k + 1
    <3>1. i \in 1..n
      BY <2>2
    <3>2. PICK r \in 1..(n + 1) : r = i + M[i].skip /\ i < r
      BY <1>4, <3>1
    <3>3. n + 1 - r <= k
      BY <2>2, <3>2
    <3>4. h[r] = F[r]
      BY <1>19, <3>3
    <3>5. h[i] = Then(M[i].bytes, h[r]) /\ F[i] = Then(M[i].bytes, F[r])
      BY <1>10, <1>17, <3>1, <3>2
    <3>6. QED
      BY <3>4, <3>5
  <2>3. QED
    BY <2>1, <2>2
<1>20. Nat \subseteq U
  <2> HIDE DEF U
  <2> QED
    BY <1>18, <1>19, AllNaturals
<1>21. h[1] = F[1]
  <2>1. n \in U
    <3> HIDE DEF U
    <3> QED
      BY <1>20
  <2>2. 1 \in 1..(n + 1) /\ n + 1 - 1 <= n
    OBVIOUS
  <2>3. QED
    BY <2>1, <2>2
<1>22. Reads(s, F)
  BY <1>1, <1>2, <1>4, <1>10 DEF Reads, Then
<1>23. QED
  BY <1>14, <1>21, <1>22

-----------------------------------------------------------------------------
(* Where GetStr is.                                                         *)
TextType ==
  /\ raw \in Seq(Chars) /\ buf \in Seq(Nat) /\ Len(buf) = Len(raw)
  /\ p \in 1..(Len(raw) + 1) /\ q \in 1..p
  /\ pass \in 0..2 /\ wanted \in Seq(Chars)
  /\ \A i \in q..Len(raw) : buf[i] = raw[i]

(* One turn, whatever it reads.                                             *)
TextTurn(m) ==
  /\ p' = p + m.skip /\ q' = q + Len(m.bytes)
  /\ raw' = raw /\ pass' = pass /\ wanted' = wanted
  /\ buf' \in Seq(Nat) /\ Len(buf') = Len(raw)
  /\ \A i \in 1..Len(raw) : i < q \/ i >= q + Len(m.bytes) => buf'[i] = buf[i]
  /\ \A j \in 1..Len(m.bytes) :
       buf'[q + j - 1] = IF m.bytes[j] = Kept THEN raw[q + j - 1] ELSE m.bytes[j]

LEMMA PutTurns ==
  ASSUME TextType, NEW b, NEW k, b \in Seq(Nat), Len(b) <= k, k \in Nat, p + k <= Len(raw) + 1,
         Put(b, p + k)
  PROVE  TextTurn([bytes |-> b, skip |-> k])
<1>1. PICK n \in Nat, l \in Nat : n = Len(raw) /\ l = Len(b)
  BY LenProperties DEF TextType
<1>2. /\ p \in 1..(n + 1) /\ q \in 1..p /\ p \in Nat /\ q \in Nat \ {0} /\ buf \in Seq(Nat)
      /\ Len(buf) = n /\ DOMAIN buf = 1..n /\ \A i \in 1..n : buf[i] \in Nat
  BY <1>1, LenProperties, ElementOfSeq DEF TextType
<1>3. /\ buf' = [i \in 1..n |-> IF i \in q..(q + l - 1) THEN b[i - q + 1] ELSE buf[i]]
      /\ q' = q + l /\ p' = p + k /\ raw' = raw /\ pass' = pass /\ wanted' = wanted
  BY <1>1, <1>2 DEF Put
<1>4. \A j \in 1..l : b[j] \in Nat
  BY <1>1, ElementOfSeq
<1>5. \A i \in 1..n : (IF i \in q..(q + l - 1) THEN b[i - q + 1] ELSE buf[i]) \in Nat
  <2>1. \A i \in q..(q + l - 1) : i - q + 1 \in 1..l
    BY <1>2
  <2>2. QED
    BY <1>2, <1>4, <2>1
<1>6. buf' \in Seq(Nat) /\ Len(buf') = n
  BY <1>3, <1>5
<1>7. \A i \in 1..n : i < q \/ i >= q + l => buf'[i] = buf[i]
  BY <1>2, <1>3
<1>8. \A j \in 1..l : buf'[q + j - 1] = b[j] /\ b[j] # Kept
  <2>1. TAKE j \in 1..l
  <2>2. PICK i : i = q + j - 1
    OBVIOUS
  <2>3. i \in 1..n /\ i \in q..(q + l - 1) /\ i - q + 1 = j
    BY <1>1, <1>2, <2>2
  <2>4. buf'[i] = b[j]
    BY <1>3, <2>3
  <2>5. QED
    BY <1>4, <2>2, <2>4 DEF Kept
<1>9. PICK m : m = [bytes |-> b, skip |-> k]
  OBVIOUS
<1>10. m.bytes = b /\ m.skip = k
  BY <1>9
<1>11. TextTurn(m)
  BY <1>1, <1>3, <1>6, <1>7, <1>8, <1>10 DEF TextTurn
<1>12. QED
  BY <1>9, <1>11

LEMMA TurnIs ==
  ASSUME TextType,
         CopyNewline \/ CopyCharacterRef \/ CopyEntity \/ PassUnknownEntity \/ CopyCharacter
  PROVE  TextTurn(Meant(raw, p)) /\ p <= Len(raw)
<1>1. Flushing
  BY DEF CopyNewline, CopyCharacterRef, CopyEntity, PassUnknownEntity, CopyCharacter
<1>2. PICK n \in Nat : n = Len(raw)
  BY LenProperties DEF TextType
<1>3. /\ p \in 1..n /\ p \in Nat \ {0} /\ q \in 1..p /\ raw \in Seq(Chars) /\ buf \in Seq(Nat)
      /\ raw \in Seq(Nat) /\ Len(buf) = n
  BY <1>1, <1>2, SeqMonotonic DEF TextType, Flushing, Chars
<1>4. Alike(buf, raw, p)
  <2>1. \A j \in p..n : buf[j] = raw[j]
    BY <1>2, <1>3 DEF TextType
  <2>2. QED
    BY <1>2, <1>3, <2>1 DEF Alike
<1>5. Meant(buf, p) = Meant(raw, p)
  BY <1>2, <1>3, <1>4, MeantAlike
<1>6. PICK m : m = Meant(raw, p) /\ m = Meant(buf, p)
  BY <1>5
<1>7. /\ m.skip \in Nat \ {0} /\ p + m.skip <= n + 1
      /\ m.bytes \in Seq(Nat \cup {Kept}) /\ Len(m.bytes) <= m.skip
  BY <1>2, <1>3, <1>6, MeantIs
<1>8. ASSUME NEW b, NEW k, b \in Seq(Nat), k \in Nat, m = [bytes |-> b, skip |-> k], Put(b, p + k)
      PROVE  TextTurn(m)
  <2>1. m.bytes = b /\ m.skip = k
    BY <1>8
  <2>2. Len(b) <= k /\ p + k <= Len(raw) + 1
    BY <1>2, <1>7, <2>1
  <2>3. QED
    BY <1>8, <2>2, PutTurns
<1>9. CASE CopyNewline
  <2>1. buf[p] \in {CR, LF}
    BY <1>9 DEF CopyNewline
  <2>2. PICK k : k = IF {buf[p], At(buf, p + 1)} = {CR, LF} THEN 2 ELSE 1
    OBVIOUS
  <2>3. m = [bytes |-> <<LF>>, skip |-> k]
    BY <1>6, <2>1, <2>2, MeantCases, Zenon
  <2>4. Put(<<LF>>, p + k)
    <3>1. k = IF At(buf, p + 1) = (IF buf[p] = CR THEN LF ELSE CR) THEN 2 ELSE 1
      BY <2>1, <2>2 DEF CR, LF
    <3>2. PICK o : o = IF buf[p] = CR THEN LF ELSE CR
      OBVIOUS
    <3>3. Put(<<LF>>, IF At(buf, p + 1) = o THEN p + 2 ELSE p + 1)
      BY <1>9, <3>2 DEF CopyNewline
    <3>4. p + k = IF At(buf, p + 1) = o THEN p + 2 ELSE p + 1
      BY <3>1, <3>2
    <3>5. QED
      BY <3>3, <3>4
  <2>5. <<LF>> \in Seq(Nat) /\ k \in Nat
    BY <2>2 DEF LF
  <2>6. PICK b : b = <<LF>>
    OBVIOUS
  <2>7. TextTurn(m)
    BY <1>8, <2>3, <2>4, <2>5, <2>6
  <2>8. QED
    BY <1>2, <1>3, <1>6, <2>7
<1>10. CASE CopyCharacterRef
  <2>1. buf[p] = Amp /\ At(buf, p + 1) = Hash
    BY <1>10 DEF CopyCharacterRef, IsCharacterRef
  <2>2. m = GetCharacterRef(buf, p)
    BY <1>6, <2>1, MeantCases, Zenon
  <2>3. Put(m.bytes, p + m.skip)
    BY <1>10, <2>2 DEF CopyCharacterRef
  <2>4. m.bytes \in Seq(Nat) /\ m.skip \in Nat
    <3>1. Amped(buf, p)
      BY <1>3, <2>1 DEF Amped
    <3>2. QED
      BY <2>2, <3>1, CharacterRefIs
  <2>5. m = [bytes |-> m.bytes, skip |-> m.skip]
    <3>1. m = [bytes |-> <<>>, skip |-> 1] \/ m = [bytes |-> <<Amp>>, skip |-> 1]
          \/ m = [bytes |-> ConvertUTF32ToUTF8(RefValue(buf, p)), skip |-> RefEnd(buf, p) - p + 1]
      BY <2>2 DEF GetCharacterRef, NoRef
    <3>2. QED
      BY <3>1
  <2>6. QED
    BY <1>2, <1>3, <1>6, <1>8, <2>3, <2>4, <2>5
<1>11. CASE CopyEntity
  <2>1. buf[p] = Amp /\ At(buf, p + 1) # Hash
    BY <1>11 DEF CopyEntity, IsCharacterRef
  <2>2. PICK e \in EntitiesAt(buf, p) : Put(<<e.value>>, p + Len(e.pattern) + 2)
    BY <1>11 DEF CopyEntity
  <2>3. PICK c : c = EntityAt(buf, p)
    OBVIOUS
  <2>10. c = e
    <3>1. c \in EntitiesAt(buf, p)
      BY <2>2, <2>3 DEF EntityAt
    <3>2. QED
      BY <1>3, <3>1, OneEntity
  <2>11. EntitiesAt(buf, p) # {}
    BY <2>2
  <2>12. m = [bytes |-> <<c.value>>, skip |-> Len(c.pattern) + 2]
    BY <1>6, <2>1, <2>3, <2>11, MeantCases, Zenon
  <2>4. m = [bytes |-> <<e.value>>, skip |-> Len(e.pattern) + 2]
    BY <2>10, <2>12
  <2>5. e \in Entities
    BY <2>2 DEF EntitiesAt
  <2>6. <<e.value>> \in Seq(Nat) /\ Len(e.pattern) \in Nat
    BY <2>5, EntitiesAre
  <2>7. PICK k \in Nat : k = Len(e.pattern) + 2
    BY <2>6
  <2>8. Put(<<e.value>>, p + k)
    <3>1. p + Len(e.pattern) + 2 = p + k
      BY <1>3, <2>6, <2>7
    <3>2. QED
      BY <2>2, <3>1
  <2>13. PICK b : b = <<e.value>>
    OBVIOUS
  <2>14. TextTurn(m)
    BY <1>8, <2>4, <2>6, <2>7, <2>8, <2>13
  <2>9. QED
    BY <1>2, <1>3, <1>6, <2>14
<1>12. CASE PassUnknownEntity
  <2>1. buf[p] = Amp /\ At(buf, p + 1) # Hash /\ EntitiesAt(buf, p) = {}
    BY <1>12 DEF PassUnknownEntity, IsCharacterRef
  <2>2. m = [bytes |-> <<Kept>>, skip |-> 1]
    BY <1>6, <2>1, MeantCases, Zenon
  <2>3. Len(m.bytes) = 1 /\ m.skip = 1 /\ m.bytes[1] = Kept
    BY <2>2
  <2>4. buf[q] = raw[q]
    <3>1. q \in q..n
      BY <1>2, <1>3
    <3>2. \A i \in q..n : buf[i] = raw[i]
      BY <1>2 DEF TextType
    <3>3. QED
      BY <3>1, <3>2
  <2>5. /\ p' = p + 1 /\ q' = q + 1 /\ buf' = buf /\ raw' = raw /\ pass' = pass /\ wanted' = wanted
    BY <1>12 DEF PassUnknownEntity
  <2>6. \A j \in 1..1 : j = 1 /\ q + j - 1 = q
    BY <1>3
  <2>7. TextTurn(m)
    BY <1>2, <1>3, <2>3, <2>4, <2>5, <2>6 DEF TextTurn
  <2>8. QED
    BY <1>2, <1>3, <1>6, <2>7
<1>13. CASE CopyCharacter
  <2>1. buf[p] \notin {CR, LF, Amp} /\ Put(<<buf[p]>>, p + 1)
    BY <1>13 DEF CopyCharacter
  <2>2. m = [bytes |-> <<buf[p]>>, skip |-> 1]
    BY <1>6, <2>1, MeantCases, Zenon
  <2>3. <<buf[p]>> \in Seq(Nat)
    BY <1>3, ElementOfSeq
  <2>4. PICK b : b = <<buf[p]>>
    OBVIOUS
  <2>5. TextTurn(m)
    BY <1>8, <2>1, <2>2, <2>3, <2>4
  <2>6. QED
    BY <1>2, <1>3, <1>6, <2>5
<1>14. QED
  BY <1>9, <1>10, <1>11, <1>12, <1>13

(* What has been written, and what is still to be read.                     *)
WrittenTo(F) ==
  /\ Reads(raw, F)
  /\ Len(F[1]) = q - 1 + Len(F[p])
  /\ \A i \in 1..Len(F[p]) : F[1][q - 1 + i] = F[p][i]
  /\ \A i \in 1..(q - 1) : buf[i] = IF F[1][i] = Kept THEN raw[i] ELSE F[1][i]

LEMMA TurnKeepsType ==
  ASSUME TextType, p <= Len(raw), NEW m, m = Meant(raw, p), TextTurn(m)
  PROVE  TextType'
<1>1. PICK n \in Nat, l \in Nat, k \in Nat : n = Len(raw) /\ l = Len(m.bytes) /\ k = m.skip
  <2>1. raw \in Seq(Chars) /\ p \in 1..Len(raw)
    BY LenProperties DEF TextType
  <2>2. m.skip \in Nat \ {0} /\ m.bytes \in Seq(Nat \cup {Kept})
    BY <2>1, MeantIs
  <2>3. QED
    BY <2>1, <2>2, LenProperties
<1>2. /\ p \in 1..n /\ q \in 1..p /\ p \in Nat /\ q \in Nat /\ raw \in Seq(Chars) /\ wanted \in Seq(Chars)
      /\ pass \in 0..2 /\ \A i \in q..n : buf[i] = raw[i]
  BY <1>1 DEF TextType
<1>3. k \in Nat \ {0} /\ p + k <= n + 1 /\ l <= k
  BY <1>1, <1>2, MeantIs
<1>4. p' = p + k /\ q' = q + l /\ raw' = raw /\ pass' = pass /\ wanted' = wanted
      /\ buf' \in Seq(Nat) /\ Len(buf') = n /\ \A i \in 1..n : i >= q + l => buf'[i] = buf[i]
  BY <1>1 DEF TextTurn
<1>5. p' \in 1..(n + 1) /\ q' \in 1..p'
  BY <1>2, <1>3, <1>4
<1>6. \A i \in q'..n : buf'[i] = raw[i]
  <2>1. \A i \in (q + l)..n : i \in 1..n /\ i \in q..n /\ i >= q + l
    BY <1>2
  <2>2. QED
    BY <1>2, <1>4, <2>1
<1>7. QED
  BY <1>1, <1>2, <1>4, <1>5, <1>6 DEF TextType

LEMMA TurnKeepsWritten ==
  ASSUME TextType, p <= Len(raw), NEW m, m = Meant(raw, p), TextTurn(m), NEW F, WrittenTo(F)
  PROVE  WrittenTo(F)'
<1>0. PICK b : b = m.bytes
  OBVIOUS
<1>1. PICK n \in Nat, l \in Nat, k \in Nat :
        n = Len(raw) /\ l = Len(m.bytes) /\ k = m.skip /\ b = m.bytes
  <2>1. raw \in Seq(Chars) /\ p \in 1..Len(raw)
    BY LenProperties DEF TextType
  <2>2. m.skip \in Nat \ {0} /\ m.bytes \in Seq(Nat \cup {Kept})
    BY <2>1, MeantIs
  <2>3. QED
    BY <1>0, <2>1, <2>2, LenProperties
<1>2. /\ p \in 1..n /\ q \in 1..p /\ p \in Nat /\ q \in Nat \ {0} /\ raw \in Seq(Chars)
      /\ \A i \in q..n : buf[i] = raw[i]
  BY <1>1 DEF TextType
<1>3. k \in Nat \ {0} /\ p + k <= n + 1 /\ l <= k /\ b \in Seq(Nat \cup {Kept}) /\ Len(b) = l
  BY <1>1, <1>2, MeantIs
<1>4. /\ p' = p + k /\ q' = q + l /\ raw' = raw
      /\ \A i \in 1..n : i < q => buf'[i] = buf[i]
      /\ \A j \in 1..l : buf'[q + j - 1] = IF b[j] = Kept THEN raw[q + j - 1] ELSE b[j]
  BY <1>1 DEF TextTurn
<1>5. PICK E, G, H : E = F[1] /\ G = F[p] /\ H = F[p + k]
  OBVIOUS
<1>6. G \in Seq(Nat \cup {Kept}) /\ H \in Seq(Nat \cup {Kept}) /\ G = b \o H
  <2>1. p \in 1..(n + 1) /\ p + k \in 1..(n + 1)
    BY <1>2, <1>3
  <2>2. F \in [1..(n + 1) -> Seq(Nat \cup {Kept})]
    BY <1>1 DEF WrittenTo, Reads
  <2>3. F[p] = Meant(raw, p).bytes \o F[p + Meant(raw, p).skip]
    BY <1>1, <1>2 DEF WrittenTo, Reads
  <2>4. QED
    BY <1>1, <1>5, <2>1, <2>2, <2>3
<1>7. /\ Len(G) = l + Len(H) /\ Len(H) \in Nat
      /\ \A i \in 1..l : G[i] = b[i]
      /\ \A i \in 1..Len(H) : G[l + i] = H[i]
  <2>1. Len(H) \in Nat
    BY <1>6, LenProperties
  <2>2. /\ Len(G) = Len(b) + Len(H)
        /\ \A i \in 1..(Len(b) + Len(H)) : G[i] = IF i <= Len(b) THEN b[i] ELSE H[i - Len(b)]
    BY <1>3, <1>6, ConcatProperties
  <2>3. PICK h \in Nat : h = Len(H)
    BY <2>1
  <2>4. \A i \in 1..(l + h) : G[i] = IF i <= l THEN b[i] ELSE H[i - l]
    BY <1>3, <2>2, <2>3
  <2>5. \A i \in 1..l : i \in 1..(l + h) /\ i <= l
    OBVIOUS
  <2>6. \A i \in 1..h : l + i \in 1..(l + h) /\ ~(l + i <= l) /\ (l + i) - l = i
    OBVIOUS
  <2>7. \A i \in 1..h : G[l + i] = H[i]
    BY <2>4, <2>6
  <2>8. \A i \in 1..l : G[i] = b[i]
    BY <2>4, <2>5
  <2>9. QED
    BY <1>3, <2>1, <2>2, <2>3, <2>7, <2>8
<1>8. /\ Len(E) = q - 1 + Len(G)
      /\ \A i \in 1..Len(G) : E[q - 1 + i] = G[i]
      /\ \A i \in 1..(q - 1) : buf[i] = IF E[i] = Kept THEN raw[i] ELSE E[i]
  BY <1>5 DEF WrittenTo
<1>9. PICK h \in Nat : h = Len(H)
  BY <1>7
<1>10. Len(E) = q' - 1 + h
  BY <1>2, <1>4, <1>7, <1>8, <1>9
<1>11. \A i \in 1..h : E[q' - 1 + i] = H[i]
  <2>1. TAKE i \in 1..h
  <2>2. l + i \in 1..(l + h) /\ q - 1 + (l + i) = q' - 1 + i
    BY <1>2, <1>4
  <2>3. E[q - 1 + (l + i)] = G[l + i]
    BY <1>7, <1>8, <1>9, <2>2
  <2>4. QED
    BY <1>7, <1>9, <2>2, <2>3
<1>12. \A i \in 1..(q' - 1) : buf'[i] = IF E[i] = Kept THEN raw[i] ELSE E[i]
  <2>1. TAKE i \in 1..(q' - 1)
  <2>2. CASE i < q
    <3>1. i \in 1..n /\ i \in 1..(q - 1)
      BY <1>2, <2>2
    <3>2. QED
      BY <1>4, <1>8, <2>2, <3>1
  <2>3. CASE ~(i < q)
    <3>1. PICK j \in 1..l : i = q + j - 1
      <4>1. i - q + 1 \in 1..l /\ i = q + (i - q + 1) - 1
        BY <1>2, <1>4, <2>3
      <4>2. QED
        BY <4>1
    <3>2. j \in 1..(l + h) /\ q - 1 + j = i
      BY <1>2, <1>9, <3>1
    <3>3. E[i] = b[j]
      BY <1>7, <1>8, <1>9, <3>2
    <3>4. QED
      BY <1>4, <3>1, <3>3
  <2>4. QED
    BY <2>2, <2>3
<1>13. Reads(raw', F)
  BY <1>4 DEF WrittenTo
<1>14. QED
  BY <1>4, <1>5, <1>9, <1>10, <1>11, <1>12, <1>13 DEF WrittenTo

-----------------------------------------------------------------------------
(* The sequences that are joined are found again in the whole.              *)
InPlace(ss, n, g) ==
  /\ \A j \in 0..n : Len(g[j]) \in Nat /\ Len(g[j]) <= Len(g[n])
  /\ \A j \in 1..n :
       /\ Len(g[j]) = Len(g[j - 1]) + Len(ss[j])
       /\ \A i \in 1..Len(ss[j]) : g[n][Len(g[j - 1]) + i] = ss[j][i]

LEMMA FlatPlaces ==
  ASSUME NEW S, NEW n \in Nat, NEW ss, \A k \in 1..n : ss[k] \in Seq(S),
         NEW g, FlatIn(Seq(S), ss, n, g)
  PROVE  InPlace(ss, n, g)
<1>1. /\ g \in [0..n -> Seq(S)] /\ g[0] = <<>>
      /\ \A k \in 1..n : g[k] = g[k - 1] \o ss[k]
  BY DEF FlatIn, Flat
<1>2. PICK l : l = [k \in 0..n |-> Len(g[k])]
  OBVIOUS
<1>3. \A k \in 0..n : l[k] = Len(g[k]) /\ l[k] \in Nat
  BY <1>1, <1>2, LenProperties
<1>4. ASSUME NEW k \in 1..n
      PROVE  /\ l[k] = l[k - 1] + Len(ss[k]) /\ Len(ss[k]) \in Nat
             /\ \A i \in 1..l[k - 1] : g[k][i] = g[k - 1][i]
             /\ \A i \in 1..Len(ss[k]) : g[k][l[k - 1] + i] = ss[k][i]
  <2>1. k \in 0..n /\ k - 1 \in 0..n /\ g[k - 1] \in Seq(S) /\ ss[k] \in Seq(S)
    BY <1>1
  <2>2. PICK a \in Seq(S), b \in Seq(S) : a = g[k - 1] /\ b = ss[k]
    BY <2>1
  <2>3. PICK x \in Nat, y \in Nat : x = Len(a) /\ y = Len(b)
    BY LenProperties
  <2>4. Len(a \o b) = x + y /\ \A i \in 1..(x + y) : (a \o b)[i] = IF i <= x THEN a[i] ELSE b[i - x]
    BY <2>3, ConcatProperties
  <2>5. g[k] = a \o b
    BY <1>1, <2>2
  <2>6. l[k - 1] = x /\ l[k] = x + y
    BY <1>3, <2>1, <2>2, <2>3, <2>4, <2>5
  <2>7. \A i \in 1..x : g[k][i] = a[i]
    BY <2>4, <2>5
  <2>8. \A i \in 1..y : g[k][x + i] = b[i]
    <3>1. \A i \in 1..y : x + i \in 1..(x + y) /\ ~(x + i <= x) /\ (x + i) - x = i
      OBVIOUS
    <3>2. QED
      BY <2>4, <2>5, <3>1
  <2>9. QED
    BY <2>2, <2>3, <2>6, <2>7, <2>8
<1> DEFINE Kept1(j, m) == l[j] <= l[m] /\ \A i \in 1..l[j] : g[m][i] = g[j][i]
           T == {m \in Nat : m <= n => \A j \in 0..m : Kept1(j, m)}
<1>5. 0 \in T
  <2>1. \A j \in 0..0 : j = 0
    OBVIOUS
  <2>2. QED
    BY <1>3, <2>1
<1>6. ASSUME NEW m \in Nat, m \in T PROVE m + 1 \in T
  <2> SUFFICES ASSUME m + 1 <= n, NEW j \in 0..(m + 1) PROVE Kept1(j, m + 1)
    OBVIOUS
  <2>1. m + 1 \in 1..n /\ (m + 1) - 1 = m /\ m \in 0..n /\ j \in 0..n
    OBVIOUS
  <2>2. l[m + 1] = l[m] + Len(ss[m + 1]) /\ Len(ss[m + 1]) \in Nat
        /\ \A i \in 1..l[m] : g[m + 1][i] = g[m][i]
    BY <1>4, <2>1
  <2>3. CASE j = m + 1
    BY <1>3, <2>1, <2>3
  <2>4. CASE j \in 0..m
    <3>1. Kept1(j, m)
      BY <1>6, <2>4
    <3>2. l[m] \in Nat /\ l[j] \in Nat
      BY <1>3, <2>1
    <3>3. \A i \in 1..l[j] : i \in 1..l[m]
      BY <3>1, <3>2
    <3>4. QED
      BY <2>2, <3>1, <3>2, <3>3
  <2>5. QED
    BY <2>3, <2>4
<1>7. Nat \subseteq T
  <2> HIDE DEF T
  <2> QED
    BY <1>5, <1>6, AllNaturals
<1>8. \A j \in 0..n : Kept1(j, n)
  BY <1>7
<1> HIDE DEF T
<1>9. ASSUME NEW j \in 1..n, NEW i \in 1..Len(ss[j]) PROVE g[n][l[j - 1] + i] = ss[j][i]
  <2>1. j \in 0..n /\ j - 1 \in 0..n
    OBVIOUS
  <2>2. l[j - 1] + i \in 1..l[j]
    BY <1>3, <1>4, <2>1
  <2>3. g[n][l[j - 1] + i] = g[j][l[j - 1] + i]
    BY <1>8, <2>1, <2>2
  <2>4. QED
    BY <1>4, <2>3
<1>10. \A j \in 1..n : j - 1 \in 0..n /\ j \in 0..n /\ l[j] = l[j - 1] + Len(ss[j])
  BY <1>4
<1>11. n \in 0..n
  OBVIOUS
<1>12. QED
  BY <1>3, <1>8, <1>9, <1>10, <1>11 DEF InPlace
-----------------------------------------------------------------------------
(* How a character is printed.                                              *)
Printed(c) ==
  IF c \in {Amp, 60, 62}
  THEN <<Amp>> \o (CHOOSE e \in Entities : e.value = c).pattern \o <<Semicolon>>
  ELSE <<c>>

LEMMA PrintedIs ==
  ASSUME NEW c \in Chars
  PROVE  /\ Printed(c) \in Seq(Chars) /\ Len(Printed(c)) \in Nat \ {0}
         /\ c # CR => \A i \in 1..Len(Printed(c)) : Printed(c)[i] # CR
         /\ c \notin {Amp, 60, 62} => Printed(c) = <<c>>
         /\ c \in {Amp, 60, 62} =>
              \E e \in Entities :
                /\ e.value = c /\ Printed(c)[1] = Amp
                /\ Len(Printed(c)) = Len(e.pattern) + 2
                /\ \A k \in 1..Len(e.pattern) : Printed(c)[k + 1] = e.pattern[k]
                /\ Printed(c)[Len(e.pattern) + 2] = Semicolon
<1>1. CASE c \notin {Amp, 60, 62}
  <2>1. Printed(c) = <<c>>
    BY <1>1 DEF Printed
  <2>2. QED
    BY <1>1, <2>1 DEF Chars
<1>2. CASE c \in {Amp, 60, 62}
  <2>1. \E e \in Entities : e.value = c
    BY <1>2 DEF Amp, Entities
  <2>2. PICK e : e = CHOOSE d \in Entities : d.value = c
    OBVIOUS
  <2>3. e \in Entities /\ e.value = c
    BY <2>1, <2>2
  <2>4. PICK t, n : t = e.pattern /\ n = Len(t)
    OBVIOUS
  <2>5. t \in Seq(Chars) /\ n \in {2, 3, 4} /\ \A k \in 1..n : t[k] \in 97..122
    BY <2>3, <2>4, EntitiesAre
  <2>6. Printed(c) = (<<Amp>> \o t) \o <<Semicolon>>
    BY <1>2, <2>2, <2>4 DEF Printed
  <2>7. <<Amp>> \in Seq(Chars) /\ <<Semicolon>> \in Seq(Chars) /\ Amp \in Chars /\ Semicolon \in Chars
    BY DEF Amp, Semicolon, Chars
  <2>8. PICK a : a = <<Amp>> \o t
    OBVIOUS
  <2>9. a \in Seq(Chars) /\ Len(a) = 1 + n /\ a[1] = Amp /\ \A k \in 1..n : a[k + 1] = t[k]
    <3>1. PICK x : x = <<Amp>>
      OBVIOUS
    <3>2. x \in Seq(Chars) /\ Len(x) = 1 /\ x[1] = Amp
      BY <2>7, <3>1
    <3>3. a \in Seq(Chars) /\ Len(a) = 1 + n
          /\ \A i \in 1..(1 + n) : a[i] = IF i <= 1 THEN x[i] ELSE t[i - 1]
      BY <2>4, <2>5, <2>8, <3>1, <3>2, ConcatProperties
    <3>4. \A k \in 1..n : k + 1 \in 1..(1 + n) /\ ~(k + 1 <= 1) /\ (k + 1) - 1 = k
      BY <2>5
    <3>5. 1 \in 1..(1 + n)
      BY <2>5
    <3>6. QED
      BY <3>2, <3>3, <3>4, <3>5
  <2>10. PICK b : b = Printed(c)
    OBVIOUS
  <2>11. b = Append(a, Semicolon)
    BY <2>6, <2>7, <2>8, <2>9, <2>10, AppendIsConcat
  <2>12. /\ b \in Seq(Chars) /\ Len(b) = n + 2 /\ b[n + 2] = Semicolon
         /\ \A i \in 1..(n + 1) : b[i] = a[i]
    <3>1. Len(a) = n + 1 /\ (n + 1) + 1 = n + 2
      BY <2>5, <2>9
    <3>2. /\ Append(a, Semicolon) \in Seq(Chars) /\ Len(Append(a, Semicolon)) = Len(a) + 1
          /\ \A i \in 1..Len(a) : Append(a, Semicolon)[i] = a[i]
          /\ Append(a, Semicolon)[Len(a) + 1] = Semicolon
      BY <2>7, <2>9, AppendProperties
    <3>3. QED
      BY <2>11, <3>1, <3>2
  <2>13. b[1] = Amp /\ \A k \in 1..n : b[k + 1] = t[k]
    BY <2>5, <2>9, <2>12
  <2>14. \A i \in 1..(n + 2) : b[i] # CR
    <3>1. \A i \in 1..(n + 2) : i = 1 \/ i = n + 2 \/ \E k \in 1..n : i = k + 1
      <4>1. TAKE i \in 1..(n + 2)
      <4>2. i = 1 \/ i = n + 2 \/ (i - 1 \in 1..n /\ i = (i - 1) + 1)
        BY <2>5
      <4>3. QED
        BY <4>2
    <3>2. \A k \in 97..122 : k # CR
      BY DEF CR
    <3>3. Amp # CR /\ Semicolon # CR
      BY DEF Amp, Semicolon, CR
    <3>4. \A k \in 1..n : b[k + 1] # CR
      BY <2>5, <2>13, <3>2
    <3>5. b[1] # CR /\ b[n + 2] # CR
      BY <2>12, <2>13, <3>3
    <3>6. TAKE i \in 1..(n + 2)
    <3>7. CASE i = 1 \/ i = n + 2
      BY <3>5, <3>7
    <3>8. CASE ~(i = 1 \/ i = n + 2)
      <4>1. PICK k \in 1..n : i = k + 1
        BY <3>1, <3>8
      <4>2. QED
        BY <3>4, <4>1
    <3>9. QED
      BY <3>7, <3>8
  <2>15. /\ e.value = c /\ b[1] = Amp /\ Len(b) = Len(e.pattern) + 2
         /\ \A k \in 1..Len(e.pattern) : b[k + 1] = e.pattern[k]
         /\ b[Len(e.pattern) + 2] = Semicolon
    BY <2>3, <2>4, <2>12, <2>13
  <2>16. Len(b) \in Nat \ {0} /\ b \in Seq(Chars) /\ \A i \in 1..Len(b) : b[i] # CR
    BY <2>5, <2>12, <2>14
  <2>17. QED
    BY <1>2, <2>3, <2>10, <2>15, <2>16
<1>3. QED
  BY <1>1, <1>2

(* What is printed for a character is read as that character.               *)
ReadsAs(s, i, t, c) == Meant(s, i).bytes = <<c>> /\ Meant(s, i).skip = Len(t)

LEMMA PrintedIsMeant ==
  ASSUME NEW s \in Seq(Chars), NEW i \in 1..Len(s), NEW c \in Chars, c # CR,
         \A k \in 1..Len(s) : s[k] # CR, NEW t, t = Printed(c),
         \A k \in 1..Len(t) : i + k - 1 <= Len(s) /\ s[i + k - 1] = t[k]
  PROVE  ReadsAs(s, i, t, c)
<1> USE DEF ReadsAs
<1>1. s \in Seq(Nat) /\ Len(s) \in Nat /\ i \in Nat \ {0}
  BY SeqMonotonic, LenProperties DEF Chars
<1>2. s[i] = t[1] /\ Len(t) \in Nat \ {0}
  <2>1. Len(t) \in Nat \ {0}
    BY PrintedIs
  <2>2. 1 \in 1..Len(t) /\ i + 1 - 1 = i
    BY <1>1, <2>1
  <2>3. QED
    BY <2>1, <2>2
<1>3. At(s, i + 1) # CR
  <2>1. i + 1 \in Nat
    BY <1>1
  <2>2. At(s, i + 1) = 0 \/ (i + 1 \in 1..Len(s) /\ At(s, i + 1) = s[i + 1])
    BY <1>1, <2>1, AtIs
  <2>3. QED
    BY <2>2 DEF CR
<1>4. CASE c \notin {Amp, 60, 62}
  <2>1. t = <<c>> /\ s[i] = c /\ Len(t) = 1
    BY <1>2, <1>4, PrintedIs
  <2>2. CASE c = LF
    <3>1. {s[i], At(s, i + 1)} # {CR, LF}
      BY <1>3, <2>1, <2>2 DEF CR, LF
    <3>2. Meant(s, i) = [bytes |-> <<LF>>, skip |-> 1]
      BY <2>1, <2>2, <3>1, MeantCases, Zenon
    <3>3. QED
      BY <2>1, <2>2, <3>2
  <2>3. CASE c # LF
    <3>1. s[i] \notin {CR, LF, Amp}
      BY <1>4, <2>1, <2>3
    <3>2. Meant(s, i) = [bytes |-> <<s[i]>>, skip |-> 1]
      BY <3>1, MeantCases, Zenon
    <3>3. QED
      BY <2>1, <3>2
  <2>4. QED
    BY <2>2, <2>3
<1>5. CASE c \in {Amp, 60, 62}
  <2>0. \E e \in Entities :
          /\ e.value = c /\ Printed(c)[1] = Amp
          /\ Len(Printed(c)) = Len(e.pattern) + 2
          /\ \A k \in 1..Len(e.pattern) : Printed(c)[k + 1] = e.pattern[k]
          /\ Printed(c)[Len(e.pattern) + 2] = Semicolon
    BY <1>5, PrintedIs, Zenon
  <2>1. PICK e \in Entities :
          /\ e.value = c /\ t[1] = Amp /\ Len(t) = Len(e.pattern) + 2
          /\ \A k \in 1..Len(e.pattern) : t[k + 1] = e.pattern[k]
          /\ t[Len(e.pattern) + 2] = Semicolon
    BY <2>0
  <2>2. PICK u, n : u = e.pattern /\ n = Len(u)
    OBVIOUS
  <2>3. u \in Seq(Nat) /\ n \in {2, 3, 4} /\ u[1] # Hash /\ Semicolon \in Nat
    <3>1. u \in Seq(Chars)
      BY <2>2, EntitiesAre
    <3>2. u \in Seq(Nat)
      BY <3>1, SeqMonotonic DEF Chars
    <3>3. QED
      BY <2>2, <3>2, EntitiesAre DEF Semicolon
  <2>4. ASSUME NEW k \in 1..(n + 1) PROVE At(s, (i + 1) + k - 1) = t[k + 1]
    <3>1. PICK m \in 1..Len(t) : m = k + 1 /\ i + m - 1 = (i + 1) + k - 1
      BY <1>1, <2>1, <2>2, <2>3
    <3>2. (i + 1) + k - 1 \in 1..Len(s) /\ s[(i + 1) + k - 1] = t[k + 1]
      <4>1. i + m - 1 <= Len(s) /\ s[i + m - 1] = t[m]
        OBVIOUS
      <4>2. k >= 1 /\ k \in Nat
        BY <2>3
      <4>3. QED
        BY <1>1, <3>1, <4>1, <4>2
    <3>3. PICK j \in 1..Len(s) : j = (i + 1) + k - 1
      BY <3>2
    <3>6. s \in Seq(Nat) /\ j \in Nat /\ j \in 1..Len(s)
      BY <1>1
    <3>4. At(s, j) = s[j]
      BY <3>6, AtIs
    <3>5. QED
      BY <3>2, <3>3, <3>4
  <2>5. PICK a : a = Append(u, Semicolon)
    OBVIOUS
  <2>6. DOMAIN a = 1..(n + 1) /\ \A k \in 1..(n + 1) : a[k] = t[k + 1]
    <3>1. a \in Seq(Nat) /\ Len(a) = n + 1 /\ a[n + 1] = Semicolon /\ \A k \in 1..n : a[k] = u[k]
      BY <2>2, <2>3, <2>5, AppendProperties
    <3>2. DOMAIN a = 1..(n + 1)
      BY <3>1, LenProperties
    <3>3. \A k \in 1..n : a[k] = t[k + 1]
      BY <2>1, <2>2, <3>1
    <3>4. a[n + 1] = t[(n + 1) + 1]
      <4>1. (n + 1) + 1 = n + 2
        BY <2>3
      <4>2. QED
        BY <2>1, <2>2, <3>1, <4>1
    <3>5. \A k \in 1..(n + 1) : k \in 1..n \/ k = n + 1
      BY <2>3
    <3>6. QED
      BY <3>2, <3>3, <3>4, <3>5
  <2>7. HasAt(s, i + 1, a)
    BY <2>4, <2>6 DEF HasAt
  <2>8. e \in EntitiesAt(s, i)
    BY <2>2, <2>5, <2>7 DEF EntitiesAt
  <2>9. EntityAt(s, i) = e
    <3>1. EntityAt(s, i) \in EntitiesAt(s, i)
      BY <2>8 DEF EntityAt
    <3>2. QED
      BY <1>1, <2>8, <3>1, OneEntity
  <2>10. s[i] = Amp /\ At(s, i + 1) # Hash
    <3>1. At(s, i + 1) = e.pattern[1]
      BY <1>1, <2>8, HasEntity
    <3>2. QED
      BY <1>2, <2>1, <2>2, <2>3, <3>1
  <2>11. Meant(s, i) = [bytes |-> <<EntityAt(s, i).value>>,
                        skip |-> Len(EntityAt(s, i).pattern) + 2]
    <3>1. EntitiesAt(s, i) # {}
      BY <2>8
    <3>2. QED
      BY <2>10, <3>1, MeantCases, Zenon
  <2>12. QED
    BY <2>1, <2>9, <2>11
<1>6. QED
  BY <1>4, <1>5

LEMMA PrintStringIs ==
  ASSUME NEW S \in SUBSET Chars, \A c \in S : Printed(c) \in Seq(S), NEW s \in Seq(S)
  PROVE  \E ss, g : /\ \A k \in 1..Len(s) : ss[k] = Printed(s[k])
                    /\ FlatIn(Seq(S), ss, Len(s), g) /\ PrintString(s) = g[Len(s)]
<1>1. PICK n \in Nat : n = Len(s) /\ DOMAIN s = 1..n
  BY LenProperties
<1>2. PICK ss : ss = [k \in 1..n |-> Printed(s[k])]
  OBVIOUS
<1>3. \A k \in 1..n : ss[k] = Printed(s[k]) /\ s[k] \in S
  BY <1>1, <1>2, ElementOfSeq
<1>4. ss \in Seq(Seq(S)) /\ Len(ss) = n
  <2>1. PICK V : V = Seq(S)
    OBVIOUS
  <2>2. \A k \in 1..n : Printed(s[k]) \in V
    BY <1>3, <2>1
  <2>3. QED
    BY <1>2, <2>1, <2>2
<1>5. PrintString(s) = FlattenSeq(ss)
  BY <1>1, <1>2, Zenon DEF PrintString, Printed
<1>6. PICK g \in [0..n -> Seq(S)] : Flat(ss, n, g) /\ FlattenSeq(ss) = g[n]
  BY <1>4, FlattenSeqIs
<1>7. FlatIn(Seq(S), ss, n, g)
  BY <1>6 DEF FlatIn
<1>8. QED
  BY <1>1, <1>3, <1>5, <1>6, <1>7

PlainChars == Chars \ {CR}

LEMMA PrintedPlainly ==
  /\ \A c \in Chars : Printed(c) \in Seq(Chars)
  /\ \A c \in PlainChars : Printed(c) \in Seq(PlainChars)
<1>1. ASSUME NEW c \in PlainChars PROVE Printed(c) \in Seq(PlainChars)
  <2>1. PICK t : t = Printed(c)
    OBVIOUS
  <2>2. c \in Chars /\ c # CR
    BY DEF PlainChars
  <2>3. t \in Seq(Chars) /\ \A i \in 1..Len(t) : t[i] # CR
    BY <2>1, <2>2, PrintedIs
  <2>4. Len(t) \in Nat /\ t = [i \in 1..Len(t) |-> t[i]] /\ \A i \in 1..Len(t) : t[i] \in PlainChars
    BY <2>3, LenProperties, ElementOfSeq DEF PlainChars
  <2>5. QED
    BY <2>1, <2>4
<1>2. QED
  BY <1>1, PrintedIs

-----------------------------------------------------------------------------
(* The texts that are read.                                                 *)
LEMMA SeenIs ==
  ASSUME TextType
  PROVE  /\ Result \in Seq(Nat) /\ Len(Result) = q - 1
         /\ \A i \in 1..(q - 1) : Result[i] = buf[i]
         /\ Seen \in Seq(Chars)
         /\ (\A i \in 1..(q - 1) : buf[i] # 0) => Seen = Result
<1>1. PICK n \in Nat : n = Len(raw)
  BY LenProperties DEF TextType
<1>2. q \in Nat \ {0} /\ q <= n + 1 /\ buf \in Seq(Nat) /\ Len(buf) = n
  BY <1>1 DEF TextType
<1>3. PICK m \in Nat : m = q - 1 /\ m <= n
  BY <1>2
<1>4. PICK r : r = Result
  OBVIOUS
<1>5. r \in Seq(Nat) /\ Len(r) = m /\ \A i \in 1..m : r[i] = buf[i]
  <2>1. \A i \in 1..m : buf[i] \in Nat
    BY <1>2, <1>3, ElementOfSeq
  <2>2. r = SubSeq(buf, 1, m)
    BY <1>3, <1>4 DEF Result
  <2>3. /\ SubSeq(buf, 1, m) \in Seq(Nat)
        /\ Len(SubSeq(buf, 1, m)) = IF 1 <= m THEN m - 1 + 1 ELSE 0
        /\ \A i \in 1..(m - 1 + 1) : SubSeq(buf, 1, m)[i] = buf[1 + i - 1]
    BY <2>1, SubSeqProperties
  <2>4. m - 1 + 1 = m /\ \A i \in 1..m : 1 + i - 1 = i
    OBVIOUS
  <2>5. QED
    BY <2>2, <2>3, <2>4
<1> DEFINE Ends(l) == (\A i \in 1..l : r[i] # 0) /\ (l = m \/ r[l + 1] = 0)
<1>6. \E l \in 0..m : Ends(l)
  <2>1. PICK S : S = {l \in Nat : l = m \/ (l < m /\ r[l + 1] = 0)}
    OBVIOUS
  <2>2. PICK l \in S : \A k \in S : l <= k
    <3>1. S \in SUBSET Nat /\ m \in S
      BY <2>1
    <3>2. QED
      BY <3>1, LeastNatural
  <2>3. ASSUME NEW i \in 1..l PROVE r[i] # 0
    <3>1. PICK k \in Nat : k = i - 1 /\ k + 1 = i
      OBVIOUS
    <3>2. l \in Nat /\ l <= m
      BY <2>1, <2>2
    <3>3. k < l /\ k < m
      BY <3>1, <3>2
    <3>4. k \notin S
      BY <2>2, <3>2, <3>3
    <3>5. QED
      BY <2>1, <3>1, <3>3, <3>4
  <2>4. l \in 0..m /\ (l = m \/ r[l + 1] = 0)
    BY <2>1, <2>2
  <2>5. QED
    BY <2>3, <2>4
<1>7. PICK l : l = CHOOSE k \in 0..m : Ends(k)
  OBVIOUS
<1>8. l \in 0..m /\ Ends(l)
  BY <1>6, <1>7
<1>9. Seen = SubSeq(r, 1, l)
  BY <1>4, <1>5, <1>7 DEF Seen
<1>10. Seen \in Seq(Chars)
  <2>1. \A i \in 1..l : r[i] \in Chars
    <3>1. \A i \in 1..m : r[i] \in Nat
      BY <1>5, ElementOfSeq
    <3>2. QED
      BY <1>8, <3>1 DEF Chars
  <2>2. l \in Int
    BY <1>8
  <2>3. QED
    BY <1>9, <2>1, <2>2, SubSeqProperties
<1>11. ASSUME \A i \in 1..m : r[i] # 0 PROVE Seen = r
  <2>1. l = m
    BY <1>8, <1>11
  <2>2. QED
    BY <1>5, <1>9, <2>1, SubSeqFull
<1>12. QED
  BY <1>3, <1>4, <1>5, <1>10, <1>11
-----------------------------------------------------------------------------
(* A printed text that is being read: j characters of it have been.          *)
PrintedTo(ss, g, j) ==
  /\ \A k \in 1..Len(wanted) : ss[k] = Printed(wanted[k])
  /\ FlatIn(Seq(PlainChars), ss, Len(wanted), g) /\ raw = g[Len(wanted)]
  /\ j \in 0..Len(wanted) /\ p = Len(g[j]) + 1 /\ q = j + 1
  /\ \A i \in 1..j : buf[i] = wanted[i]

PlainText == pass = 2 /\ CR \notin Range(wanted)

SomeWritten == \E F : Expected(raw) = F[1] /\ WrittenTo(F)

TextInv ==
  /\ TextType
  /\ SomeWritten
  /\ PlainText => \E ss, g, j : PrintedTo(ss, g, j)

LEMMA PlainIs ==
  ASSUME NEW s \in Seq(Chars), CR \notin Range(s) PROVE s \in Seq(PlainChars)
<1>1. Len(s) \in Nat /\ s = [i \in 1..Len(s) |-> s[i]] /\ DOMAIN s = 1..Len(s)
  BY LenProperties
<1>2. \A i \in 1..Len(s) : s[i] \in PlainChars
  <2>1. \A i \in 1..Len(s) : s[i] \in Range(s)
    BY <1>1 DEF Range
  <2>2. QED
    BY <2>1, ElementOfSeq DEF PlainChars
<1>3. QED
  BY <1>1, <1>2

LEMMA TurnKeepsPrinted ==
  ASSUME TextType, p <= Len(raw), NEW m, m = Meant(raw, p), TextTurn(m), PlainText,
         NEW ss, NEW g, NEW j, PrintedTo(ss, g, j)
  PROVE  PrintedTo(ss, g, j + 1)'
<1>1. PICK n \in Nat, r \in Nat : n = Len(wanted) /\ r = Len(raw)
  BY LenProperties DEF TextType
<1>2. /\ \A k \in 1..n : ss[k] = Printed(wanted[k])
      /\ FlatIn(Seq(PlainChars), ss, n, g) /\ raw = g[n]
      /\ j \in 0..n /\ p = Len(g[j]) + 1 /\ q = j + 1
      /\ \A i \in 1..j : buf[i] = wanted[i]
  BY <1>1 DEF PrintedTo
<1>3. wanted \in Seq(PlainChars) /\ raw \in Seq(Chars) /\ p \in 1..r
  <2>1. wanted \in Seq(PlainChars)
    BY PlainIs DEF TextType, PlainText
  <2>2. QED
    BY <1>1, <2>1 DEF TextType
<1>4. j + 1 \in 1..n /\ (j + 1) - 1 = j
  <2>1. j # n
    BY <1>1, <1>2, <1>3
  <2>2. QED
    BY <1>2, <2>1
<1>5. PICK c \in PlainChars : c = wanted[j + 1]
  BY <1>1, <1>3, <1>4, ElementOfSeq
<1>6. c \in Chars /\ c # CR
  BY DEF PlainChars
<1>7. PICK t, l : t = Printed(c) /\ l = Len(t) /\ l \in Nat
  BY <1>6, PrintedIs
<1>8. /\ Len(g[j + 1]) = p - 1 + l /\ p - 1 + l <= r
      /\ \A i \in 1..l : raw[p - 1 + i] = t[i]
  <2>1. \A k \in 1..n : ss[k] \in Seq(PlainChars)
    <3>1. \A k \in 1..n : wanted[k] \in PlainChars
      BY <1>1, <1>3, ElementOfSeq
    <3>2. QED
      BY <1>2, <3>1, PrintedPlainly
  <2>0. PICK S : S = PlainChars
    OBVIOUS
  <2>8. FlatIn(Seq(S), ss, n, g) /\ \A k \in 1..n : ss[k] \in Seq(S)
    BY <1>2, <2>0, <2>1
  <2>2. /\ \A k \in 0..n : Len(g[k]) \in Nat /\ Len(g[k]) <= Len(g[n])
        /\ \A k \in 1..n :
              /\ Len(g[k]) = Len(g[k - 1]) + Len(ss[k])
              /\ \A i \in 1..Len(ss[k]) : g[n][Len(g[k - 1]) + i] = ss[k][i]
    <3>1. InPlace(ss, n, g)
      BY <2>8, FlatPlaces
    <3>2. QED
      BY <3>1 DEF InPlace
  <2>3. ss[j + 1] = t /\ j + 1 \in 0..n
    BY <1>2, <1>4, <1>5, <1>7
  <2>4. Len(g[j]) = p - 1 /\ Len(g[j]) \in Nat /\ Len(g[j + 1]) \in Nat
    BY <1>2, <2>2, <2>3
  <2>5. /\ Len(g[j + 1]) = Len(g[j]) + l
        /\ \A i \in 1..l : raw[Len(g[j]) + i] = t[i]
    BY <1>2, <1>4, <1>7, <2>2, <2>3
  <2>6. Len(g[j + 1]) <= r
    BY <1>1, <1>2, <2>2, <2>3
  <2>7. QED
    BY <1>3, <2>4, <2>5, <2>6
<1>9. m.bytes = <<c>> /\ m.skip = l
  <2>1. \A k \in 1..r : raw[k] # CR
    <3>1. n \in 0..n
      OBVIOUS
    <3>2. raw \in Seq(PlainChars)
      BY <1>2, <3>1 DEF FlatIn
    <3>3. QED
      BY <1>1, <3>2, ElementOfSeq DEF PlainChars
  <2>2. ASSUME NEW k \in 1..l PROVE p + k - 1 <= r /\ raw[p + k - 1] = t[k]
    <3>1. p + k - 1 = p - 1 + k
      BY <1>3
    <3>2. raw[p - 1 + k] = t[k]
      BY <1>8
    <3>3. QED
      BY <1>1, <1>3, <1>7, <1>8, <3>1, <3>2
  <2>3. \A k \in 1..Len(t) : p + k - 1 <= Len(raw) /\ raw[p + k - 1] = t[k]
    BY <1>1, <1>7, <2>2
  <2>4. raw \in Seq(Chars) /\ p \in 1..Len(raw) /\ \A k \in 1..Len(raw) : raw[k] # CR
    BY <1>1, <1>3, <2>1
  <2>5. ReadsAs(raw, p, t, c)
    BY <1>6, <1>7, <2>3, <2>4, PrintedIsMeant
  <2>6. QED
    BY <1>7, <2>5 DEF ReadsAs
<1>10. /\ raw' = raw /\ wanted' = wanted /\ p' = p + l /\ q' = q + 1
       /\ \A i \in 1..r : i < q => buf'[i] = buf[i]
       /\ buf'[q] = c
  <2>1. Len(m.bytes) = 1 /\ m.bytes[1] = c
    BY <1>9
  <2>2. c # Kept
    BY <1>6 DEF Kept, Chars
  <2>3. q \in Nat /\ q + 1 - 1 = q
    BY <1>2
  <2>4. \A k \in 1..1 : buf'[q + k - 1] = IF m.bytes[k] = Kept THEN raw[q + k - 1] ELSE m.bytes[k]
    BY <2>1 DEF TextTurn
  <2>5. buf'[q] = c
    BY <2>1, <2>2, <2>3, <2>4
  <2>6. QED
    BY <1>1, <1>9, <2>1, <2>5 DEF TextTurn
<1>11. p' = Len(g[j + 1]) + 1 /\ q' = (j + 1) + 1
  BY <1>1, <1>2, <1>3, <1>7, <1>8, <1>10
<1>12. \A i \in 1..(j + 1) : buf'[i] = wanted[i]
  <2>1. TAKE i \in 1..(j + 1)
  <2>2. CASE i = j + 1
    BY <1>2, <1>5, <1>10, <2>2
  <2>3. CASE i # j + 1
    <3>1. i \in 1..j /\ i < q
      BY <1>2, <2>3
    <3>2. i \in 1..r
      <4>1. q <= p
        BY <1>3 DEF TextType
      <4>2. QED
        BY <1>1, <1>2, <1>3, <3>1, <4>1
    <3>3. QED
      BY <1>2, <1>10, <3>1, <3>2
  <2>4. QED
    BY <2>2, <2>3
<1>13. j + 1 \in 0..n
  BY <1>4
<1>14. QED
  BY <1>1, <1>2, <1>10, <1>11, <1>12, <1>13 DEF PrintedTo

-----------------------------------------------------------------------------
Beginning ==
  raw \in Seq(Chars) /\ buf = raw /\ p = 1 /\ q = 1 /\ pass \in 0..2 /\ wanted \in Seq(Chars)

LEMMA ReadFromTheBeginning == Beginning => TextType /\ SomeWritten
<1> SUFFICES ASSUME Beginning PROVE TextType /\ SomeWritten
  OBVIOUS
<1>0. raw \in Seq(Chars) /\ buf = raw /\ p = 1 /\ q = 1 /\ pass \in 0..2 /\ wanted \in Seq(Chars)
  BY DEF Beginning
<1> USE <1>0
<1>1. PICK n \in Nat : n = Len(raw)
  BY LenProperties
<1>2. TextType
  <2>1. raw \in Seq(Nat)
    BY SeqMonotonic DEF Chars
  <2>2. 1 \in 1..(n + 1) /\ 1 \in 1..1
    OBVIOUS
  <2>3. QED
    BY <1>1, <2>1, <2>2 DEF TextType
<1>3. PICK F : Reads(raw, F) /\ Expected(raw) = F[1]
  BY ExpectedIs
<1>4. WrittenTo(F)
  <2>1. Len(F[1]) \in Nat
    <3>1. 1 \in 1..(n + 1) /\ F \in [1..(n + 1) -> Seq(Nat \cup {Kept})]
      BY <1>1, <1>3 DEF Reads
    <3>2. QED
      BY <3>1, LenProperties
  <2>2. \A i \in 1..Len(F[1]) : 1 - 1 + i = i
    BY <2>1
  <2>3. 1 - 1 + Len(F[1]) = Len(F[1]) /\ 1..(1 - 1) = {}
    BY <2>1
  <2>4. QED
    BY <1>3, <2>2, <2>3 DEF WrittenTo
<1>5. QED
  BY <1>2, <1>3, <1>4 DEF SomeWritten

LEMMA TextInitInv == ASSUME TextInit PROVE TextInv
<1>1. raw = <<>> /\ buf = raw /\ p = 1 /\ q = 1 /\ pass = 0 /\ wanted = <<>>
  BY DEF TextInit
<1>2. raw \in Seq(Chars) /\ wanted \in Seq(Chars)
  BY <1>1
<1>3. pass \in 0..2 /\ ~PlainText
  BY <1>1 DEF PlainText
<1>4. TextType /\ SomeWritten
  BY <1>1, <1>2, <1>3, ReadFromTheBeginning DEF Beginning
<1>5. QED
  BY <1>3, <1>4 DEF TextInv

LEMMA StartReadingInv ==
  ASSUME TextInv, NEW r \in Raws, StartReading(r) PROVE TextInv'
<1>1. /\ raw' = r /\ buf' = raw' /\ p' = 1 /\ q' = 1 /\ pass' = 1 /\ wanted' = wanted
  BY DEF StartReading
<1>2. r \in Seq(Chars)
  <2>1. r \in Seq(1..255)
    BY RawAssumption
  <2>2. PICK D : D = 1..255
    OBVIOUS
  <2>3. r \in Seq(D) /\ D \subseteq Chars
    BY <2>1, <2>2, SMT DEF Chars
  <2>4. QED
    BY <2>3, SeqMonotonic
<1>3. raw' \in Seq(Chars) /\ wanted' \in Seq(Chars)
  BY <1>1, <1>2 DEF TextInv, TextType
<1>4. pass' \in 0..2 /\ ~PlainText'
  BY <1>1 DEF PlainText
<1>5. TextType' /\ SomeWritten'
  <2>1. Beginning'
    BY <1>1, <1>3, <1>4 DEF Beginning
  <2>2. Beginning' => TextType' /\ SomeWritten'
    BY ReadFromTheBeginning, PTL
  <2>3. QED
    BY <2>1, <2>2
<1>6. QED
  BY <1>4, <1>5 DEF TextInv

LEMMA PrintAndReadAgainInv ==
  ASSUME TextInv, PrintAndReadAgain PROVE TextInv'
<1>1. PICK s : s = Seen
  OBVIOUS
<1>2. /\ wanted' = s /\ raw' = PrintString(s) /\ buf' = raw' /\ p' = 1 /\ q' = 1 /\ pass' = 2
  BY <1>1 DEF PrintAndReadAgain
<1>3. s \in Seq(Chars)
  BY <1>1, SeenIs DEF TextInv
<1>4. PICK n \in Nat : n = Len(s)
  BY <1>3, LenProperties
<1>5. raw' \in Seq(Chars)
  <2>1. PICK ss, g : FlatIn(Seq(Chars), ss, n, g) /\ PrintString(s) = g[n]
    <3>1. \A c \in Chars : Printed(c) \in Seq(Chars)
      BY PrintedPlainly
    <3>2. QED
      BY <1>3, <1>4, <3>1, PrintStringIs
  <2>2. n \in 0..n
    OBVIOUS
  <2>3. QED
    BY <1>2, <2>1, <2>2 DEF FlatIn
<1>6. TextType' /\ SomeWritten'
  <2>1. wanted' \in Seq(Chars) /\ pass' \in 0..2
    BY <1>2, <1>3
  <2>2. Beginning'
    BY <1>2, <1>5, <2>1 DEF Beginning
  <2>3. Beginning' => TextType' /\ SomeWritten'
    BY ReadFromTheBeginning, PTL
  <2>4. QED
    BY <2>2, <2>3
<1>7. ASSUME PlainText' PROVE \E ss, g, j : PrintedTo(ss, g, j)'
  <2>1. s \in Seq(PlainChars)
    BY <1>2, <1>3, <1>7, PlainIs DEF PlainText
  <2>2. PICK ss, g : /\ \A k \in 1..n : ss[k] = Printed(s[k])
                     /\ FlatIn(Seq(PlainChars), ss, n, g) /\ PrintString(s) = g[n]
    <3>1. \A c \in PlainChars : Printed(c) \in Seq(PlainChars)
      BY PrintedPlainly
    <3>2. PlainChars \in SUBSET Chars
      BY DEF PlainChars
    <3>3. QED
      BY <1>4, <2>1, <3>1, <3>2, PrintStringIs
  <2>3. Len(g[0]) = 0
    BY <2>2 DEF FlatIn, Flat
  <2>4. 0 \in 0..n /\ 1..0 = {} /\ 0 + 1 = 1
    OBVIOUS
  <2>5. PrintedTo(ss, g, 0)'
    BY <1>2, <1>4, <2>2, <2>3, <2>4 DEF PrintedTo
  <2>6. QED
    BY <2>5
<1>8. QED
  BY <1>6, <1>7 DEF TextInv

LEMMA TextStepInv == ASSUME TextInv, TextStep PROVE TextInv'
<1>1. CASE PrintAndReadAgain
  BY <1>1, PrintAndReadAgainInv
<1>2. CASE CopyNewline \/ CopyCharacterRef \/ CopyEntity \/ PassUnknownEntity \/ CopyCharacter
  <2>1. TextType
    BY DEF TextInv
  <2>2. PICK m : m = Meant(raw, p)
    OBVIOUS
  <2>3. TextTurn(m) /\ p <= Len(raw)
    BY <1>2, <2>1, <2>2, TurnIs
  <2>4. TextType'
    BY <2>1, <2>2, <2>3, TurnKeepsType
  <2>5. PICK F : Expected(raw) = F[1] /\ WrittenTo(F)
    BY DEF TextInv, SomeWritten
  <2>6. Expected(raw') = F[1] /\ WrittenTo(F)'
    <3>1. raw' = raw
      BY <2>3 DEF TextTurn
    <3>2. WrittenTo(F)'
      BY <2>1, <2>2, <2>3, <2>5, TurnKeepsWritten
    <3>3. QED
      BY <2>5, <3>1, <3>2
  <2>7. ASSUME PlainText' PROVE \E ss, g, j : PrintedTo(ss, g, j)'
    <3>1. PlainText
      BY <2>3, <2>7 DEF PlainText, TextTurn
    <3>2. PICK ss, g, j : PrintedTo(ss, g, j)
      BY <3>1 DEF TextInv
    <3>3. PrintedTo(ss, g, j + 1)'
      BY <2>1, <2>2, <2>3, <3>1, <3>2, TurnKeepsPrinted
    <3>4. PICK k : k = j + 1
      OBVIOUS
    <3>5. PrintedTo(ss, g, k)'
      BY <3>3, <3>4
    <3>6. QED
      BY <3>5
  <2>8. QED
    BY <2>4, <2>6, <2>7 DEF TextInv, SomeWritten
<1>3. QED
  BY <1>1, <1>2 DEF TextStep
-----------------------------------------------------------------------------
LEMMA TextInvGivesExpected == ASSUME TextInv PROVE TextIsExpected
<1>1. TextType
  BY DEF TextInv
<1>2. PICK n \in Nat : n = Len(raw)
  BY <1>1, LenProperties DEF TextType
<1>3. /\ p \in 1..(n + 1) /\ q \in 1..p /\ buf \in Seq(Nat) /\ Len(buf) = n
      /\ \A i \in q..n : buf[i] = raw[i] /\ raw \in Seq(Chars)
  BY <1>1, <1>2 DEF TextType
<1>4. WritesStayBehind
  <2>1. \A i \in p..n : i \in q..n
    BY <1>3
  <2>2. QED
    BY <1>2, <1>3, <2>1 DEF WritesStayBehind
<1>5. ReadsAsExpected
  <2> SUFFICES ASSUME Flushed
               PROVE  /\ Len(Result) = Len(Expected(raw))
                      /\ \A i \in DOMAIN Result :
                           Result[i] = IF Expected(raw)[i] = Kept THEN raw[i] ELSE Expected(raw)[i]
    BY DEF ReadsAsExpected
  <2>1. p = n + 1
    BY <1>3 DEF Flushed
  <2>2. PICK F : Expected(raw) = F[1] /\ WrittenTo(F)
    BY DEF TextInv, SomeWritten
  <2>3. F[p] = <<>>
    BY <1>2, <2>1, <2>2 DEF WrittenTo, Reads
  <2>4. Len(F[1]) = q - 1 + 0 /\ \A i \in 1..(q - 1) : buf[i] = IF F[1][i] = Kept THEN raw[i] ELSE F[1][i]
    BY <2>2, <2>3 DEF WrittenTo
  <2>5. Result \in Seq(Nat) /\ Len(Result) = q - 1 /\ \A i \in 1..(q - 1) : Result[i] = buf[i]
    BY <1>1, SeenIs
  <2>6. DOMAIN Result = 1..(q - 1)
    BY <2>5, LenProperties
  <2>7. PICK E, R : E = Expected(raw) /\ R = Result
    OBVIOUS
  <2>8. Len(R) = Len(E) /\ \A i \in DOMAIN R : R[i] = IF E[i] = Kept THEN raw[i] ELSE E[i]
    BY <1>3, <2>2, <2>4, <2>5, <2>6, <2>7
  <2>9. QED
    BY <2>7, <2>8
<1>6. ReferencesDecode
  <2>1. ASSUME NEW i \in DOMAIN raw, raw[i] = Amp, At(raw, i + 1) = Hash, At(raw, i + 2) # 0,
               RefEnds(raw, i) # {}, -1 \notin Range(RefDigits(raw, i)),
               NEW d, d = RefDigits(raw, i), NEW x, x = Number(d, Base(raw, i))
        PROVE  IF x > MaxCodePoint /\ ~OneAndZeros(d) THEN GetCharacterRef(raw, i) = NoRef
               ELSE Decoded(GetCharacterRef(raw, i).bytes) = Capped(x)
    <3>1. raw \in Seq(Nat) /\ i \in 1..Len(raw)
      BY <1>1, <2>1, SeqMonotonic, LenProperties, SMT DEF TextType, Chars
    <3>2. Amped(raw, i)
      BY <2>1, <3>1, SMT DEF Amped
    <3>3. PICK v : v = RefValue(raw, i)
      OBVIOUS
    <3>4. RefSays(raw, i, v, d, x)
      BY <2>1, <3>2, <3>3, RefNumberIs
    <3>5. CASE x > MaxCodePoint /\ ~OneAndZeros(d)
      <4>1. ~(v <= MaxCodePoint)
        BY <3>4, <3>5 DEF RefSays, MaxCodePoint
      <4>2. ~IsRef(raw, i)
        BY <3>3, <4>1 DEF IsRef
      <4>3. GetCharacterRef(raw, i) = NoRef
        BY <2>1, <4>2 DEF GetCharacterRef
      <4>4. QED
        BY <3>5, <4>3
    <3>6. CASE ~(x > MaxCodePoint /\ ~OneAndZeros(d))
      <4>1. v <= MaxCodePoint /\ v = Capped(x)
        BY <3>4, <3>6 DEF Capped, MaxCodePoint, RefSays
      <4>2. PICK b : b = ConvertUTF32ToUTF8(v)
        OBVIOUS
      <4>3. Decoded(b) = v
        BY <3>4, <4>1, <4>2, ConvertDecodes DEF MaxCodePoint, RefSays
      <4>4. b # <<>>
        BY <3>4, <4>1, <4>2, ConvertWrites DEF MaxCodePoint, RefSays
      <4>5. IsRef(raw, i)
        BY <2>1, <3>3, <4>1, <4>2, <4>4 DEF IsRef
      <4>6. GetCharacterRef(raw, i) = [bytes |-> b, skip |-> RefEnd(raw, i) - i + 1]
        BY <2>1, <3>3, <4>2, <4>5 DEF GetCharacterRef
      <4>7. GetCharacterRef(raw, i).bytes = b
        BY <4>6
      <4>8. QED
        BY <3>6, <4>1, <4>3, <4>7
    <3>7. QED
      BY <3>5, <3>6
  <2>2. QED
    BY <2>1 DEF ReferencesDecode
<1>7. QED
  BY <1>4, <1>5, <1>6 DEF TextIsExpected

LEMMA TextInvReadsBack == ASSUME TextInv PROVE PrintedTextReadsBack
<1> SUFFICES ASSUME Flushed, PlainText PROVE Seen = wanted
  BY DEF PrintedTextReadsBack, PlainText
<1>1. TextType
  BY DEF TextInv
<1>2. PICK n \in Nat, r \in Nat : n = Len(wanted) /\ r = Len(raw)
  BY <1>1, LenProperties DEF TextType
<1>3. PICK ss, g, j : PrintedTo(ss, g, j)
  BY DEF TextInv
<1>4. /\ \A k \in 1..n : ss[k] = Printed(wanted[k])
      /\ FlatIn(Seq(PlainChars), ss, n, g) /\ raw = g[n]
      /\ j \in 0..n /\ p = Len(g[j]) + 1 /\ q = j + 1
      /\ \A i \in 1..j : buf[i] = wanted[i]
  BY <1>2, <1>3 DEF PrintedTo
<1>5. wanted \in Seq(PlainChars) /\ \A k \in 1..n : wanted[k] \in PlainChars
  <2>1. wanted \in Seq(PlainChars)
    BY <1>1, PlainIs DEF TextType, PlainText
  <2>2. QED
    BY <1>2, <2>1, ElementOfSeq
<1>6. j = n
  <2> SUFFICES ASSUME j # n PROVE FALSE
    OBVIOUS
  <2>1. \A k \in 1..n : ss[k] \in Seq(PlainChars)
    BY <1>4, <1>5, PrintedPlainly
  <2>2. PICK S : S = PlainChars
    OBVIOUS
  <2>3. FlatIn(Seq(S), ss, n, g) /\ \A k \in 1..n : ss[k] \in Seq(S)
    BY <1>4, <2>1, <2>2
  <2>4. InPlace(ss, n, g)
    BY <2>3, FlatPlaces
  <2>5. PICK k \in 1..n : k = j + 1 /\ k - 1 = j
    BY <1>4
  <2>6. Len(g[k]) = Len(g[j]) + Len(ss[k]) /\ Len(g[k]) <= Len(g[n]) /\ Len(g[j]) \in Nat
    <3>1. j \in 0..n /\ k \in 0..n
      BY <1>4
    <3>2. Len(g[k]) = Len(g[k - 1]) + Len(ss[k])
      BY <2>4 DEF InPlace
    <3>3. \A i \in 0..n : Len(g[i]) \in Nat /\ Len(g[i]) <= Len(g[n])
      BY <2>4 DEF InPlace
    <3>4. QED
      BY <2>5, <3>1, <3>2, <3>3
  <2>7. Len(ss[k]) \in Nat \ {0}
    <3>1. wanted[k] \in Chars
      BY <1>5 DEF PlainChars
    <3>2. QED
      BY <1>4, <3>1, PrintedIs
  <2>8. p <= r
    <3>1. Len(g[n]) = r
      BY <1>2, <1>4
    <3>2. PICK a \in Nat, b \in Nat \ {0} : a = Len(g[j]) /\ b = Len(ss[k])
      BY <2>6, <2>7
    <3>3. a + b <= r
      BY <2>6, <3>1, <3>2
    <3>4. p = a + 1
      BY <1>4, <3>2
    <3>5. QED
      BY <3>3, <3>4
  <2>9. QED
    BY <1>1, <1>2, <2>8 DEF Flushed, TextType
<1>7. q - 1 = n /\ \A i \in 1..n : buf[i] = wanted[i]
  BY <1>4, <1>6
<1>8. Result \in Seq(Nat) /\ Len(Result) = n /\ (\A i \in 1..n : Result[i] = wanted[i]) /\ Seen = Result
  <2>1. \A i \in 1..n : buf[i] # 0
    BY <1>5, <1>7 DEF PlainChars, Chars
  <2>2. QED
    BY <1>1, <1>7, <2>1, SeenIs
<1>9. wanted \in Seq(Nat)
  BY <1>1, SeqMonotonic DEF TextType, Chars
<1>10. Result = wanted
  BY <1>2, <1>8, <1>9, SeqEqual
<1>11. QED
  BY <1>8, <1>10
-----------------------------------------------------------------------------
(* Nothing else in the document touches the text that is read.              *)
LEMMA EditsLeaveText == ASSUME EditStep PROVE UNCHANGED textVars
<1>1. ASSUME NEW d, Edit(d) PROVE UNCHANGED textVars
  BY <1>1 DEF Edit
<1>2. ASSUME NEW kind \in Kinds, NewNode(kind) PROVE UNCHANGED textVars
  BY <1>1, <1>2 DEF NewNode
<1>3. ASSUME NEW n, NEW kind, InsertNew(n, kind) PROVE UNCHANGED textVars
  BY <1>1, <1>3 DEF InsertNew
<1>4. ASSUME NEW n, NEW c, InsertLast(n, c) \/ InsertFirst(n, c) PROVE UNCHANGED textVars
  BY <1>1, <1>4 DEF InsertLast, InsertFirst
<1>5. ASSUME NEW b, NEW c, InsertAfter(b, c) \/ InsertAfterCrash(b, c) PROVE UNCHANGED textVars
  BY <1>1, <1>5 DEF InsertAfter, InsertAfterCrash
<1>6. ASSUME NEW n, Delete(n) \/ DeleteAllUnder(n) PROVE UNCHANGED textVars
  BY <1>1, <1>6 DEF Delete, DeleteAllUnder
<1>7. ASSUME NEW n, SetText(n) PROVE UNCHANGED textVars
  BY <1>1, <1>7 DEF SetText
<1>8. ASSUME NEW n, NEW x, FindOrCreateAttribute(n, x) \/ DeleteAttribute(n, x)
      PROVE  UNCHANGED textVars
  BY <1>1, <1>8 DEF FindOrCreateAttribute, DeleteAttribute
<1>9. CASE ClearDocument
  BY <1>9 DEF ClearDocument
<1>10. QED
  BY <1>2, <1>3, <1>4, <1>5, <1>6, <1>7, <1>8, <1>9 DEF EditStep

LEMMA TextInvNext == TextInv /\ [Next]_vars => TextInv'
<1> SUFFICES ASSUME TextInv, [Next]_vars PROVE TextInv'
  OBVIOUS
<1>1. ASSUME UNCHANGED textVars PROVE TextInv'
  BY <1>1 DEF textVars, TextInv, TextType, SomeWritten, WrittenTo, PlainText, PrintedTo
<1>2. CASE ParserStep /\ UNCHANGED <<printerVars, textVars, edits>>
  BY <1>1, <1>2
<1>3. CASE EditStep
  BY <1>1, <1>3, EditsLeaveText
<1>4. CASE \E c \in BOOLEAN : BeginPrint(c)
  BY <1>1, <1>4 DEF BeginPrint
<1>5. CASE PrintMore \/ EndPrint
  BY <1>1, <1>5 DEF PrintMore, EndPrint
<1>6. CASE BeginValue
  <2>1. PICK r \in Raws : StartReading(r)
    BY <1>6 DEF BeginValue
  <2>2. QED
    BY <2>1, StartReadingInv
<1>7. CASE ValueMore
  BY <1>7, TextStepInv DEF ValueMore
<1>8. CASE UNCHANGED vars
  BY <1>1, <1>8 DEF vars
<1>9. QED
  BY <1>2, <1>3, <1>4, <1>5, <1>6, <1>7, <1>8 DEF Next

LEMMA TextInvAlways == Spec => []TextInv
<1>1. Init => TextInv
  BY TextInitInv DEF Init
<1>2. QED
  BY <1>1, TextInvNext, PTL DEF Spec

LEMMA TextInvShows == TextInv => TextIsExpected /\ PrintedTextReadsBack
BY TextInvGivesExpected, TextInvReadsBack

(* GetStr decodes every text in place to what it stands for, whatever bytes  *)
(* it has and however long it is: what it writes stays behind what it reads,  *)
(* newlines are normalised, entities and references decoded, and of what only *)
(* begins like an entity the & is left to what the file has there.           *)
THEOREM TextIsAlwaysExpected == Spec => []TextIsExpected
BY TextInvAlways, TextInvShows, PTL

(* Any text without a carriage return that PrintString has written and GetStr *)
(* reads again is the same as before.                                       *)
THEOREM PrintedTextAlwaysReadsBack == Spec => []PrintedTextReadsBack
BY TextInvAlways, TextInvShows, PTL
=============================================================================
