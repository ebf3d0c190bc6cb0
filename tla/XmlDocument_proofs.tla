-------------------------- MODULE XmlDocument_proofs --------------------------
(***************************************************************************)
(* The document's tree stays linked and counted, for any number of nodes,  *)
(* whatever files are loaded into it, whatever errors they have and        *)
(* however the tree is changed in between.  Searches meet every child, and *)
(* what has been loaded is the file, or after an error what was complete   *)
(* before it.                                                              *)
(***************************************************************************)
EXTENDS XmlDocument, SequenceTheorems, FiniteSetTheorems, WellFoundedInduction, TLAPS

Joints == Nodes \cup {Doc}

(* Induction for a set of naturals.                                         *)
LEMMA AllNaturals ==
  ASSUME NEW S, 0 \in S, \A n \in Nat : n \in S => n + 1 \in S
  PROVE  Nat \subseteq S
<1> DEFINE T == Nat \ S
<1> SUFFICES ASSUME T # {} PROVE FALSE
  OBVIOUS
<1>1. \E x \in T : \A y \in T : ~(<<y, x>> \in OpToRel(<, Nat))
  BY WFMin, NatLessThanWellFounded
<1>2. PICK x \in T : \A y \in T : ~(y < x)
  BY <1>1 DEF OpToRel
<1>3. x # 0
  OBVIOUS
<1>4. x - 1 \in Nat /\ x - 1 < x /\ (x - 1) + 1 = x
  BY <1>3
<1>5. x - 1 \in S
  BY <1>2, <1>4
<1>6. QED
  BY <1>4, <1>5

LEMMA LeastNatural ==
  ASSUME NEW S \in SUBSET Nat, S # {} PROVE \E n \in S : \A m \in S : n <= m
<1>1. \E x \in S : \A y \in S : ~(<<y, x>> \in OpToRel(<, Nat))
  BY WFMin, NatLessThanWellFounded
<1>2. PICK x \in S : \A y \in S : ~(y < x)
  BY <1>1 DEF OpToRel
<1>3. QED
  BY <1>2

-----------------------------------------------------------------------------
(* What is computed one step after the other, from x on.                    *)
Steps(V, x, n, g) == x \in V /\ n \in Nat /\ g \in [1..n -> [V -> V]]
Stepped(V, x, n, g, f) ==
  f \in [0..n -> V] /\ f[0] = x /\ \A k \in 1..n : f[k] = g[k][f[k - 1]]

LEMMA StepByStep ==
  ASSUME NEW V, NEW x, NEW n, NEW g, Steps(V, x, n, g)
  PROVE  \E f : Stepped(V, x, n, g, f)
<1>0. x \in V /\ n \in Nat /\ g \in [1..n -> [V -> V]]
  BY DEF Steps
<1> USE <1>0
<1> DEFINE Is(f, m) == f[0] = x /\ \A k \in 1..m : f[k] = g[k][f[k - 1]]
           S == {m \in Nat : m <= n => \E f \in [0..m -> V] : Is(f, m)}
<1>1. 0 \in S
  <2>1. PICK f : f = [k \in 0..0 |-> x]
    OBVIOUS
  <2>2. f \in [0..0 -> V] /\ f[0] = x /\ 1..0 = {}
    BY <2>1
  <2>3. QED
    BY <2>2
<1>2. ASSUME NEW m \in Nat, m \in S PROVE m + 1 \in S
  <2> SUFFICES ASSUME m + 1 <= n PROVE \E f \in [0..(m + 1) -> V] : Is(f, m + 1)
    OBVIOUS
  <2>1. PICK f \in [0..m -> V] : Is(f, m)
    BY <1>2
  <2>2. m \in 0..m /\ m + 1 \in 1..n
    OBVIOUS
  <2>3. g[m + 1][f[m]] \in V
    BY <2>1, <2>2
  <2>4. PICK e : e = [k \in 0..(m + 1) |-> IF k = m + 1 THEN g[m + 1][f[m]] ELSE f[k]]
    OBVIOUS
  <2>5. e[m + 1] = g[m + 1][f[m]] /\ \A k \in 0..m : e[k] = f[k]
    BY <2>4
  <2>6. e \in [0..(m + 1) -> V]
    BY <2>1, <2>3, <2>4
  <2>7. ASSUME NEW k \in 1..(m + 1) PROVE e[k] = g[k][e[k - 1]]
    <3>1. CASE k \in 1..m
      <4>1. k \in 0..m /\ k - 1 \in 0..m
        BY <3>1
      <4>2. QED
        BY <2>1, <2>5, <3>1, <4>1
    <3>2. CASE k = m + 1
      <4>1. k - 1 = m
        BY <3>2
      <4>2. QED
        BY <2>2, <2>5, <3>2, <4>1
    <3>3. QED
      BY <3>1, <3>2
  <2>8. 0 \in 0..m
    OBVIOUS
  <2>9. QED
    BY <2>1, <2>5, <2>6, <2>7, <2>8
<1>3. n \in S
  BY <1>1, <1>2, AllNaturals
<1>4. QED
  BY <1>3 DEF Stepped
-----------------------------------------------------------------------------
(* Sequences can be joined.                                                 *)
Joined(V) ==
  /\ <<>> \in V
  /\ \A a, b \in V : a \o b \in V
  /\ \A a \in V : <<>> \o a = a /\ a \o <<>> = a
  /\ \A a, b, c \in V : (a \o b) \o c = a \o (b \o c)

LEMMA SequencesJoin == ASSUME NEW S PROVE Joined(Seq(S))
<1>1. <<>> \in Seq(S)
  BY EmptySeq
<1>2. \A a, b \in Seq(S) : a \o b \in Seq(S)
  BY ConcatProperties
<1>3. \A a \in Seq(S) : <<>> \o a = a /\ a \o <<>> = a
  BY ConcatEmptySeq
<1>4. \A a, b, c \in Seq(S) : (a \o b) \o c = a \o (b \o c)
  BY ConcatAssociative
<1>5. QED
  BY <1>1, <1>2, <1>3, <1>4, Zenon DEF Joined

(* A sequence of sequences, one behind the other: g[k] is the first k of n.  *)
Flat(ss, n, g) ==
  /\ g[0] = <<>>
  /\ \A k \in 1..n : g[k] = g[k - 1] \o ss[k]

LEMMA FlatExists ==
  ASSUME NEW V, Joined(V), NEW n \in Nat, NEW ss, \A k \in 1..n : ss[k] \in V
  PROVE  \E g \in [0..n -> V] : Flat(ss, n, g)
<1> DEFINE step == [k \in 1..n |-> [v \in V |-> v \o ss[k]]]
<1>1. <<>> \in V /\ step \in [1..n -> [V -> V]]
  BY DEF Joined
<1>2. \A v \in V, k \in 1..n : step[k][v] = v \o ss[k]
  OBVIOUS
<1> HIDE DEF step
<1>3. PICK g \in [0..n -> V] : g[0] = <<>> /\ \A k \in 1..n : g[k] = step[k][g[k - 1]]
  <2>1. PICK x : x = <<>>
    OBVIOUS
  <2>2. Steps(V, x, n, step)
    BY <1>1, <2>1 DEF Steps
  <2>3. PICK g : Stepped(V, x, n, step, g)
    BY <2>2, StepByStep
  <2>4. QED
    BY <2>1, <2>3 DEF Stepped
<1>4. \A k \in 1..n : k - 1 \in 0..n /\ g[k - 1] \in V
  BY <1>3
<1>5. \A k \in 1..n : g[k] = g[k - 1] \o ss[k]
  BY <1>2, <1>3, <1>4
<1>6. QED
  BY <1>3, <1>5 DEF Flat

LEMMA FlatIsUnique ==
  ASSUME NEW ss, NEW n \in Nat, NEW g, NEW h, Flat(ss, n, g), Flat(ss, n, h)
  PROVE  \A k \in 0..n : g[k] = h[k]
<1> DEFINE T == {k \in Nat : k \in 0..n => g[k] = h[k]}
<1>1. 0 \in T
  BY DEF Flat
<1>2. ASSUME NEW k \in Nat, k \in T PROVE k + 1 \in T
  <2> SUFFICES ASSUME k + 1 \in 0..n PROVE g[k + 1] = h[k + 1]
    OBVIOUS
  <2>1. k \in 0..n /\ k + 1 \in 1..n /\ (k + 1) - 1 = k
    OBVIOUS
  <2>2. g[k + 1] = g[k] \o ss[k + 1] /\ h[k + 1] = h[k] \o ss[k + 1]
    BY <2>1 DEF Flat
  <2>3. QED
    BY <1>2, <2>1, <2>2
<1>3. Nat \subseteq T
  <2> HIDE DEF T
  <2> QED
    BY <1>1, <1>2, AllNaturals
<1>4. QED
  BY <1>3

(* FlattenSeq's function has no place 0.                                    *)
FlatFrom1(ss, n) == CHOOSE f : f = [i \in 1..n |-> IF i = 1 THEN ss[i] ELSE f[i - 1] \o ss[i]]

LEMMA FlatFrom1Is ==
  ASSUME NEW V, Joined(V), NEW n \in Nat, n # 0, NEW ss, \A k \in 1..n : ss[k] \in V,
         NEW g \in [0..n -> V], Flat(ss, n, g)
  PROVE  FlatFrom1(ss, n)[n] = g[n]
<1> DEFINE R(f) == [i \in 1..n |-> IF i = 1 THEN ss[i] ELSE f[i - 1] \o ss[i]]
           e == [i \in 1..n |-> g[i]]
<1>1. g[0] = <<>> /\ \A k \in 1..n : g[k] = g[k - 1] \o ss[k]
  BY DEF Flat
<1>2. g[1] = ss[1] /\ 1 \in 1..n /\ 1 - 1 = 0
  <2>1. 1 \in 1..n /\ 1 - 1 = 0
    OBVIOUS
  <2>2. g[1] = <<>> \o ss[1]
    BY <1>1, <2>1
  <2>3. QED
    BY <2>1, <2>2 DEF Joined
<1>3. \A i \in 1..n : g[i] = IF i = 1 THEN ss[i] ELSE e[i - 1] \o ss[i]
  <2>1. \A i \in 1..n : i # 1 => i - 1 \in 1..n /\ e[i - 1] = g[i - 1]
    OBVIOUS
  <2>2. QED
    BY <1>1, <1>2, <2>1
<1>4. e = R(e)
  BY <1>3
<1>5. PICK h : h = FlatFrom1(ss, n)
  OBVIOUS
<1>6. h = R(h)
  <2> HIDE DEF e
  <2> QED
    BY <1>4, <1>5 DEF FlatFrom1
<1>7. \A i \in 1..n : h[i] = IF i = 1 THEN ss[i] ELSE h[i - 1] \o ss[i]
  BY <1>6
<1> HIDE DEF e, R
<1> DEFINE T == {k \in Nat : k \in 1..n => h[k] = g[k]}
<1>8. 0 \in T
  OBVIOUS
<1>9. ASSUME NEW k \in Nat, k \in T PROVE k + 1 \in T
  <2> SUFFICES ASSUME k + 1 \in 1..n PROVE h[k + 1] = g[k + 1]
    OBVIOUS
  <2>1. CASE k = 0
    BY <1>2, <1>7, <2>1
  <2>2. CASE k # 0
    <3>1. k \in 1..n /\ (k + 1) - 1 = k /\ k + 1 # 1
      BY <2>2
    <3>2. h[k + 1] = h[k] \o ss[k + 1]
      BY <1>7, <3>1
    <3>3. g[k + 1] = g[k] \o ss[k + 1]
      BY <1>1, <3>1
    <3>4. QED
      BY <1>9, <3>1, <3>2, <3>3
  <2>3. QED
    BY <2>1, <2>2
<1>10. Nat \subseteq T
  <2> HIDE DEF T
  <2> QED
    BY <1>8, <1>9, AllNaturals
<1>11. QED
  BY <1>5, <1>10

LEMMA FlattenSeqIs ==
  ASSUME NEW S, NEW ss \in Seq(Seq(S))
  PROVE  \E g \in [0..Len(ss) -> Seq(S)] :
           Flat(ss, Len(ss), g) /\ FlattenSeq(ss) = g[Len(ss)]
<1>1. PICK n : n = Len(ss)
  OBVIOUS
<1>2. PICK V : V = Seq(S)
  OBVIOUS
<1>3. n \in Nat /\ \A k \in 1..n : ss[k] \in V
  BY <1>1, <1>2, ElementOfSeq, LenProperties
<1>4. Joined(V)
  BY <1>2, SequencesJoin
<1>5. PICK g \in [0..n -> V] : Flat(ss, n, g)
  BY <1>3, <1>4, FlatExists
<1>6. FlattenSeq(ss) = g[n]
  <2>1. CASE n = 0
    <3>1. ss = <<>>
      BY <1>1, <2>1, EmptySeq
    <3>2. FlattenSeq(ss) = <<>>
      BY <1>1, <2>1, <3>1 DEF FlattenSeq
    <3>3. QED
      BY <1>5, <2>1, <3>2 DEF Flat
  <2>2. CASE n # 0
    <3>1. FlattenSeq(ss) = FlatFrom1(ss, n)[n]
      BY <1>1, <2>2, Zenon DEF FlattenSeq, FlatFrom1
    <3>2. QED
      BY <1>3, <1>4, <1>5, <2>2, <3>1, FlatFrom1Is
  <2>3. QED
    BY <2>1, <2>2
<1>7. QED
  BY <1>1, <1>2, <1>5, <1>6

LEMMA FlattenSeqType ==
  ASSUME NEW S, NEW ss \in Seq(Seq(S)) PROVE FlattenSeq(ss) \in Seq(S)
<1>1. PICK n : n = Len(ss)
  OBVIOUS
<1>2. PICK g \in [0..n -> Seq(S)] : FlattenSeq(ss) = g[n]
  BY <1>1, FlattenSeqIs
<1>3. n \in 0..n
  BY <1>1, LenProperties
<1>4. QED
  BY <1>2, <1>3

LEMMA FlattenSeqEmpty == FlattenSeq(<<>>) = <<>>
BY DEF FlattenSeq

FlatIn(V, ss, n, g) == g \in [0..n -> V] /\ Flat(ss, n, g)

Then(a, b) == a \o b

(* st is t behind s.                                                        *)
Behind(V, m, n, mn, s, t, st) ==
  /\ mn = m + n
  /\ Joined(V) /\ m \in Nat /\ n \in Nat
  /\ \A i \in 1..m : s[i] \in V /\ st[i] = s[i]
  /\ \A i \in 1..n : t[i] \in V /\ st[m + i] = t[i]

LEMMA FlatConcat ==
  ASSUME NEW V, NEW m, NEW n, NEW mn, NEW s, NEW t, NEW st, Behind(V, m, n, mn, s, t, st),
         NEW g, FlatIn(V, st, mn, g), NEW gs, FlatIn(V, s, m, gs), NEW gt, FlatIn(V, t, n, gt)
  PROVE  /\ \A k \in 0..m : g[k] = gs[k]
         /\ g[mn] = Then(gs[m], gt[n])
<1>0. /\ g \in [0..(m + n) -> V] /\ Flat(st, m + n, g)
      /\ gs \in [0..m -> V] /\ Flat(s, m, gs)
      /\ gt \in [0..n -> V] /\ Flat(t, n, gt)
      /\ Joined(V) /\ m \in Nat /\ n \in Nat
      /\ \A i \in 1..m : s[i] \in V /\ st[i] = s[i]
      /\ \A i \in 1..n : t[i] \in V /\ st[m + i] = t[i]
      /\ mn = m + n
  BY DEF Behind, FlatIn
<1> USE <1>0
<1>1. \A k \in 0..m : g[k] = gs[k]
  <2>1. Flat(s, m, g)
    <3>1. \A k \in 1..m : k \in 1..(m + n)
      OBVIOUS
    <3>2. QED
      BY <3>1 DEF Flat
  <2>2. QED
    BY <2>1, FlatIsUnique
<1>2. g[m] = gs[m] /\ gs[m] \in V
  BY <1>1
<1>3. PICK j : j = [k \in 0..n |-> gs[m] \o gt[k]]
  OBVIOUS
<1>4. \A k \in 0..n : j[k] = gs[m] \o gt[k]
  BY <1>3
<1> DEFINE T == {k \in Nat : k \in 0..n => g[m + k] = j[k]}
<1>6. 0 \in T
  <2>1. gt[0] = <<>> /\ m + 0 = m /\ 0 \in 0..n
    BY DEF Flat
  <2>2. j[0] = gs[m]
    BY <1>2, <1>4, <2>1 DEF Joined
  <2>3. QED
    BY <1>2, <2>1, <2>2
<1>7. ASSUME NEW k \in Nat, k \in T PROVE k + 1 \in T
  <2> SUFFICES ASSUME k + 1 \in 0..n PROVE g[m + (k + 1)] = j[k + 1]
    OBVIOUS
  <2>1. /\ k \in 0..n /\ k + 1 \in 1..n /\ m + (k + 1) \in 1..(m + n)
        /\ (m + (k + 1)) - 1 = m + k /\ (k + 1) - 1 = k
    OBVIOUS
  <2>2. g[m + (k + 1)] = g[m + k] \o t[k + 1]
    BY <2>1 DEF Flat
  <2>3. gt[k + 1] = gt[k] \o t[k + 1]
    BY <2>1 DEF Flat
  <2>4. PICK x \in V, y \in V, z \in V : x = gs[m] /\ y = gt[k] /\ z = t[k + 1]
    BY <1>2, <2>1
  <2>5. (x \o y) \o z = x \o (y \o z)
    BY DEF Joined
  <2>6. g[m + (k + 1)] = (x \o y) \o z
    BY <1>4, <1>7, <2>1, <2>2, <2>4
  <2>7. j[k + 1] = x \o (y \o z)
    BY <1>4, <2>1, <2>3, <2>4
  <2>8. QED
    BY <2>5, <2>6, <2>7
<1>8. Nat \subseteq T
  <2> HIDE DEF T
  <2> QED
    BY <1>6, <1>7, AllNaturals
<1>9. g[m + n] = j[n] /\ n \in 0..n
  BY <1>8
<1>10. QED
  BY <1>1, <1>4, <1>9 DEF Then

(* A flattened sequence is its flattened beginning, and the rest flattened.  *)
LEMMA FlattenSeqConcat ==
  ASSUME NEW S, NEW s \in Seq(Seq(S)), NEW t \in Seq(Seq(S))
  PROVE  FlattenSeq(s \o t) = FlattenSeq(s) \o FlattenSeq(t)
<1>1. PICK st, m, n, V : st = s \o t /\ m = Len(s) /\ n = Len(t) /\ V = Seq(S)
  OBVIOUS
<1>2. st \in Seq(V) /\ Len(st) = m + n /\ m \in Nat /\ n \in Nat
  BY <1>1, ConcatProperties, LenProperties
<1>3. \A i \in 1..(m + n) : st[i] = IF i <= m THEN s[i] ELSE t[i - m]
  BY <1>1, ConcatProperties
<1>4. \A i \in 1..m : s[i] \in V /\ st[i] = s[i]
  <2>1. \A i \in 1..m : i \in 1..(m + n) /\ i <= m
    BY <1>2
  <2>2. QED
    BY <1>1, <1>3, <2>1, ElementOfSeq
<1>5. \A i \in 1..n : t[i] \in V /\ st[m + i] = t[i]
  <2>1. \A i \in 1..n : m + i \in 1..(m + n) /\ ~(m + i <= m) /\ (m + i) - m = i
    BY <1>2
  <2>2. QED
    BY <1>1, <1>3, <2>1, ElementOfSeq
<1>6. PICK mn, x, y : mn = m + n /\ x = s /\ y = t
  OBVIOUS
<1>7. PICK g : FlatIn(V, st, mn, g) /\ FlattenSeq(st) = g[mn]
  <2>1. \E h \in [0..Len(st) -> V] : Flat(st, Len(st), h) /\ FlattenSeq(st) = h[Len(st)]
    BY <1>1, <1>2, FlattenSeqIs
  <2>2. QED
    BY <1>2, <1>6, <2>1 DEF FlatIn
<1>8. PICK gs : FlatIn(V, x, m, gs) /\ FlattenSeq(s) = gs[m]
  <2>1. \E h \in [0..Len(s) -> V] : Flat(s, Len(s), h) /\ FlattenSeq(s) = h[Len(s)]
    BY <1>1, FlattenSeqIs
  <2>2. QED
    BY <1>1, <1>6, <2>1 DEF FlatIn
<1>9. PICK gt : FlatIn(V, y, n, gt) /\ FlattenSeq(t) = gt[n]
  <2>1. \E h \in [0..Len(t) -> V] : Flat(t, Len(t), h) /\ FlattenSeq(t) = h[Len(t)]
    BY <1>1, FlattenSeqIs
  <2>2. QED
    BY <1>1, <1>6, <2>1 DEF FlatIn
<1>10. g[mn] = Then(gs[m], gt[n])
  <2>1. Joined(V)
    BY <1>1, SequencesJoin
  <2>2. Behind(V, m, n, mn, x, y, st)
    BY <1>2, <1>4, <1>5, <1>6, <2>1 DEF Behind
  <2>3. QED
    BY <1>7, <1>8, <1>9, <2>2, FlatConcat
<1>11. QED
  BY <1>1, <1>7, <1>8, <1>9, <1>10 DEF Then

LEMMA FlattenSeqOne ==
  ASSUME NEW S, NEW x \in Seq(S) PROVE FlattenSeq(<<x>>) = x
<1>1. <<x>> \in Seq(Seq(S)) /\ Len(<<x>>) = 1 /\ <<x>>[1] = x
  OBVIOUS
<1>2. PICK xs : xs = <<x>>
  OBVIOUS
<1>3. PICK g \in [0..1 -> Seq(S)] : Flat(xs, 1, g) /\ FlattenSeq(xs) = g[1]
  BY <1>1, <1>2, FlattenSeqIs
<1>4. g[0] = <<>> /\ g[1] = g[0] \o x
  <2>1. 1 \in 1..1 /\ 1 - 1 = 0
    OBVIOUS
  <2>2. QED
    BY <1>1, <1>2, <1>3, <2>1 DEF Flat
<1>5. QED
  BY <1>2, <1>3, <1>4, ConcatEmptySeq

LEMMA FlattenSeqAppend ==
  ASSUME NEW S, NEW s \in Seq(Seq(S)), NEW x \in Seq(S)
  PROVE  FlattenSeq(Append(s, x)) = FlattenSeq(s) \o x
<1>1. Append(s, x) = s \o <<x>>
  BY AppendIsConcat
<1>2. <<x>> \in Seq(Seq(S))
  OBVIOUS
<1>3. FlattenSeq(s \o <<x>>) = FlattenSeq(s) \o FlattenSeq(<<x>>)
  BY <1>2, FlattenSeqConcat
<1>4. QED
  BY <1>1, <1>3, FlattenSeqOne
-----------------------------------------------------------------------------
LEMMA JointsAre ==
  /\ Nodes \subseteq Nat \ {0} /\ Doc = 0 /\ Doc \notin Nodes /\ Null \notin Joints
  /\ IsFiniteSet(Nodes) /\ IsFiniteSet(Joints) /\ Cardinality(Joints) = MaxNodes + 1
<1>1. MaxNodes \in Int /\ 1 \in Int /\ 0 \in Int /\ MaxNodes >= 0
  BY TreeAssumption
<1>2. Joints = 0..MaxNodes
  BY <1>1 DEF Joints, Nodes, Doc
<1>3. IsFiniteSet(1..MaxNodes) /\ IsFiniteSet(0..MaxNodes) /\ Cardinality(0..MaxNodes) = MaxNodes + 1
  BY <1>1, FS_Interval
<1>4. QED
  BY <1>1, <1>2, <1>3, TreeAssumption DEF Nodes, Doc
-----------------------------------------------------------------------------
(* What is below a node.                                                    *)
ChildrenOf(d, S) == {m \in Nodes : d.parent[m] \in S}

(* S is n and all that is below it.                                         *)
Under(d, n, S) ==
  /\ n \in S /\ ChildrenOf(d, S) \subseteq S
  /\ \A m \in S \ {n} : m \in Nodes /\ d.parent[m] \in S

(* The recursive functions of the model turn what they have found over and    *)
(* over again.                                                              *)
Turn(what, d, n, x) ==
  IF what = "below" THEN WithChildren(d, x)
  ELSE IF what = "next" THEN WithNext(n, d, x)
  ELSE IF what = "search" THEN Onwards(d, n[1], n[2], x)
  ELSE DeleteNode(x, x.unlinked[1])
Turns(what, d, n, x, w, h) ==
  w = [k \in 0..h |-> IF k = 0 THEN x ELSE Turn(what, d, n, w[k - 1])]

LEMMA TurnsMean ==
  ASSUME NEW what, NEW d, NEW n, NEW x, NEW w, NEW k \in Nat
  PROVE  Turns(what, d, n, x, w, k) <=>
           /\ w = [j \in 0..k |-> w[j]] /\ w[0] = x
           /\ \A j \in 1..k : w[j] = Turn(what, d, n, w[j - 1])
<1> DEFINE r == [j \in 0..k |-> IF j = 0 THEN x ELSE Turn(what, d, n, w[j - 1])]
<1>1. ASSUME w = r
      PROVE  /\ w = [j \in 0..k |-> w[j]] /\ w[0] = x
             /\ \A j \in 1..k : w[j] = Turn(what, d, n, w[j - 1])
  <2>1. PICK y : y = r
    OBVIOUS
  <2>2. /\ y = [j \in 0..k |-> y[j]] /\ y[0] = x
        /\ \A j \in 1..k : y[j] = Turn(what, d, n, w[j - 1])
    BY <2>1
  <2> HIDE DEF r
  <2>3. QED
    BY <1>1, <2>1, <2>2
<1>2. ASSUME w = [j \in 0..k |-> w[j]], w[0] = x,
             \A j \in 1..k : w[j] = Turn(what, d, n, w[j - 1])
      PROVE  w = r
  <2>1. ASSUME NEW j \in 0..k PROVE w[j] = r[j]
    <3>1. CASE j = 0
      BY <1>2, <3>1
    <3>2. CASE j \in 1..k
      BY <1>2, <3>2
    <3>3. QED
      BY <3>1, <3>2
  <2>2. r = [j \in 0..k |-> r[j]]
    OBVIOUS
  <2> HIDE DEF r
  <2>3. [j \in 0..k |-> w[j]] = [j \in 0..k |-> r[j]]
    BY <2>1
  <2>4. QED
    BY <1>2, <2>2, <2>3
<1>3. QED
  BY <1>1, <1>2 DEF Turns

LEMMA TurnsExist ==
  ASSUME NEW what, NEW d, NEW n, NEW x, NEW k \in Nat PROVE \E w : Turns(what, d, n, x, w, k)
<1> DEFINE S == {m \in Nat : \E w : Turns(what, d, n, x, w, m)}
<1>1. 0 \in S
  <2>1. PICK w : w = [j \in 0..0 |-> x]
    OBVIOUS
  <2>2. w = [j \in 0..0 |-> w[j]] /\ w[0] = x /\ 1..0 = {} /\ 0 \in Nat
    BY <2>1
  <2>3. \A j \in 1..0 : w[j] = Turn(what, d, n, w[j - 1])
    BY ONLY <2>2
  <2>4. Turns(what, d, n, x, w, 0)
    BY ONLY <2>2, <2>3, TurnsMean
  <2>5. QED
    BY <2>4
<1>2. ASSUME NEW m \in Nat, m \in S PROVE m + 1 \in S
  <2>1. PICK w : Turns(what, d, n, x, w, m)
    BY <1>2
  <2>2. w[0] = x /\ \A j \in 1..m : w[j] = Turn(what, d, n, w[j - 1])
    BY <2>1, TurnsMean
  <2>3. PICK g : g = Turn(what, d, n, w[m])
    OBVIOUS
  <2>4. PICK v : v = [j \in 0..(m + 1) |-> IF j = m + 1 THEN g ELSE w[j]]
    OBVIOUS
  <2>5. /\ v = [j \in 0..(m + 1) |-> v[j]] /\ v[m + 1] = g
        /\ \A j \in 0..m : v[j] = w[j]
    BY <2>4
  <2>6. ASSUME NEW j \in 1..(m + 1) PROVE v[j] = Turn(what, d, n, v[j - 1])
    <3>1. CASE j \in 1..m
      <4>1. j \in 0..m /\ j - 1 \in 0..m
        BY <3>1
      <4>2. QED
        BY <2>2, <2>5, <3>1, <4>1
    <3>2. CASE j = m + 1
      <4>1. j - 1 = m /\ m \in 0..m
        BY <3>2
      <4>2. QED
        BY <2>3, <2>5, <3>2, <4>1
    <3>3. QED
      BY <3>1, <3>2
  <2>7. v[0] = x
    <3>1. 0 \in 0..m
      OBVIOUS
    <3>2. QED
      BY <2>2, <2>5, <3>1
  <2>8. Turns(what, d, n, x, v, m + 1)
    <3>1. PICK i \in Nat : i = m + 1
      OBVIOUS
    <3>2. /\ v = [j \in 0..i |-> v[j]] /\ v[0] = x
          /\ \A j \in 1..i : v[j] = Turn(what, d, n, v[j - 1])
      BY <2>5, <2>6, <2>7, <3>1
    <3>3. Turns(what, d, n, x, v, i)
      BY <3>2, TurnsMean
    <3>4. QED
      BY <3>1, <3>3
  <2>9. QED
    BY <2>8
<1>3. k \in S
  <2> HIDE DEF S
  <2>1. QED
    BY <1>1, <1>2, AllNaturals
<1>4. QED
  BY <1>3

(* What is added last ends: either nothing was added on the way, or every    *)
(* level has more nodes than the one before.                                *)
LEMMA SubtreeUnder ==
  ASSUME NEW d, NEW n \in Joints PROVE Under(d, n, Subtree(d, n))
<1>1. MaxNodes \in Nat
  BY TreeAssumption
<1>2. PICK w : Turns("below", d, n, {n}, w, MaxNodes) /\ Subtree(d, n) = w[MaxNodes]
  <2> DEFINE w == CHOOSE below : below =
                   [k \in 0..MaxNodes |->
                      IF k = 0 THEN {n} ELSE WithChildren(d, below[k - 1])]
  <2>1. \A v : Turns("below", d, n, {n}, v, MaxNodes) <=>
                 v = [k \in 0..MaxNodes |-> IF k = 0 THEN {n} ELSE WithChildren(d, v[k - 1])]
    BY DEF Turns, Turn
  <2>2. \E v : Turns("below", d, n, {n}, v, MaxNodes)
    BY <1>1, TurnsExist
  <2>3. Turns("below", d, n, {n}, w, MaxNodes)
    <3>1. \E v : v = [k \in 0..MaxNodes |-> IF k = 0 THEN {n} ELSE WithChildren(d, v[k - 1])]
      BY <2>1, <2>2
    <3>2. QED
      BY <2>1, <3>1, Zenon
  <2>4. Subtree(d, n) = w[MaxNodes]
    BY DEF Subtree
  <2> HIDE DEF w
  <2>5. QED
    BY <2>3, <2>4
<1>4. w[0] = {n} /\ \A j \in 1..MaxNodes : w[j] = WithChildren(d, w[j - 1])
  <2>1. w[0] = {n} /\ \A j \in 1..MaxNodes : w[j] = Turn("below", d, n, w[j - 1])
    BY <1>1, <1>2, TurnsMean
  <2>2. QED
    BY <2>1 DEF Turn
<1> DEFINE Grows(x) == \A m \in x \ {n} : m \in Nodes /\ d.parent[m] \in x
           Closed(x) == ChildrenOf(d, x) \subseteq x
           S == {k \in Nat : k <= MaxNodes =>
                   /\ n \in w[k] /\ w[k] \subseteq Joints /\ Grows(w[k])
                   /\ Closed(w[k]) \/ Cardinality(w[k]) > k}
<1>5. 0 \in S
  <2>1. Cardinality({n}) = 1
    BY FS_Singleton
  <2>2. QED
    BY <1>4, <2>1
<1>6. ASSUME NEW k \in Nat, k \in S PROVE k + 1 \in S
  <2> SUFFICES ASSUME k + 1 <= MaxNodes
               PROVE  /\ n \in w[k + 1] /\ w[k + 1] \subseteq Joints /\ Grows(w[k + 1])
                      /\ Closed(w[k + 1]) \/ Cardinality(w[k + 1]) > k + 1
    OBVIOUS
  <2>1. PICK x : x = w[k]
    OBVIOUS
  <2>2. n \in x /\ x \subseteq Joints /\ Grows(x) /\ (Closed(x) \/ Cardinality(x) > k)
    BY <1>1, <1>6, <2>1
  <2>3. PICK y : y = w[k + 1]
    OBVIOUS
  <2>4. y = x \cup ChildrenOf(d, x)
    <3>1. k + 1 \in 1..MaxNodes /\ (k + 1) - 1 = k
      BY <1>1
    <3>2. w[k + 1] = WithChildren(d, w[(k + 1) - 1])
      BY <1>4, <3>1
    <3>3. QED
      BY <2>1, <2>3, <3>1, <3>2 DEF WithChildren, ChildrenOf
  <2>5. n \in y /\ y \subseteq Joints /\ Grows(y)
    BY <2>2, <2>4 DEF ChildrenOf, Joints
  <2>6. CASE Closed(x)
    <3>1. y = x
      BY <2>4, <2>6
    <3>2. QED
      BY <2>3, <2>5, <2>6, <3>1
  <2>7. CASE ~Closed(x) /\ Cardinality(x) > k
    <3>1. PICK m \in ChildrenOf(d, x) : m \notin x
      BY <2>7
    <3>2. IsFiniteSet(x) /\ IsFiniteSet(y) /\ Cardinality(x) \in Nat /\ Cardinality(y) \in Nat
      BY <2>2, <2>5, JointsAre, FS_Subset, FS_CardinalityType
    <3>3. x \cup {m} \in SUBSET y
      BY <2>4, <3>1
    <3>4. Cardinality(x \cup {m}) = Cardinality(x) + 1 /\ Cardinality(x \cup {m}) <= Cardinality(y)
      BY <3>1, <3>2, <3>3, FS_AddElement, FS_Subset
    <3>5. QED
      BY <2>3, <2>5, <2>7, <3>2, <3>4
  <2>8. QED
    BY <2>2, <2>6, <2>7
<1>7. MaxNodes \in S
  <2> HIDE DEF S
  <2>1. QED
    BY <1>1, <1>5, <1>6, AllNaturals
<1>8. PICK x : x = w[MaxNodes]
  OBVIOUS
<1>9. n \in x /\ x \subseteq Joints /\ Grows(x) /\ (Closed(x) \/ Cardinality(x) > MaxNodes)
  BY <1>1, <1>7, <1>8
<1>10. Closed(x)
  <2> SUFFICES ASSUME Cardinality(x) > MaxNodes PROVE Closed(x)
    BY <1>9
  <2>1. IsFiniteSet(x) /\ Cardinality(x) \in Nat /\ Cardinality(x) <= MaxNodes + 1
    BY <1>9, JointsAre, FS_Subset, FS_CardinalityType
  <2>2. Cardinality(x) = Cardinality(Joints)
    BY <1>1, <2>1, JointsAre
  <2>3. x = Joints
    BY <1>9, <2>2, JointsAre, FS_Subset
  <2>4. QED
    BY <2>3 DEF ChildrenOf, Joints
<1>11. QED
  BY <1>2, <1>8, <1>9, <1>10 DEF Under
-----------------------------------------------------------------------------
(* The children of n are s[1] to s[k], linked in this order.                 *)
Chain(d, n, s, k) ==
  /\ \A i, j \in 1..k : s[i] = s[j] => i = j
  /\ \A m \in Nodes : d.parent[m] = n <=> \E i \in 1..k : s[i] = m
  /\ d.first[n] = IF k = 0 THEN Null ELSE s[1]
  /\ d.last[n] = IF k = 0 THEN Null ELSE s[k]
  /\ \A i \in 1..k : /\ d.prev[s[i]] = IF i = 1 THEN Null ELSE s[i - 1]
                     /\ d.next[s[i]] = IF i = k THEN Null ELSE s[i + 1]

Chained(d) == \A n \in Joints : \E k \in Nat : \E s \in [1..k -> Nodes] : Chain(d, n, s, k)

(* Only the document and elements have children, and no node is below itself. *)
Holds(d, n) == n = Doc \/ (n \in Nodes /\ d.kind[n] = "element")
Holding(d) ==
  \A m \in Nodes : d.parent[m] # Null => d.kind[m] # "free" /\ Holds(d, d.parent[m])
Acyclic(d) == \A S \in SUBSET Nodes : S # {} => \E m \in S : d.parent[m] \notin S

Bare(d) == \A n \in Nodes : d.kind[n] = "free" => d.attrs[n] = <<>>
Shape(d) == d \in Trees /\ Chained(d) /\ Holding(d) /\ Acyclic(d) /\ Bare(d)

Living(d) == {n \in Nodes : d.kind[n] # "free"}
Orphans(d) == {n \in Living(d) : d.parent[n] = Null}

(* S is in _unlinked, each node once.                                       *)
Once(s) == \A i, j \in 1..Len(s) : s[i] = s[j] => i = j
Has(s, m) == \E i \in 1..Len(s) : s[i] = m
Listed(d, S) == Once(d.unlinked) /\ \A m \in Nodes : m \in S <=> Has(d.unlinked, m)

NodePools == {"element", "text", "comment"}
Counted(d) ==
  /\ \A pool \in NodePools : d.allocs[pool] = Cardinality(OfPool(d, Living(d), pool))
  /\ d.allocs["attribute"] = Cardinality(Attributes(d, Nodes))

(* How much Untracked is above the number of nodes in no tree.              *)
Excess(d, S, pool) == d.untracked[pool] - Cardinality(OfPool(d, S, pool))
SameExcess(d, S, e, T) == \A pool \in Pools : Excess(e, T, pool) = Excess(d, S, pool)
Exact(d) == \A pool \in Pools : Excess(d, Orphans(d), pool) = 0

(* The tree is linked and counted, and S is what is listed.                  *)
Booked(d, S) ==
  /\ Shape(d) /\ Listed(d, S) /\ Counted(d) /\ S \subseteq Living(d)
  /\ \A pool \in Pools : Excess(d, S, pool) >= 0
Whole(d) == Booked(d, Orphans(d))

(* s are the nodes whose children ParseDeep is reading, from the document on, *)
(* and c is the one it has just recognised; nothing else is in no tree.      *)
Opened(d, s, c) ==
  /\ Len(s) > 0 /\ s[1] = Doc
  /\ \A i \in 2..Len(s) : s[i] \in Nodes /\ d.kind[s[i]] = "element"
  /\ \A i, j \in 1..Len(s) : s[i] = s[j] => i = j
  /\ \A i \in 1..Len(s) : s[i] # c
  /\ \A m \in Nodes : m \in Orphans(d) <=> m = c \/ \E i \in 2..Len(s) : s[i] = m

(* Where the parser is.                                                     *)
Reading == mode \in {"node", "tag", "fail"}
Position ==
  /\ mode \in Modes /\ stack \in Seq(Joints) /\ cur \in Nodes \cup {Null}
  /\ Len(stack) < MaxDepth
  /\ IF Reading THEN Opened(dom, stack, cur) ELSE stack = <<>>
  /\ mode = "fail" => cur \in Nodes
  /\ mode = "tag" => cur \in Nodes /\ dom.kind[cur] = "element"
  /\ mode \notin {"tag", "fail"} => cur = Null
  /\ mode = "loaded" => Orphans(dom) = {}
  /\ mode \in {"node", "tag"} => ~Error
  /\ Exact(dom)

Ranges ==
  /\ error \in Errors /\ closing \in ClosingTypes
  /\ source \in {"file", "memory"}
  /\ loads \in 0..Len(Lengths) /\ edits \in 0..MaxEdits

DocInv == Whole(dom) /\ Position /\ Ranges
-----------------------------------------------------------------------------
LEMMA FreshIsFree ==
  ASSUME NEW d, Free(d) # {}
  PROVE  Fresh(d) \in Free(d) /\ Fresh(d) \in Nodes /\ d.kind[Fresh(d)] = "free"
<1>1. Free(d) \in SUBSET Nat
  BY JointsAre DEF Free
<1>2. \E n \in Free(d) : \A m \in Free(d) : n <= m
  BY <1>1, LeastNatural
<1>3. Fresh(d) \in Free(d)
  BY <1>2, Zenon DEF Fresh
<1>4. QED
  BY <1>3 DEF Free

LEMMA PoolsAre ==
  /\ \A kind : PoolOf(kind) \in NodePools
  /\ NodePools \subseteq Pools /\ Pools = NodePools \cup {"attribute"}
  /\ "attribute" \notin NodePools
BY DEF PoolOf, NodePools, Pools

(* A tree by its fields.                                                    *)
Typed(e) ==
  /\ e.kind \in [Nodes -> Kinds \cup {"free"}] /\ e.name \in [Nodes -> Names \cup {Null}]
  /\ e.attrs \in [Nodes -> Seq(AttrNames)]
  /\ e.parent \in Pointers /\ e.prev \in Pointers /\ e.next \in Pointers
  /\ e.first \in Pointers /\ e.last \in Pointers /\ e.unlinked \in Seq(Nodes)
  /\ e.allocs \in [Pools -> Nat] /\ e.untracked \in [Pools -> Nat]
Fields(e) ==
  e = [kind |-> e.kind, name |-> e.name, attrs |-> e.attrs, parent |-> e.parent,
       prev |-> e.prev, next |-> e.next, first |-> e.first, last |-> e.last,
       unlinked |-> e.unlinked, allocs |-> e.allocs, untracked |-> e.untracked]

LEMMA TreeMeans == \A e : e \in Trees <=> Typed(e) /\ Fields(e)
<1>1. ASSUME NEW e \in Trees PROVE Typed(e) /\ Fields(e)
  BY DEF Trees, Typed, Fields
<1>2. ASSUME NEW e, Typed(e), Fields(e) PROVE e \in Trees
  BY <1>2 DEF Trees, Typed, Fields
<1>3. QED
  BY <1>1, <1>2

SameLinks(d, e) ==
  /\ e.parent = d.parent /\ e.prev = d.prev /\ e.next = d.next
  /\ e.first = d.first /\ e.last = d.last
SameLists(d, e) ==
  e.unlinked = d.unlinked /\ e.allocs = d.allocs /\ e.untracked = d.untracked
SameNodes(d, e) == e.kind = d.kind /\ e.name = d.name /\ e.attrs = d.attrs

(* What the operations change, field by field.                              *)
LEMMA CreateFields ==
  ASSUME NEW d \in Trees, Free(d) # {}, NEW kind \in Kinds, NEW name \in Names \cup {Null},
         NEW e, e = CreateUnlinkedNode(d, kind, name)
  PROVE  /\ e \in Trees /\ SameLinks(d, e)
         /\ e.kind = [d.kind EXCEPT ![Fresh(d)] = kind] /\ e.attrs = d.attrs
         /\ e.unlinked = Append(d.unlinked, Fresh(d))
         /\ e.allocs = [d.allocs EXCEPT ![PoolOf(kind)] = @ + 1]
         /\ e.untracked = [d.untracked EXCEPT ![PoolOf(kind)] = @ + 1]
<1>1. PICK n \in Nodes : n = Fresh(d)
  BY FreshIsFree
<1>2. PICK pool \in Pools : pool = PoolOf(kind)
  BY PoolsAre
<1>3. Typed(d) /\ Fields(d)
  BY TreeMeans
<1>4. PICK b : b = Alloc(d, pool)
  OBVIOUS
<1>5. /\ Fields(b) /\ SameLinks(d, b) /\ SameNodes(d, b) /\ b.unlinked = d.unlinked
      /\ b.allocs = [d.allocs EXCEPT ![pool] = @ + 1]
      /\ b.untracked = [d.untracked EXCEPT ![pool] = @ + 1]
  BY <1>3, <1>4 DEF Alloc, Fields, SameLinks, SameNodes
<1>6. e = [b EXCEPT !.kind[n] = kind, !.name[n] = name, !.unlinked = Append(@, n)]
  BY <1>1, <1>2, <1>4 DEF CreateUnlinkedNode
<1>7. /\ Fields(e) /\ SameLinks(d, e) /\ e.attrs = d.attrs
      /\ e.kind = [d.kind EXCEPT ![n] = kind] /\ e.name = [d.name EXCEPT ![n] = name]
      /\ e.unlinked = Append(d.unlinked, n) /\ e.allocs = b.allocs /\ e.untracked = b.untracked
  <2>1. Fields(e)
    BY <1>5, <1>6 DEF Fields
  <2>2. SameLinks(b, e) /\ e.attrs = b.attrs /\ e.allocs = b.allocs /\ e.untracked = b.untracked
    BY <1>5, <1>6 DEF Fields, SameLinks
  <2>3. /\ e.kind = [b.kind EXCEPT ![n] = kind] /\ e.name = [b.name EXCEPT ![n] = name]
        /\ e.unlinked = Append(b.unlinked, n)
    BY <1>5, <1>6 DEF Fields
  <2>4. QED
    BY <1>5, <2>1, <2>2, <2>3 DEF SameLinks, SameNodes
<1>8. Typed(e)
  <2>1. b.allocs \in [Pools -> Nat] /\ b.untracked \in [Pools -> Nat]
    BY <1>3, <1>5 DEF Typed
  <2>2. e.unlinked \in Seq(Nodes)
    BY <1>3, <1>7, AppendProperties DEF Typed
  <2>3. QED
    BY <1>3, <1>7, <2>1, <2>2 DEF Typed, SameLinks
<1>9. QED
  BY <1>1, <1>2, <1>5, <1>7, <1>8, TreeMeans

LEMMA CreateName ==
  ASSUME NEW d \in Trees, Free(d) # {}, NEW kind \in Kinds, NEW name,
         NEW e, e = CreateUnlinkedNode(d, kind, name)
  PROVE  e.name = [d.name EXCEPT ![Fresh(d)] = name] /\ e.attrs = d.attrs
<1>1. PICK n \in Nodes : n = Fresh(d)
  BY FreshIsFree
<1>2. PICK pool \in Pools : pool = PoolOf(kind)
  BY PoolsAre
<1>3. Fields(d)
  BY TreeMeans
<1>4. PICK b : b = Alloc(d, pool)
  OBVIOUS
<1>5. Fields(b) /\ SameNodes(d, b)
  BY <1>3, <1>4 DEF Alloc, Fields, SameNodes
<1>6. e = [b EXCEPT !.kind[n] = kind, !.name[n] = name, !.unlinked = Append(@, n)]
  BY <1>1, <1>2, <1>4 DEF CreateUnlinkedNode
<1>7. e.name = [b.name EXCEPT ![n] = name] /\ e.attrs = b.attrs
  BY <1>5, <1>6 DEF Fields
<1>8. QED
  BY <1>1, <1>5, <1>7 DEF SameNodes

LEMMA UnlistedFields ==
  ASSUME NEW d \in Trees, NEW s \in Seq(Nodes), NEW e, e = [d EXCEPT !.unlinked = s]
  PROVE  /\ e \in Trees /\ SameLinks(d, e) /\ SameNodes(d, e) /\ e.unlinked = s
         /\ e.allocs = d.allocs /\ e.untracked = d.untracked
<1>1. Typed(d) /\ Fields(d)
  BY TreeMeans
<1>2. /\ Fields(e) /\ SameLinks(d, e) /\ SameNodes(d, e) /\ e.unlinked = s
      /\ e.allocs = d.allocs /\ e.untracked = d.untracked
  BY <1>1 DEF Fields, SameLinks, SameNodes
<1>3. Typed(e)
  BY <1>1, <1>2 DEF Typed, SameLinks, SameNodes
<1>4. QED
  BY <1>2, <1>3, TreeMeans

Unlinked(d, e, c) ==
  \A n \in Joints :
    /\ e.parent[n] = IF n = c THEN Null ELSE d.parent[n]
    /\ e.first[n] = IF n = d.parent[c] /\ d.first[n] = c THEN d.next[c] ELSE d.first[n]
    /\ e.last[n] = IF n = d.parent[c] /\ d.last[n] = c THEN d.prev[c] ELSE d.last[n]
    /\ e.next[n] = IF n = c THEN Null ELSE IF n = d.prev[c] THEN d.next[c] ELSE d.next[n]
    /\ e.prev[n] = IF n = c THEN Null ELSE IF n = d.next[c] THEN d.prev[c] ELSE d.prev[n]

LEMMA UnlinkFields ==
  ASSUME NEW d \in Trees, NEW c \in Nodes, d.parent[c] # Null, NEW e, e = Unlink(d, c)
  PROVE  e \in Trees /\ SameNodes(d, e) /\ SameLists(d, e) /\ Unlinked(d, e, c)
<1>1. Typed(d) /\ Fields(d)
  BY TreeMeans
<1>2. DOMAIN d.next = Joints /\ DOMAIN d.prev = Joints
  BY <1>1 DEF Typed, Pointers, Joints
<1>3. /\ Fields(e) /\ SameNodes(d, e) /\ e.unlinked = d.unlinked
      /\ e.allocs = d.allocs /\ e.untracked = d.untracked
      /\ e.parent = [d.parent EXCEPT ![c] = Null]
      /\ e.first = [d.first EXCEPT ![d.parent[c]] = IF @ = c THEN d.next[c] ELSE @]
      /\ e.last = [d.last EXCEPT ![d.parent[c]] = IF @ = c THEN d.prev[c] ELSE @]
      /\ e.next = [n \in Joints |-> IF n = c THEN Null
                                    ELSE IF n = d.prev[c] THEN d.next[c] ELSE d.next[n]]
      /\ e.prev = [n \in Joints |-> IF n = c THEN Null
                                    ELSE IF n = d.next[c] THEN d.prev[c] ELSE d.prev[n]]
  BY <1>1, <1>2 DEF Unlink, Fields, SameNodes
<1>4. Typed(e)
  <2>1. c \in Joints /\ d.parent[c] \in Joints
    BY <1>1 DEF Typed, Pointers, Joints
  <2>2. /\ e.parent \in Pointers /\ e.first \in Pointers /\ e.last \in Pointers
    BY <1>1, <1>3, <2>1 DEF Typed, Pointers, Joints
  <2>3. e.next \in Pointers /\ e.prev \in Pointers
    BY <1>1, <1>3, <2>1 DEF Typed, Pointers, Joints
  <2>4. QED
    BY <1>1, <1>3, <2>2, <2>3 DEF Typed, SameNodes
<1>5. Unlinked(d, e, c)
  <2>1. c \in Joints /\ d.parent[c] \in Joints
    BY <1>1 DEF Typed, Pointers, Joints
  <2>2. \A n \in Joints :
          /\ e.parent[n] = IF n = c THEN Null ELSE d.parent[n]
          /\ e.first[n] = IF n = d.parent[c] /\ d.first[n] = c THEN d.next[c] ELSE d.first[n]
          /\ e.last[n] = IF n = d.parent[c] /\ d.last[n] = c THEN d.prev[c] ELSE d.last[n]
    BY <1>1, <1>3, <2>1 DEF Typed, Pointers, Joints
  <2>3. QED
    BY <1>3, <2>2 DEF Unlinked
<1>6. QED
  BY <1>3, <1>4, <1>5, TreeMeans DEF SameLists

Linked(d, e, u, b, c, a) ==
  \A n \in Joints :
    /\ e.parent[n] = IF n = c THEN u ELSE d.parent[n]
    /\ e.first[n] = IF n = u /\ b = Null THEN c ELSE d.first[n]
    /\ e.last[n] = IF n = u /\ a = Null THEN c ELSE d.last[n]
    /\ e.next[n] = IF n = b THEN c ELSE IF n = c THEN a ELSE d.next[n]
    /\ e.prev[n] = IF n = a THEN c ELSE IF n = c THEN b ELSE d.prev[n]

LEMMA LinkFields ==
  ASSUME NEW d \in Trees, NEW u \in Joints, NEW c \in Nodes,
         NEW b \in Nodes \cup {Null}, NEW a \in Nodes \cup {Null},
         NEW e, e = LinkBetween(d, u, b, c, a)
  PROVE  e \in Trees /\ SameNodes(d, e) /\ SameLists(d, e) /\ Linked(d, e, u, b, c, a)
<1>1. Typed(d) /\ Fields(d)
  BY TreeMeans
<1>2. /\ d.next = [n \in Joints |-> d.next[n]] /\ d.prev = [n \in Joints |-> d.prev[n]]
      /\ d.first = [n \in Joints |-> d.first[n]] /\ d.last = [n \in Joints |-> d.last[n]]
      /\ DOMAIN d.next = Joints /\ DOMAIN d.prev = Joints
  BY <1>1 DEF Typed, Pointers, Joints
<1>3. c \in Joints /\ Null \notin Joints /\ (b # Null => b \in Joints) /\ (a # Null => a \in Joints)
  BY JointsAre DEF Joints
<1>4. Fields(e) /\ SameNodes(d, e) /\ e.unlinked = d.unlinked
  BY <1>1 DEF LinkBetween, Fields, SameNodes
<1>5. /\ e.allocs = d.allocs /\ e.untracked = d.untracked
      /\ e.parent = [d.parent EXCEPT ![c] = u]
      /\ e.first = [d.first EXCEPT ![u] = IF b = Null THEN c ELSE @]
      /\ e.last = [d.last EXCEPT ![u] = IF a = Null THEN c ELSE @]
  BY <1>1 DEF LinkBetween, Fields
<1>6. /\ e.first = IF b = Null THEN [d.first EXCEPT ![u] = c] ELSE d.first
      /\ e.last = IF a = Null THEN [d.last EXCEPT ![u] = c] ELSE d.last
      /\ e.next = [n \in Joints |-> IF n = b THEN c ELSE IF n = c THEN a ELSE d.next[n]]
      /\ e.prev = [n \in Joints |-> IF n = a THEN c ELSE IF n = c THEN b ELSE d.prev[n]]
  <2>3. e.next = [n \in Joints |-> IF n = b THEN c ELSE IF n = c THEN a ELSE d.next[n]]
    BY <1>1, <1>2 DEF LinkBetween, Fields
  <2>4. e.prev = [n \in Joints |-> IF n = a THEN c ELSE IF n = c THEN b ELSE d.prev[n]]
    BY <1>1, <1>2 DEF LinkBetween, Fields
  <2>5. QED
    BY <1>2, <1>5, <2>3, <2>4
<1>7. Typed(e)
  <2>1. /\ e.parent \in Pointers /\ e.first \in Pointers /\ e.last \in Pointers
    BY <1>1, <1>3, <1>5, <1>6 DEF Typed, Pointers, Joints
  <2>2. e.next \in Pointers /\ e.prev \in Pointers
    BY <1>1, <1>3, <1>6 DEF Typed, Pointers, Joints
  <2>3. QED
    BY <1>1, <1>4, <1>5, <2>1, <2>2 DEF Typed, SameNodes
<1>8. Linked(d, e, u, b, c, a)
  <2>1. \A n \in Joints :
          /\ e.parent[n] = IF n = c THEN u ELSE d.parent[n]
          /\ e.first[n] = IF n = u /\ b = Null THEN c ELSE d.first[n]
          /\ e.last[n] = IF n = u /\ a = Null THEN c ELSE d.last[n]
    BY <1>1, <1>3, <1>5 DEF Typed, Pointers, Joints
  <2>2. QED
    BY <1>6, <2>1 DEF Linked
<1>9. QED
  BY <1>4, <1>5, <1>7, <1>8, TreeMeans DEF SameLists
-----------------------------------------------------------------------------
(* From d to e nothing changes that the chain of n is made of.               *)
ChainKept(d, e, n, s, k) ==
  /\ e.first[n] = d.first[n] /\ e.last[n] = d.last[n]
  /\ \A m \in Nodes : e.parent[m] = n <=> d.parent[m] = n
  /\ \A i \in 1..k : e.prev[s[i]] = d.prev[s[i]] /\ e.next[s[i]] = d.next[s[i]]

LEMMA ChainFrame ==
  ASSUME NEW d, NEW e, NEW n, NEW k, NEW s, Chain(d, n, s, k), ChainKept(d, e, n, s, k)
  PROVE  Chain(e, n, s, k)
<1> USE DEF ChainKept
<1>1. \A m \in Nodes : e.parent[m] = n <=> \E i \in 1..k : s[i] = m
  BY DEF Chain
<1>2. \A i \in 1..k : /\ e.prev[s[i]] = IF i = 1 THEN Null ELSE s[i - 1]
                      /\ e.next[s[i]] = IF i = k THEN Null ELSE s[i + 1]
  BY DEF Chain
<1>3. /\ \A i, j \in 1..k : s[i] = s[j] => i = j
      /\ e.first[n] = IF k = 0 THEN Null ELSE s[1]
      /\ e.last[n] = IF k = 0 THEN Null ELSE s[k]
  BY DEF Chain
<1>4. QED
  BY <1>1, <1>2, <1>3 DEF Chain

(* The neighbours of a child are children of the same node.                 *)
Placed(d, u, s, k, c, i) ==
  /\ s[i] = c
  /\ d.prev[c] = IF i = 1 THEN Null ELSE s[i - 1]
  /\ d.next[c] = IF i = k THEN Null ELSE s[i + 1]
  /\ d.prev[c] # Null => d.prev[c] \in Nodes /\ d.parent[d.prev[c]] = u
  /\ d.next[c] # Null => d.next[c] \in Nodes /\ d.parent[d.next[c]] = u

LEMMA Neighbours ==
  ASSUME NEW d, NEW u, NEW k \in Nat, NEW s \in [1..k -> Nodes], Chain(d, u, s, k),
         NEW c \in Nodes, d.parent[c] = u
  PROVE  \E i \in 1..k : Placed(d, u, s, k, c, i)
<1>1. PICK i \in 1..k : s[i] = c
  BY DEF Chain
<1>2. /\ d.prev[c] = IF i = 1 THEN Null ELSE s[i - 1]
      /\ d.next[c] = IF i = k THEN Null ELSE s[i + 1]
  BY <1>1 DEF Chain
<1>3. ASSUME NEW j \in 1..k PROVE s[j] \in Nodes /\ d.parent[s[j]] = u
  <2>1. PICK m \in Nodes : s[j] = m
    OBVIOUS
  <2>2. QED
    BY <2>1 DEF Chain
<1>4. (i # 1 => i - 1 \in 1..k) /\ (i # k => i + 1 \in 1..k)
  OBVIOUS
<1>5. Placed(d, u, s, k, c, i)
  BY <1>1, <1>2, <1>3, <1>4 DEF Placed
<1>6. QED
  BY <1>5

(* The chain of the parent without c, and every other chain as it was.       *)
LEMMA UnlinkedChain ==
  ASSUME NEW d \in Trees, NEW c \in Nodes, NEW u \in Joints, u = d.parent[c],
         NEW k \in Nat, NEW s \in [1..k -> Nodes], Chain(d, u, s, k),
         NEW e, Unlinked(d, e, c)
  PROVE  \E l \in Nat : \E r \in [1..l -> Nodes] : Chain(e, u, r, l)
<1>1. d.parent[c] # Null /\ Typed(d)
  BY JointsAre, TreeMeans
<1>0. Unlinked(d, e, c)
  OBVIOUS
<1>2. PICK i \in 1..k : /\ s[i] = c
                        /\ d.prev[c] = IF i = 1 THEN Null ELSE s[i - 1]
                        /\ d.next[c] = IF i = k THEN Null ELSE s[i + 1]
  <2>1. \E i \in 1..k : Placed(d, u, s, k, c, i)
    BY Neighbours
  <2>2. QED
    BY <2>1 DEF Placed
<1>3. PICK l \in Nat : l = k - 1
  OBVIOUS
<1>4. PICK r : r = [j \in 1..l |-> IF j < i THEN s[j] ELSE s[j + 1]]
  OBVIOUS
<1>5. \A j \in 1..l : /\ r[j] = IF j < i THEN s[j] ELSE s[j + 1]
                      /\ j \in 1..k /\ j + 1 \in 1..k
  BY <1>3, <1>4
<1>6. r \in [1..l -> Nodes]
  BY <1>4, <1>5
<1>7. \A j \in 1..l : r[j] # c
  BY <1>2, <1>5 DEF Chain
<1>8. \A j, h \in 1..l : r[j] = r[h] => j = h
  BY <1>2, <1>5 DEF Chain
<1>9. ASSUME NEW m \in Nodes PROVE e.parent[m] = u <=> \E j \in 1..l : r[j] = m
  <2>1. e.parent[m] = u <=> m # c /\ d.parent[m] = u
    BY <1>0, JointsAre DEF Unlinked, Joints
  <2>2. ASSUME m # c, d.parent[m] = u PROVE \E j \in 1..l : r[j] = m
    <3>1. PICK j \in 1..k : s[j] = m
      BY <2>2 DEF Chain
    <3>2. CASE j < i
      <4>1. j \in 1..l /\ r[j] = m
        BY <1>3, <1>5, <3>1, <3>2
      <4>2. QED
        BY <4>1
    <3>3. CASE j > i
      <4>1. j - 1 \in 1..l /\ (j - 1) + 1 = j /\ ~(j - 1 < i)
        BY <1>3, <3>3
      <4>2. r[j - 1] = m
        BY <1>5, <3>1, <4>1
      <4>3. QED
        BY <4>1, <4>2
    <3>4. QED
      BY <1>2, <2>2, <3>1, <3>2, <3>3
  <2>3. ASSUME NEW j \in 1..l, r[j] = m PROVE m # c /\ d.parent[m] = u
    BY <1>5, <1>7, <2>3 DEF Chain
  <2>4. QED
    BY <2>1, <2>2, <2>3
<1>10. e.first[u] = IF l = 0 THEN Null ELSE r[1]
  <2>1. e.first[u] = IF d.first[u] = c THEN d.next[c] ELSE d.first[u]
    BY <1>0 DEF Unlinked
  <2>2. d.first[u] = s[1] /\ (s[1] = c <=> i = 1)
    BY <1>2 DEF Chain
  <2>3. l # 0 => 1 \in 1..l
    OBVIOUS
  <2>4. QED
    BY <1>2, <1>3, <1>5, <2>1, <2>2, <2>3
<1>11. e.last[u] = IF l = 0 THEN Null ELSE r[l]
  <2>1. e.last[u] = IF d.last[u] = c THEN d.prev[c] ELSE d.last[u]
    BY <1>0 DEF Unlinked
  <2>2. d.last[u] = s[k] /\ (s[k] = c <=> i = k)
    BY <1>2 DEF Chain
  <2>3. l # 0 => l \in 1..l
    OBVIOUS
  <2>4. QED
    BY <1>2, <1>3, <1>5, <2>1, <2>2, <2>3
<1>12. ASSUME NEW j \in 1..l
       PROVE  /\ e.prev[r[j]] = IF j = 1 THEN Null ELSE r[j - 1]
              /\ e.next[r[j]] = IF j = l THEN Null ELSE r[j + 1]
  <2>1. r[j] \in Joints
    BY <1>6 DEF Joints
  <2>2. /\ e.next[r[j]] = IF r[j] = d.prev[c] THEN d.next[c] ELSE d.next[r[j]]
        /\ e.prev[r[j]] = IF r[j] = d.next[c] THEN d.prev[c] ELSE d.prev[r[j]]
    BY <1>0, <1>7, <2>1 DEF Unlinked
  <2>3. r[j] # Null
    BY <2>1, JointsAre
  <2>4. \A h \in 1..k : /\ d.prev[s[h]] = IF h = 1 THEN Null ELSE s[h - 1]
                        /\ d.next[s[h]] = IF h = k THEN Null ELSE s[h + 1]
    BY DEF Chain
  <2>5. \A g, h \in 1..k : s[g] = s[h] => g = h
    BY DEF Chain
  <2>6. /\ i # 1 => i - 1 \in 1..k /\ i - 1 \in 1..l
        /\ i # k => i + 1 \in 1..k /\ i \in 1..l
        /\ j # 1 => j - 1 \in 1..l
        /\ j # l => j + 1 \in 1..l
    BY <1>3
  <2>7. e.next[r[j]] = IF j = l THEN Null ELSE r[j + 1]
    <3>1. CASE j < i - 1
      <4>1. r[j] = s[j] /\ r[j + 1] = s[j + 1] /\ j # l /\ j # k
        BY <1>3, <1>5, <2>6, <3>1
      <4>2. r[j] # d.prev[c]
        BY <1>2, <1>3, <1>5, <2>3, <2>5, <2>6, <3>1, <4>1
      <4>3. QED
        BY <1>5, <2>2, <2>4, <4>1, <4>2
    <3>2. CASE j = i - 1
      <4>1. r[j] = d.prev[c]
        BY <1>2, <1>5, <3>2
      <4>2. j # l => r[j + 1] = s[i + 1] /\ i # k
        BY <1>3, <1>5, <2>6, <3>2
      <4>3. j = l => i = k
        BY <1>3, <3>2
      <4>4. QED
        BY <1>2, <2>2, <4>1, <4>2, <4>3
    <3>3. CASE j >= i
      <4>1. r[j] = s[j + 1] /\ j + 1 \in 1..k /\ (j = l <=> j + 1 = k)
        BY <1>3, <1>5, <3>3
      <4>2. j # l => r[j + 1] = s[(j + 1) + 1]
        BY <1>5, <2>6, <3>3
      <4>3. r[j] # d.prev[c]
        BY <1>2, <2>3, <2>5, <2>6, <3>3, <4>1
      <4>4. QED
        BY <2>2, <2>4, <4>1, <4>2, <4>3
    <3>4. QED
      BY <3>1, <3>2, <3>3
  <2>8. e.prev[r[j]] = IF j = 1 THEN Null ELSE r[j - 1]
    <3>1. CASE j < i
      <4>1. r[j] = s[j] /\ (j # 1 => r[j - 1] = s[j - 1])
        BY <1>5, <2>6, <3>1
      <4>2. r[j] # d.next[c]
        BY <1>2, <1>5, <2>3, <2>5, <2>6, <3>1, <4>1
      <4>3. QED
        BY <1>5, <2>2, <2>4, <4>1, <4>2
    <3>2. CASE j = i
      <4>1. r[j] = d.next[c]
        BY <1>2, <1>3, <1>5, <3>2
      <4>2. j # 1 => r[j - 1] = s[i - 1] /\ i # 1
        BY <1>5, <2>6, <3>2
      <4>3. QED
        BY <1>2, <2>2, <3>2, <4>1, <4>2
    <3>3. CASE j > i
      <4>1. r[j] = s[j + 1] /\ j + 1 \in 1..k /\ j # 1 /\ r[j - 1] = s[j]
        BY <1>5, <2>6, <3>3
      <4>2. r[j] # d.next[c]
        BY <1>2, <2>3, <2>5, <2>6, <3>3, <4>1
      <4>3. d.prev[s[j + 1]] = s[j]
        BY <2>4, <4>1
      <4>4. QED
        BY <2>2, <4>1, <4>2, <4>3
    <3>4. QED
      BY <3>1, <3>2, <3>3
  <2>9. QED
    BY <2>7, <2>8
<1>13. Chain(e, u, r, l)
  BY <1>8, <1>9, <1>10, <1>11, <1>12 DEF Chain
<1>14. QED
  BY <1>6, <1>13

LEMMA UnlinkedOthers ==
  ASSUME NEW d \in Trees, NEW c \in Nodes, NEW u \in Joints, u = d.parent[c],
         NEW k \in Nat, NEW s \in [1..k -> Nodes], Chain(d, u, s, k),
         NEW e, Unlinked(d, e, c),
         NEW n \in Joints, n # u, NEW l \in Nat, NEW r \in [1..l -> Nodes], Chain(d, n, r, l)
  PROVE  Chain(e, n, r, l)
<1>0. \E i \in 1..k : Placed(d, u, s, k, c, i)
  BY Neighbours
<1>1. /\ d.prev[c] # Null => d.parent[d.prev[c]] = u
      /\ d.next[c] # Null => d.parent[d.next[c]] = u
  BY <1>0 DEF Placed
<1>2. ASSUME NEW j \in 1..l PROVE r[j] \in Joints /\ r[j] # Null /\ d.parent[r[j]] = n
  <2>1. PICK m \in Nodes : r[j] = m
    OBVIOUS
  <2>2. QED
    BY <2>1, JointsAre DEF Chain, Joints
<1>3. ASSUME NEW j \in 1..l PROVE e.prev[r[j]] = d.prev[r[j]] /\ e.next[r[j]] = d.next[r[j]]
  <2>1. r[j] # c /\ r[j] # d.prev[c] /\ r[j] # d.next[c]
    BY <1>1, <1>2
  <2>2. QED
    BY <1>2, <2>1 DEF Unlinked
<1>4. e.first[n] = d.first[n] /\ e.last[n] = d.last[n]
  BY DEF Unlinked
<1>5. \A m \in Nodes : e.parent[m] = n <=> d.parent[m] = n
  BY JointsAre DEF Unlinked, Joints
<1>6. ChainKept(d, e, n, r, l)
  BY <1>3, <1>4, <1>5 DEF ChainKept
<1>7. QED
  BY <1>6, ChainFrame

(* b and a are neighbours among the children of u, or the ends.             *)
Between(d, u, b, a) ==
  \E k \in Nat : \E s \in [1..k -> Nodes] : \E i \in 0..k :
    /\ Chain(d, u, s, k)
    /\ b = IF i = 0 THEN Null ELSE s[i]
    /\ a = IF i = k THEN Null ELSE s[i + 1]

LEMMA LinkedChain ==
  ASSUME NEW d \in Trees, NEW c \in Nodes, NEW u \in Joints, d.parent[c] # u,
         NEW b, NEW a, Between(d, u, b, a), NEW e, Linked(d, e, u, b, c, a)
  PROVE  \E l \in Nat : \E r \in [1..l -> Nodes] : Chain(e, u, r, l)
<1>0. PICK k \in Nat : \E s \in [1..k -> Nodes] : \E i \in 0..k :
        /\ Chain(d, u, s, k)
        /\ b = IF i = 0 THEN Null ELSE s[i]
        /\ a = IF i = k THEN Null ELSE s[i + 1]
  BY DEF Between
<1>1. PICK s \in [1..k -> Nodes], i \in 0..k :
        /\ Chain(d, u, s, k)
        /\ b = IF i = 0 THEN Null ELSE s[i]
        /\ a = IF i = k THEN Null ELSE s[i + 1]
  BY <1>0
<1>2. PICK l \in Nat : l = k + 1
  OBVIOUS
<1>3. PICK r : r = [j \in 1..l |-> IF j <= i THEN s[j] ELSE IF j = i + 1 THEN c ELSE s[j - 1]]
  OBVIOUS
<1>4. ASSUME NEW j \in 1..l
      PROVE  /\ j <= i => j \in 1..k /\ r[j] = s[j]
             /\ j = i + 1 => r[j] = c
             /\ j > i + 1 => j - 1 \in 1..k /\ r[j] = s[j - 1]
  BY <1>2, <1>3
<1>5. r \in [1..l -> Nodes]
  <2>1. ASSUME NEW j \in 1..l PROVE r[j] \in Nodes
    BY <1>4
  <2>2. QED
    BY <1>3, <2>1
<1>6. \A j \in 1..k : s[j] \in Nodes /\ s[j] # c /\ s[j] # Null /\ s[j] \in Joints
  <2> SUFFICES ASSUME NEW j \in 1..k PROVE s[j] \in Nodes /\ s[j] # c /\ s[j] # Null /\ s[j] \in Joints
    OBVIOUS
  <2>1. PICK m \in Nodes : s[j] = m
    OBVIOUS
  <2>2. d.parent[m] = u
    BY <1>1, <2>1 DEF Chain
  <2>3. QED
    BY <2>1, <2>2, JointsAre DEF Joints
<1>7. \A j, h \in 1..k : s[j] = s[h] => j = h
  BY <1>1 DEF Chain
<1>8. \A j, h \in 1..l : r[j] = r[h] => j = h
  <2> SUFFICES ASSUME NEW j \in 1..l, NEW h \in 1..l, r[j] = r[h] PROVE j = h
    OBVIOUS
  <2>1. CASE j <= i
    BY <1>4, <1>6, <1>7, <2>1
  <2>2. CASE j = i + 1
    BY <1>4, <1>6, <1>7, <2>2
  <2>3. CASE j > i + 1
    BY <1>4, <1>6, <1>7, <2>3
  <2>4. QED
    BY <2>1, <2>2, <2>3
<1>9. ASSUME NEW m \in Nodes PROVE e.parent[m] = u <=> \E j \in 1..l : r[j] = m
  <2>1. e.parent[m] = u <=> m = c \/ d.parent[m] = u
    BY DEF Linked, Joints
  <2>2. i + 1 \in 1..l /\ r[i + 1] = c
    BY <1>2, <1>4
  <2>3. ASSUME m # c, d.parent[m] = u PROVE \E j \in 1..l : r[j] = m
    <3>1. PICK j \in 1..k : s[j] = m
      BY <1>1, <2>3 DEF Chain
    <3>2. CASE j <= i
      <4>1. j \in 1..l /\ r[j] = m
        BY <1>2, <1>4, <3>1, <3>2
      <4>2. QED
        BY <4>1
    <3>3. CASE j > i
      <4>1. j + 1 \in 1..l /\ j + 1 > i + 1 /\ (j + 1) - 1 = j
        BY <1>2, <3>3
      <4>2. r[j + 1] = m
        BY <1>4, <3>1, <4>1
      <4>3. QED
        BY <4>1, <4>2
    <3>4. QED
      BY <3>2, <3>3
  <2>4. ASSUME NEW j \in 1..l, r[j] = m PROVE m = c \/ d.parent[m] = u
    <3>1. CASE j = i + 1
      BY <1>4, <2>4, <3>1
    <3>2. CASE j # i + 1
      <4>1. \E h \in 1..k : s[h] = m
        BY <1>4, <2>4, <3>2
      <4>2. QED
        BY <1>1, <4>1 DEF Chain
    <3>3. QED
      BY <3>1, <3>2
  <2>5. QED
    BY <2>1, <2>2, <2>3, <2>4
<1>10. /\ e.first[u] = IF l = 0 THEN Null ELSE r[1]
       /\ e.last[u] = IF l = 0 THEN Null ELSE r[l]
  <2>1. /\ e.first[u] = IF b = Null THEN c ELSE d.first[u]
        /\ e.last[u] = IF a = Null THEN c ELSE d.last[u]
    BY DEF Linked
  <2>2. /\ d.first[u] = IF k = 0 THEN Null ELSE s[1]
        /\ d.last[u] = IF k = 0 THEN Null ELSE s[k]
    BY <1>1 DEF Chain
  <2>3. 1 \in 1..l /\ l \in 1..l
    BY <1>2
  <2>4. b = Null <=> i = 0
    BY <1>1, <1>6
  <2>5. a = Null <=> i = k
    BY <1>1, <1>6
  <2>6. e.first[u] = r[1]
    <3>1. CASE i = 0
      BY <1>4, <2>1, <2>3, <2>4, <3>1
    <3>2. CASE i # 0
      BY <1>4, <2>1, <2>2, <2>3, <2>4, <3>2
    <3>3. QED
      BY <3>1, <3>2
  <2>7. e.last[u] = r[l]
    <3>1. CASE i = k
      BY <1>2, <1>4, <2>1, <2>3, <2>5, <3>1
    <3>2. CASE i # k
      BY <1>2, <1>4, <2>1, <2>2, <2>3, <2>5, <3>2
    <3>3. QED
      BY <3>1, <3>2
  <2>8. QED
    BY <1>2, <2>6, <2>7
<1>11. ASSUME NEW j \in 1..l
       PROVE  /\ e.prev[r[j]] = IF j = 1 THEN Null ELSE r[j - 1]
              /\ e.next[r[j]] = IF j = l THEN Null ELSE r[j + 1]
  <2>1. \A m \in Joints : /\ e.next[m] = IF m = b THEN c ELSE IF m = c THEN a ELSE d.next[m]
                          /\ e.prev[m] = IF m = a THEN c ELSE IF m = c THEN b ELSE d.prev[m]
    BY DEF Linked
  <2>2. \A h \in 1..k : /\ d.prev[s[h]] = IF h = 1 THEN Null ELSE s[h - 1]
                        /\ d.next[s[h]] = IF h = k THEN Null ELSE s[h + 1]
    BY <1>1 DEF Chain
  <2>3. /\ j # 1 => j - 1 \in 1..l
        /\ j # l => j + 1 \in 1..l
    OBVIOUS
  <2>4. c \in Joints /\ c # a /\ c # b
    BY <1>1, <1>6, JointsAre DEF Joints
  <2>9. /\ i # 0 => i \in 1..k /\ b = s[i]
        /\ i # k => i + 1 \in 1..k /\ a = s[i + 1]
    BY <1>1
  <2>5. CASE j = i + 1
    <3>1. e.next[r[j]] = a /\ e.prev[r[j]] = b
      BY <1>4, <2>1, <2>4, <2>5
    <3>2. a = IF j = l THEN Null ELSE r[j + 1]
      BY <1>1, <1>2, <1>4, <2>3, <2>5
    <3>3. b = IF j = 1 THEN Null ELSE r[j - 1]
      BY <1>1, <1>2, <1>4, <2>3, <2>5
    <3>4. QED
      BY <3>1, <3>2, <3>3
  <2>6. CASE j <= i
    <3>1. PICK x : x = s[j] /\ x = r[j] /\ x \in Joints /\ x # c /\ j \in 1..k /\ x # Null
      BY <1>4, <1>6, <2>6
    <3>2. x # a
      <4>1. CASE i = k
        BY <1>1, <3>1, <4>1
      <4>2. CASE i # k
        <5>1. PICK h \in 1..k : h = i + 1 /\ a = s[h]
          BY <2>9, <4>2
        <5>2. x = a => j = h
          BY <1>7, <3>1, <5>1
        <5>3. QED
          BY <2>6, <5>1, <5>2
      <4>3. QED
        BY <4>1, <4>2
    <3>3. x = b <=> j = i
      <4>1. PICK h \in 1..k : h = i /\ b = s[h]
        BY <2>6, <2>9
      <4>2. x = b <=> j = h
        BY <1>7, <3>1, <4>1
      <4>3. QED
        BY <4>1, <4>2
    <3>4. e.prev[x] = IF j = 1 THEN Null ELSE r[j - 1]
      BY <1>4, <2>1, <2>2, <2>3, <2>6, <3>1, <3>2
    <3>5. j # l
      BY <1>2, <2>6
    <3>6. e.next[x] = r[j + 1]
      <4>1. CASE j = i
        BY <1>4, <2>1, <2>3, <3>1, <3>3, <3>5, <4>1
      <4>2. CASE j < i
        BY <1>2, <1>4, <2>1, <2>2, <2>3, <3>1, <3>3, <3>5, <4>2
      <4>3. QED
        BY <2>6, <4>1, <4>2
    <3>7. QED
      BY <3>1, <3>4, <3>5, <3>6
  <2>7. CASE j > i + 1
    <3>1. PICK x : x = s[j - 1] /\ x = r[j] /\ x \in Joints /\ x # c /\ j - 1 \in 1..k /\ x # Null
      BY <1>4, <1>6, <2>7
    <3>2. x # b
      <4>1. CASE i = 0
        BY <1>1, <3>1, <4>1
      <4>2. CASE i # 0
        <5>1. PICK h \in 1..k : h = i /\ b = s[h]
          BY <2>9, <4>2
        <5>2. PICK g \in 1..k : g = j - 1 /\ x = s[g]
          BY <3>1
        <5>3. x = b => g = h
          BY <1>7, <5>1, <5>2
        <5>4. QED
          BY <2>7, <5>1, <5>2, <5>3
      <4>3. QED
        BY <4>1, <4>2
    <3>3. x = a <=> j = i + 2
      <4>1. PICK h \in 1..k : h = i + 1 /\ a = s[h]
        BY <1>2, <2>7, <2>9
      <4>2. PICK g \in 1..k : g = j - 1 /\ x = s[g]
        BY <3>1
      <4>3. x = a <=> g = h
        BY <1>7, <4>1, <4>2
      <4>4. QED
        BY <4>1, <4>2, <4>3
    <3>4. e.next[x] = IF j = l THEN Null ELSE r[j + 1]
      BY <1>2, <1>4, <2>1, <2>2, <2>3, <2>7, <3>1, <3>2
    <3>5. j # 1
      BY <2>7
    <3>6. e.prev[x] = r[j - 1]
      <4>1. CASE j = i + 2
        BY <1>4, <2>1, <2>3, <3>1, <3>3, <3>5, <4>1
      <4>2. CASE j > i + 2
        BY <1>2, <1>4, <2>1, <2>2, <2>3, <3>1, <3>3, <3>5, <4>2
      <4>3. QED
        BY <2>7, <4>1, <4>2
    <3>7. QED
      BY <3>1, <3>4, <3>5, <3>6
  <2>8. QED
    BY <2>5, <2>6, <2>7
<1>12. Chain(e, u, r, l)
  BY <1>8, <1>9, <1>10, <1>11 DEF Chain
<1>13. QED
  BY <1>5, <1>12

LEMMA LinkedOthers ==
  ASSUME NEW d \in Trees, NEW c \in Nodes, NEW u \in Joints, d.parent[c] = Null,
         NEW b, NEW a, Between(d, u, b, a), NEW e, Linked(d, e, u, b, c, a),
         NEW n \in Joints, n # u, NEW l \in Nat, NEW r \in [1..l -> Nodes], Chain(d, n, r, l)
  PROVE  Chain(e, n, r, l)
<1>1. (b # Null => d.parent[b] = u) /\ (a # Null => d.parent[a] = u)
  <2>0. PICK k \in Nat : \E s \in [1..k -> Nodes] : \E i \in 0..k :
          /\ Chain(d, u, s, k)
          /\ b = IF i = 0 THEN Null ELSE s[i]
          /\ a = IF i = k THEN Null ELSE s[i + 1]
    BY DEF Between
  <2>1. PICK s \in [1..k -> Nodes], i \in 0..k :
          /\ Chain(d, u, s, k)
          /\ b = IF i = 0 THEN Null ELSE s[i]
          /\ a = IF i = k THEN Null ELSE s[i + 1]
    BY <2>0
  <2>2. ASSUME NEW j \in 1..k PROVE d.parent[s[j]] = u
    <3>1. PICK m \in Nodes : s[j] = m
      OBVIOUS
    <3>2. QED
      BY <2>1, <3>1 DEF Chain
  <2>3. (i # 0 => i \in 1..k) /\ (i # k => i + 1 \in 1..k)
    OBVIOUS
  <2>4. QED
    BY <2>1, <2>2, <2>3
<1>2. ASSUME NEW j \in 1..l PROVE r[j] \in Joints /\ r[j] # Null /\ d.parent[r[j]] = n
  <2>1. PICK m \in Nodes : r[j] = m
    OBVIOUS
  <2>2. QED
    BY <2>1, JointsAre DEF Chain, Joints
<1>3. ASSUME NEW j \in 1..l PROVE e.prev[r[j]] = d.prev[r[j]] /\ e.next[r[j]] = d.next[r[j]]
  <2>1. r[j] # c /\ r[j] # b /\ r[j] # a
    BY <1>1, <1>2, JointsAre
  <2>2. QED
    BY <1>2, <2>1 DEF Linked
<1>4. e.first[n] = d.first[n] /\ e.last[n] = d.last[n]
  BY DEF Linked
<1>5. \A m \in Nodes : e.parent[m] = n <=> d.parent[m] = n
  BY JointsAre DEF Linked, Joints
<1>6. ChainKept(d, e, n, r, l)
  BY <1>3, <1>4, <1>5 DEF ChainKept
<1>7. QED
  BY <1>6, ChainFrame
LEMMA UnlinkShape ==
  ASSUME NEW d, Shape(d), NEW c \in Nodes, d.parent[c] # Null, NEW e, e = Unlink(d, c)
  PROVE  /\ Shape(e) /\ SameNodes(d, e) /\ SameLists(d, e)
         /\ \A n \in Nodes : e.parent[n] = IF n = c THEN Null ELSE d.parent[n]
<1>1. d \in Trees /\ Typed(d) /\ Null \notin Joints /\ Nodes \subseteq Joints /\ Null \notin Nodes
  BY TreeMeans, JointsAre DEF Shape, Joints
<1>2. e \in Trees /\ SameNodes(d, e) /\ SameLists(d, e) /\ Unlinked(d, e, c)
  BY <1>1, UnlinkFields
<1>3. \A n \in Nodes : e.parent[n] = IF n = c THEN Null ELSE d.parent[n]
  BY <1>1, <1>2 DEF Unlinked
<1>4. PICK u \in Joints : u = d.parent[c]
  BY <1>1 DEF Typed, Pointers, Joints
<1>5. Chained(e)
  <2> SUFFICES ASSUME NEW n \in Joints
               PROVE  \E k \in Nat : \E s \in [1..k -> Nodes] : Chain(e, n, s, k)
    BY DEF Chained
  <2>1. PICK k \in Nat : \E s \in [1..k -> Nodes] : Chain(d, u, s, k)
    BY DEF Shape, Chained
  <2>2. PICK s \in [1..k -> Nodes] : Chain(d, u, s, k)
    BY <2>1
  <2>3. CASE n = u
    BY <1>1, <1>2, <1>4, <2>2, <2>3, UnlinkedChain
  <2>4. CASE n # u
    <3>1. PICK l \in Nat : \E r \in [1..l -> Nodes] : Chain(d, n, r, l)
      BY DEF Shape, Chained
    <3>2. PICK r \in [1..l -> Nodes] : Chain(d, n, r, l)
      BY <3>1
    <3>3. Chain(e, n, r, l)
      BY <1>1, <1>2, <1>4, <2>2, <2>4, <3>2, UnlinkedOthers
    <3>4. QED
      BY <3>3
  <2>5. QED
    BY <2>3, <2>4
<1>6. Holding(e)
  BY <1>1, <1>2, <1>3 DEF Shape, Holding, Holds, SameNodes
<1>7. Acyclic(e)
  BY <1>1, <1>3 DEF Shape, Acyclic
<1>8. Bare(e)
  BY <1>2 DEF Shape, Bare, SameNodes
<1>9. QED
  BY <1>2, <1>3, <1>5, <1>6, <1>7, <1>8 DEF Shape

(* c may become a child of u when T has c, what is below it, and not u.      *)
LEMMA LinkShape ==
  ASSUME NEW d, Shape(d), NEW u \in Joints, Holds(d, u), NEW c \in Nodes,
         d.kind[c] # "free", d.parent[c] = Null,
         NEW T \in SUBSET Nodes, c \in T, ChildrenOf(d, T) \subseteq T, u \notin T,
         NEW b, NEW a, Between(d, u, b, a), NEW e, e = LinkBetween(d, u, b, c, a)
  PROVE  /\ Shape(e) /\ SameNodes(d, e) /\ SameLists(d, e)
         /\ \A n \in Nodes : e.parent[n] = IF n = c THEN u ELSE d.parent[n]
<1>1. d \in Trees /\ Typed(d) /\ Null \notin Joints /\ Nodes \subseteq Joints /\ Null \notin Nodes
  BY TreeMeans, JointsAre DEF Shape, Joints
<1>2. b \in Nodes \cup {Null} /\ a \in Nodes \cup {Null}
  <2>1. PICK k \in Nat : \E s \in [1..k -> Nodes] : \E i \in 0..k :
          /\ b = IF i = 0 THEN Null ELSE s[i]
          /\ a = IF i = k THEN Null ELSE s[i + 1]
    BY DEF Between
  <2>2. PICK s \in [1..k -> Nodes], i \in 0..k :
          /\ b = IF i = 0 THEN Null ELSE s[i]
          /\ a = IF i = k THEN Null ELSE s[i + 1]
    BY <2>1
  <2>3. (i # 0 => i \in 1..k) /\ (i # k => i + 1 \in 1..k)
    OBVIOUS
  <2>4. QED
    BY <2>2, <2>3
<1>3. e \in Trees /\ SameNodes(d, e) /\ SameLists(d, e) /\ Linked(d, e, u, b, c, a)
  BY <1>1, <1>2, LinkFields
<1>4. \A n \in Nodes : e.parent[n] = IF n = c THEN u ELSE d.parent[n]
  BY <1>1, <1>3 DEF Linked
<1>5. Chained(e)
  <2> SUFFICES ASSUME NEW n \in Joints
               PROVE  \E k \in Nat : \E s \in [1..k -> Nodes] : Chain(e, n, s, k)
    BY DEF Chained
  <2>1. CASE n = u
    BY <1>1, <1>3, <2>1, LinkedChain
  <2>2. CASE n # u
    <3>1. PICK l \in Nat : \E r \in [1..l -> Nodes] : Chain(d, n, r, l)
      BY DEF Shape, Chained
    <3>2. PICK r \in [1..l -> Nodes] : Chain(d, n, r, l)
      BY <3>1
    <3>3. Chain(e, n, r, l)
      BY <1>1, <1>3, <2>2, <3>2, LinkedOthers
    <3>4. QED
      BY <3>3
  <2>3. QED
    BY <2>1, <2>2
<1>6. Holding(e)
  BY <1>1, <1>3, <1>4 DEF Shape, Holding, Holds, SameNodes
<1>7. Acyclic(e)
  <2> SUFFICES ASSUME NEW S \in SUBSET Nodes, S # {}, \A m \in S : e.parent[m] \in S PROVE FALSE
    BY DEF Acyclic
  <2>1. c \in S
    <3> SUFFICES ASSUME c \notin S PROVE FALSE
      OBVIOUS
    <3>1. \A m \in S : d.parent[m] \in S
      BY <1>4
    <3>2. QED
      BY <3>1 DEF Shape, Acyclic
  <2>2. u \in S \ T
    BY <1>4, <2>1
  <2>3. ASSUME NEW m \in S \ T PROVE d.parent[m] \in S \ T
    BY <1>4, <2>3 DEF ChildrenOf
  <2>4. QED
    BY <2>2, <2>3 DEF Shape, Acyclic
<1>8. Bare(e)
  BY <1>3 DEF Shape, Bare, SameNodes
<1>9. QED
  BY <1>3, <1>4, <1>5, <1>6, <1>7, <1>8 DEF Shape

(* Where a child is put: after the last, before the first, after b.          *)
LEMMA Places ==
  ASSUME NEW d, Shape(d), NEW u \in Joints
  PROVE  /\ Between(d, u, d.last[u], Null) /\ Between(d, u, Null, d.first[u])
         /\ \A b \in Nodes : d.parent[b] = u => Between(d, u, b, d.next[b])
<1>1. PICK k \in Nat : \E s \in [1..k -> Nodes] : Chain(d, u, s, k)
  BY DEF Shape, Chained
<1>2. PICK s \in [1..k -> Nodes] : Chain(d, u, s, k)
  BY <1>1
<1>3. /\ d.first[u] = IF k = 0 THEN Null ELSE s[1]
      /\ d.last[u] = IF k = 0 THEN Null ELSE s[k]
  BY <1>2 DEF Chain
<1>4. Between(d, u, d.last[u], Null)
  <2>1. k \in 0..k
    OBVIOUS
  <2>2. QED
    BY <1>2, <1>3, <2>1, Zenon DEF Between
<1>5. Between(d, u, Null, d.first[u])
  <2>1. PICK i \in 0..k : i = 0
    OBVIOUS
  <2>2. d.first[u] = IF i = k THEN Null ELSE s[i + 1]
    BY <1>3, <2>1
  <2>3. QED
    BY <1>2, <2>1, <2>2 DEF Between
<1>6. ASSUME NEW b \in Nodes, d.parent[b] = u PROVE Between(d, u, b, d.next[b])
  <2>1. PICK i \in 1..k : s[i] = b
    BY <1>2, <1>6 DEF Chain
  <2>2. d.next[b] = IF i = k THEN Null ELSE s[i + 1]
    BY <1>2, <2>1 DEF Chain
  <2>3. i \in 0..k /\ i # 0
    OBVIOUS
  <2>4. QED
    BY <1>2, <2>1, <2>2, <2>3 DEF Between
<1>7. QED
  BY <1>4, <1>5, <1>6

LEMMA FirstChild ==
  ASSUME NEW d, Shape(d), NEW u \in Joints
  PROVE  /\ d.first[u] = Null <=> \A m \in Nodes : d.parent[m] # u
         /\ d.first[u] # Null => d.first[u] \in Nodes /\ d.parent[d.first[u]] = u
<1>1. PICK k \in Nat : \E s \in [1..k -> Nodes] : Chain(d, u, s, k)
  BY DEF Shape, Chained
<1>2. PICK s \in [1..k -> Nodes] : Chain(d, u, s, k)
  BY <1>1
<1>3. CASE k = 0
  BY <1>2, <1>3 DEF Chain
<1>4. CASE k # 0
  <2>1. PICK m \in Nodes : m = s[1]
    BY <1>4
  <2>2. 1 \in 1..k
    BY <1>4
  <2>3. d.first[u] = m /\ d.parent[m] = u
    BY <1>2, <1>4, <2>1, <2>2 DEF Chain
  <2>4. QED
    BY <2>3, JointsAre DEF Joints
<1>5. QED
  BY <1>3, <1>4
-----------------------------------------------------------------------------
LEMMA SameShape ==
  ASSUME NEW d, Shape(d), NEW e \in Trees, SameLinks(d, e), SameNodes(d, e)
  PROVE  Shape(e)
<1>1. Chained(e)
  <2>1. \A n, k, s : Chain(d, n, s, k) => Chain(e, n, s, k)
    BY DEF Chain, SameLinks
  <2>2. QED
    BY <2>1 DEF Shape, Chained
<1>2. Holding(e) /\ Acyclic(e) /\ Bare(e)
  BY DEF Shape, Holding, Holds, Acyclic, Bare, SameLinks, SameNodes
<1>3. QED
  BY <1>1, <1>2 DEF Shape

LEMMA OfPoolAdd ==
  ASSUME NEW d, NEW S \in SUBSET Nodes, NEW n \in Nodes, n \notin S, NEW pool
  PROVE  /\ Cardinality(OfPool(d, S, pool)) \in Nat
         /\ Cardinality(OfPool(d, S \cup {n}, pool)) =
              Cardinality(OfPool(d, S, pool)) + IF PoolOf(d.kind[n]) = pool THEN 1 ELSE 0
<1>1. PICK R : R = OfPool(d, S, pool)
  OBVIOUS
<1>2. R \in SUBSET Nodes /\ n \notin R
  BY <1>1 DEF OfPool
<1>3. IsFiniteSet(R) /\ Cardinality(R) \in Nat
  BY <1>2, JointsAre, FS_Subset, FS_CardinalityType
<1>4. OfPool(d, S \cup {n}, pool) = IF PoolOf(d.kind[n]) = pool THEN R \cup {n} ELSE R
  BY <1>1 DEF OfPool
<1>5. Cardinality(R \cup {n}) = Cardinality(R) + 1
  BY <1>2, <1>3, FS_AddElement
<1>6. QED
  BY <1>1, <1>3, <1>4, <1>5

LEMMA OfPoolSame ==
  ASSUME NEW d, NEW e, NEW S, \A n \in S : e.kind[n] = d.kind[n], NEW pool
  PROVE  OfPool(e, S, pool) = OfPool(d, S, pool)
BY DEF OfPool

LEMMA OfPoolLess ==
  ASSUME NEW d, NEW S \in SUBSET Nodes, NEW R \in SUBSET S, NEW pool
  PROVE  /\ Cardinality(OfPool(d, S, pool)) \in Nat /\ Cardinality(OfPool(d, R, pool)) \in Nat
         /\ Cardinality(OfPool(d, S \ R, pool)) =
              Cardinality(OfPool(d, S, pool)) - Cardinality(OfPool(d, R, pool))
         /\ Cardinality(OfPool(d, R, pool)) <= Cardinality(OfPool(d, S, pool))
<1>1. PICK A, B : A = OfPool(d, S, pool) /\ B = OfPool(d, R, pool)
  OBVIOUS
<1>2. A \in SUBSET Nodes /\ B \in SUBSET A /\ OfPool(d, S \ R, pool) = A \ B /\ A \cap B = B
  BY <1>1 DEF OfPool
<1>3. IsFiniteSet(A) /\ IsFiniteSet(B) /\ Cardinality(A) \in Nat /\ Cardinality(B) \in Nat
      /\ Cardinality(B) <= Cardinality(A)
  BY <1>2, JointsAre, FS_Subset, FS_CardinalityType
<1>4. Cardinality(A \ B) = Cardinality(A) - Cardinality(A \cap B)
  BY <1>3, FS_Difference
<1>5. QED
  BY <1>1, <1>2, <1>3, <1>4
-----------------------------------------------------------------------------
(* _unlinked and the pools.                                                 *)
LEMMA SwapRemoved ==
  ASSUME NEW s \in Seq(Nodes), Once(s), NEW h \in 1..Len(s), NEW r, r = SwapRemove(s, h)
  PROVE  /\ r \in Seq(Nodes) /\ Once(r)
         /\ \A m \in Nodes : Has(r, m) <=> m # s[h] /\ Has(s, m)
<1>1. PICK k \in Nat : k = Len(s)
  BY LenProperties
<1>2. k # 0 /\ k \in 1..k /\ k - 1 \in Nat /\ h \in 1..k
  BY <1>1
<1>3. r = [j \in 1..(k - 1) |-> IF j = h THEN s[k] ELSE s[j]]
  BY <1>1, SMT DEF SwapRemove, Last
<1>4. \A j \in 1..(k - 1) : r[j] = IF j = h THEN s[k] ELSE s[j]
  BY <1>3
<1>5. \A j \in 1..k : s[j] \in Nodes
  BY <1>1
<1>6. r \in Seq(Nodes) /\ Len(r) = k - 1
  <2>1. r \in [1..(k - 1) -> Nodes]
    BY <1>2, <1>3, <1>5
  <2>2. QED
    BY <1>2, <2>1, LenProperties, SMT
<1>7. \A i, j \in 1..(k - 1) : r[i] = r[j] => i = j
  BY <1>1, <1>2, <1>4 DEF Once
<1>8. ASSUME NEW m \in Nodes
      PROVE  (\E i \in 1..(k - 1) : r[i] = m) <=> m # s[h] /\ \E i \in 1..k : s[i] = m
  <2>1. ASSUME NEW i \in 1..(k - 1), r[i] = m PROVE m # s[h] /\ \E j \in 1..k : s[j] = m
    BY <1>1, <1>2, <1>4, <2>1 DEF Once
  <2>2. ASSUME m # s[h], NEW i \in 1..k, s[i] = m PROVE \E j \in 1..(k - 1) : r[j] = m
    <3>1. CASE i = k
      <4>1. h \in 1..(k - 1) /\ r[h] = m
        BY <1>2, <1>4, <2>2, <3>1
      <4>2. QED
        BY <4>1
    <3>2. CASE i # k
      <4>1. i \in 1..(k - 1) /\ r[i] = m
        BY <1>2, <1>4, <2>2, <3>2
      <4>2. QED
        BY <4>1
    <3>3. QED
      BY <3>1, <3>2
  <2>3. QED
    BY <2>1, <2>2
<1>9. QED
  BY <1>1, <1>6, <1>7, <1>8 DEF Once, Has

LEMMA MarkInUseFields ==
  ASSUME NEW d \in Trees, NEW S \in SUBSET Nodes, Listed(d, S), NEW n \in Nodes,
         NEW e, e = MarkInUse(d, n)
  PROVE  /\ e \in Trees /\ SameLinks(d, e) /\ SameNodes(d, e)
         /\ e.allocs = d.allocs /\ e.untracked = d.untracked /\ Listed(e, S \ {n})
<1>1. PICK s \in Seq(Nodes) : s = d.unlinked
  BY TreeMeans DEF Typed
<1>2. Once(s) /\ \A m \in Nodes : m \in S <=> Has(s, m)
  BY <1>1 DEF Listed
<1>3. DOMAIN s = 1..Len(s)
  BY LenProperties
<1>4. CASE n \in S
  <2>1. \E i \in DOMAIN s : s[i] = n
    BY <1>2, <1>3, <1>4 DEF Has
  <2>2. PICK h : h = CHOOSE i \in DOMAIN s : s[i] = n
    OBVIOUS
  <2>3. h \in 1..Len(s) /\ s[h] = n
    BY <1>3, <2>1, <2>2
  <2>4. n \in Range(d.unlinked)
    BY <1>1, <2>1 DEF Range
  <2>5. e = [d EXCEPT !.unlinked = SwapRemove(s, h)]
    BY <1>1, <2>2, <2>4, Zenon DEF MarkInUse
  <2>6. PICK r : r = SwapRemove(s, h)
    OBVIOUS
  <2>7. /\ r \in Seq(Nodes) /\ Once(r)
        /\ \A m \in Nodes : Has(r, m) <=> m # s[h] /\ Has(s, m)
    BY <1>2, <2>3, <2>6, SwapRemoved
  <2>8. /\ e \in Trees /\ SameLinks(d, e) /\ SameNodes(d, e) /\ e.unlinked = r
        /\ e.allocs = d.allocs /\ e.untracked = d.untracked
    BY <2>5, <2>6, <2>7, UnlistedFields
  <2>9. Listed(e, S \ {n})
    BY <1>2, <2>3, <2>7, <2>8 DEF Listed
  <2>10. QED
    BY <2>8, <2>9
<1>5. CASE n \notin S
  <2>1. n \notin Range(d.unlinked)
    BY <1>1, <1>2, <1>3, <1>5 DEF Range, Has
  <2>2. e = d /\ S \ {n} = S
    BY <1>5, <2>1 DEF MarkInUse
  <2>3. QED
    BY <2>2 DEF SameLinks, SameNodes
<1>6. QED
  BY <1>4, <1>5

LEMMA SetTrackedFields ==
  ASSUME NEW d \in Trees, NEW n \in Nodes, NEW pool \in Pools, pool = PoolOf(d.kind[n]),
         d.untracked[pool] >= 1, NEW e, e = SetTracked(d, n)
  PROVE  /\ e \in Trees /\ SameLinks(d, e) /\ SameNodes(d, e)
         /\ e.unlinked = d.unlinked /\ e.allocs = d.allocs
         /\ \A x \in Pools : e.untracked[x] = d.untracked[x] - IF x = pool THEN 1 ELSE 0
<1>1. Typed(d) /\ Fields(d)
  BY TreeMeans
<1>2. /\ Fields(e) /\ SameLinks(d, e) /\ SameNodes(d, e)
      /\ e.unlinked = d.unlinked /\ e.allocs = d.allocs
      /\ e.untracked = [d.untracked EXCEPT ![pool] = @ - 1]
  BY <1>1 DEF SetTracked, Fields, SameLinks, SameNodes
<1>3. e.untracked \in [Pools -> Nat]
  BY <1>1, <1>2 DEF Typed
<1>4. Typed(e)
  BY <1>1, <1>2, <1>3 DEF Typed, SameLinks, SameNodes
<1>5. \A x \in Pools : e.untracked[x] = d.untracked[x] - IF x = pool THEN 1 ELSE 0
  BY <1>1, <1>2 DEF Typed
<1>6. QED
  BY <1>2, <1>4, <1>5, TreeMeans
-----------------------------------------------------------------------------
LEMMA SameBooks ==
  ASSUME NEW d, NEW S, Booked(d, S), NEW e, Shape(e), SameNodes(d, e), SameLists(d, e)
  PROVE  Booked(e, S) /\ SameExcess(d, S, e, S) /\ Living(e) = Living(d)
<1>1. Living(e) = Living(d)
  BY DEF Living, SameNodes
<1>2. \A R, pool : OfPool(e, R, pool) = OfPool(d, R, pool)
  BY DEF OfPool, SameNodes
<1>3. Attributes(e, Nodes) = Attributes(d, Nodes)
  BY DEF Attributes, SameNodes
<1>4. Counted(e)
  BY <1>1, <1>2, <1>3 DEF Booked, Counted, SameLists
<1>5. SameExcess(d, S, e, S)
  BY <1>2 DEF SameExcess, Excess, SameLists
<1>6. Listed(e, S)
  BY DEF Booked, Listed, SameLists
<1>7. QED
  BY <1>1, <1>4, <1>5, <1>6 DEF Booked, SameExcess

(* What is counted as untracked, of a node that is in no tree.               *)
LEMMA Untracked ==
  ASSUME NEW d, NEW S \in SUBSET Nodes, Booked(d, S), NEW c \in S
  PROVE  /\ \A x \in Pools : /\ Cardinality(OfPool(d, S \ {c}, x)) \in Nat
                             /\ d.untracked[x] \in Nat
                             /\ Cardinality(OfPool(d, S, x)) = Cardinality(OfPool(d, S \ {c}, x))
                                    + IF PoolOf(d.kind[c]) = x THEN 1 ELSE 0
         /\ PoolOf(d.kind[c]) \in Pools /\ d.untracked[PoolOf(d.kind[c])] >= 1
<1>1. PICK R : R = S \ {c}
  OBVIOUS
<1>2. R \in SUBSET Nodes /\ c \in Nodes /\ c \notin R /\ S = R \cup {c}
  BY <1>1
<1>3. \A x : /\ Cardinality(OfPool(d, R, x)) \in Nat
             /\ Cardinality(OfPool(d, R \cup {c}, x)) =
                  Cardinality(OfPool(d, R, x)) + IF PoolOf(d.kind[c]) = x THEN 1 ELSE 0
  BY <1>2, OfPoolAdd
<1>4. d.untracked \in [Pools -> Nat]
  BY TreeMeans DEF Booked, Shape, Typed
<1>5. PICK pool \in Pools : pool = PoolOf(d.kind[c])
  BY PoolsAre
<1>6. d.untracked[pool] >= 1
  <2>1. d.untracked[pool] - Cardinality(OfPool(d, R \cup {c}, pool)) >= 0
    BY <1>2 DEF Booked, Excess
  <2>2. d.untracked[pool] \in Nat
    BY <1>4
  <2>3. QED
    BY <1>3, <1>5, <2>1, <2>2
<1>7. QED
  BY <1>1, <1>2, <1>3, <1>4, <1>5, <1>6

LEMMA Tracked ==
  ASSUME NEW d, NEW S \in SUBSET Nodes, Booked(d, S), NEW c \in S, NEW f \in Trees,
         SameLinks(d, f), SameNodes(d, f), f.allocs = d.allocs, f.untracked = d.untracked,
         NEW R \in {S, S \ {c}}, Listed(f, R), NEW e, e = SetTracked(f, c)
  PROVE  /\ Shape(e) /\ SameLinks(d, e) /\ SameNodes(d, e) /\ Counted(e) /\ Listed(e, R)
         /\ SameExcess(d, S, e, S \ {c})
         /\ \A pool \in Pools : Excess(e, S \ {c}, pool) >= 0
<1>1. PICK pool \in Pools : pool = PoolOf(d.kind[c]) /\ d.untracked[pool] >= 1
  BY Untracked
<1>2. /\ e \in Trees /\ SameLinks(f, e) /\ SameNodes(f, e)
      /\ e.unlinked = f.unlinked /\ e.allocs = f.allocs
      /\ \A x \in Pools : e.untracked[x] = f.untracked[x] - IF x = pool THEN 1 ELSE 0
  BY <1>1, SetTrackedFields DEF SameNodes
<1>3. SameLinks(d, e) /\ SameNodes(d, e)
  BY <1>2 DEF SameLinks, SameNodes
<1>4. Shape(e)
  BY <1>2, <1>3, SameShape DEF Booked
<1>5. \A Q, x : OfPool(e, Q, x) = OfPool(d, Q, x)
  BY <1>3 DEF OfPool, SameNodes
<1>6. Counted(e)
  <2>1. Living(e) = Living(d) /\ Attributes(e, Nodes) = Attributes(d, Nodes)
    BY <1>3 DEF Living, Attributes, SameNodes
  <2>2. QED
    BY <1>2, <1>5, <2>1 DEF Booked, Counted
<1>7. SameExcess(d, S, e, S \ {c})
  <2> SUFFICES ASSUME NEW x \in Pools PROVE Excess(e, S \ {c}, x) = Excess(d, S, x)
    BY DEF SameExcess
  <2>1. PICK m, n : m = Cardinality(OfPool(d, S \ {c}, x)) /\ n = Cardinality(OfPool(d, S, x))
    OBVIOUS
  <2>2. m \in Nat /\ d.untracked[x] \in Nat /\ n = m + IF pool = x THEN 1 ELSE 0
    BY <1>1, <2>1, Untracked
  <2>3. e.untracked[x] = d.untracked[x] - IF x = pool THEN 1 ELSE 0
    BY <1>2
  <2>4. e.untracked[x] - m = d.untracked[x] - n
    BY <2>2, <2>3
  <2>5. QED
    BY <1>5, <2>1, <2>4 DEF Excess
<1>8. Listed(e, R)
  BY <1>2 DEF Listed
<1>9. QED
  BY <1>3, <1>4, <1>6, <1>7, <1>8 DEF Booked, SameExcess

(* InsertChildPreamble leaves c in no tree and unlisted.                    *)
LEMMA Prepared ==
  ASSUME NEW d, Whole(d), NEW c \in Living(d), NEW e, e = InsertChildPreamble(d, c)
  PROVE  /\ Booked(e, Orphans(d) \ {c}) /\ SameNodes(d, e)
         /\ SameExcess(d, Orphans(d), e, Orphans(d) \ {c})
         /\ \A n \in Nodes : e.parent[n] = IF n = c THEN Null ELSE d.parent[n]
<1>1. /\ c \in Nodes /\ Booked(d, Orphans(d)) /\ Shape(d) /\ d \in Trees
      /\ Orphans(d) \in SUBSET Nodes /\ Orphans(d) \subseteq Living(d)
  BY DEF Whole, Booked, Shape, Living, Orphans
<1>2. CASE d.parent[c] = Null
  <2>1. PICK f : f = MarkInUse(d, c)
    OBVIOUS
  <2>2. c \in Orphans(d) /\ e = SetTracked(f, c)
    BY <1>2, <2>1 DEF Orphans, InsertChildPreamble, Alone
  <2>3. /\ f \in Trees /\ SameLinks(d, f) /\ SameNodes(d, f)
        /\ f.allocs = d.allocs /\ f.untracked = d.untracked /\ Listed(f, Orphans(d) \ {c})
    BY <1>1, <2>1, MarkInUseFields DEF Booked
  <2>4. /\ Shape(e) /\ SameLinks(d, e) /\ SameNodes(d, e) /\ Counted(e)
        /\ Listed(e, Orphans(d) \ {c})
        /\ SameExcess(d, Orphans(d), e, Orphans(d) \ {c})
        /\ \A pool \in Pools : Excess(e, Orphans(d) \ {c}, pool) >= 0
    BY <1>1, <2>2, <2>3, Tracked
  <2>5. Living(e) = Living(d)
    BY <2>4 DEF Living, SameNodes
  <2>6. Booked(e, Orphans(d) \ {c})
    BY <1>1, <2>4, <2>5 DEF Booked
  <2>7. \A n \in Nodes : e.parent[n] = IF n = c THEN Null ELSE d.parent[n]
    BY <1>2, <2>4 DEF SameLinks
  <2>8. QED
    BY <2>4, <2>6, <2>7
<1>3. CASE d.parent[c] # Null
  <2>1. e = Unlink(d, c) /\ Orphans(d) \ {c} = Orphans(d)
    BY <1>3 DEF InsertChildPreamble, Alone, Orphans
  <2>2. /\ Shape(e) /\ SameNodes(d, e) /\ SameLists(d, e)
        /\ \A n \in Nodes : e.parent[n] = IF n = c THEN Null ELSE d.parent[n]
    BY <1>1, <1>3, <2>1, UnlinkShape
  <2>3. Booked(e, Orphans(d)) /\ SameExcess(d, Orphans(d), e, Orphans(d))
    BY <1>1, <2>2, SameBooks
  <2>4. QED
    BY <2>1, <2>2, <2>3
<1>4. QED
  BY <1>2, <1>3

(* The tree after an insertion: c has got the parent u.                      *)
Moved(d, e, u, c) ==
  /\ Whole(e) /\ SameNodes(d, e) /\ Living(e) = Living(d)
  /\ Orphans(e) = Orphans(d) \ {c} /\ SameExcess(d, Orphans(d), e, Orphans(e))
  /\ \A n \in Nodes : e.parent[n] = IF n = c THEN u ELSE d.parent[n]

LEMMA Inserted ==
  ASSUME NEW d, Whole(d), NEW c \in Living(d), NEW u \in Joints, Holds(d, u),
         NEW T \in SUBSET Nodes, c \in T, ChildrenOf(d, T) \subseteq T, u \notin T,
         NEW f, f = InsertChildPreamble(d, c),
         NEW b, NEW a, Between(f, u, b, a), NEW e, e = LinkBetween(f, u, b, c, a)
  PROVE  Moved(d, e, u, c)
<1>1. PICK S : S = Orphans(d) \ {c}
  OBVIOUS
<1>2. /\ Booked(f, S) /\ SameNodes(d, f) /\ SameExcess(d, Orphans(d), f, S)
      /\ \A n \in Nodes : f.parent[n] = IF n = c THEN Null ELSE d.parent[n]
  BY <1>1, Prepared
<1>3. c \in Nodes /\ f.kind[c] # "free" /\ Holds(f, u) /\ f.parent[c] = Null /\ Shape(f)
  BY <1>2 DEF Living, Holds, SameNodes, Booked
<1>4. ChildrenOf(f, T) \subseteq T
  BY <1>2, JointsAre DEF ChildrenOf, Joints
<1>5. /\ Shape(e) /\ SameNodes(f, e) /\ SameLists(f, e)
      /\ \A n \in Nodes : e.parent[n] = IF n = c THEN u ELSE f.parent[n]
  BY <1>3, <1>4, LinkShape
<1>6. Booked(e, S) /\ SameExcess(f, S, e, S)
  BY <1>2, <1>5, SameBooks
<1>7. SameNodes(d, e) /\ Living(e) = Living(d)
  BY <1>2, <1>5 DEF SameNodes, Living
<1>8. \A n \in Nodes : e.parent[n] = IF n = c THEN u ELSE d.parent[n]
  BY <1>2, <1>5
<1>9. Orphans(e) = S
  BY <1>1, <1>7, <1>8, JointsAre DEF Orphans, Living
<1>10. SameExcess(d, Orphans(d), e, S)
  BY <1>2, <1>6 DEF SameExcess
<1>11. QED
  BY <1>1, <1>6, <1>7, <1>8, <1>9, <1>10 DEF Moved, Whole
LEMMA InsertEndChildMoves ==
  ASSUME NEW d, Whole(d), NEW c \in Living(d), NEW u \in Joints, Holds(d, u),
         NEW T \in SUBSET Nodes, c \in T, ChildrenOf(d, T) \subseteq T, u \notin T
  PROVE  Moved(d, InsertEndChild(d, u, c), u, c)
<1>1. PICK f : f = InsertChildPreamble(d, c)
  OBVIOUS
<1>2. Shape(f)
  BY <1>1, Prepared DEF Booked
<1>3. PICK b, a : Between(f, u, b, a) /\ InsertEndChild(d, u, c) = LinkBetween(f, u, b, c, a)
  BY <1>1, <1>2, Places DEF InsertEndChild
<1>4. QED
  BY <1>1, <1>3, Inserted

LEMMA InsertFirstChildMoves ==
  ASSUME NEW d, Whole(d), NEW c \in Living(d), NEW u \in Joints, Holds(d, u),
         NEW T \in SUBSET Nodes, c \in T, ChildrenOf(d, T) \subseteq T, u \notin T
  PROVE  Moved(d, InsertFirstChild(d, u, c), u, c)
<1>1. PICK f : f = InsertChildPreamble(d, c)
  OBVIOUS
<1>2. Shape(f)
  BY <1>1, Prepared DEF Booked
<1>3. PICK b, a : Between(f, u, b, a) /\ InsertFirstChild(d, u, c) = LinkBetween(f, u, b, c, a)
  BY <1>1, <1>2, Places DEF InsertFirstChild
<1>4. QED
  BY <1>1, <1>3, Inserted

LEMMA InsertAfterChildMoves ==
  ASSUME NEW d, Whole(d), NEW c \in Living(d), NEW u \in Joints, Holds(d, u),
         NEW T \in SUBSET Nodes, c \in T, ChildrenOf(d, T) \subseteq T, u \notin T,
         NEW b \in Nodes, d.parent[b] = u, ~InsertAfterFaults(d, b, c)
  PROVE  Moved(d, InsertAfterChild(d, u, b, c), u, c)
<1>1. CASE b = c
  <2>1. InsertAfterChild(d, u, b, c) = d
    BY <1>1 DEF InsertAfterChild
  <2>2. Orphans(d) = Orphans(d) \ {c}
    BY <1>1, JointsAre DEF Orphans
  <2>3. Moved(d, d, u, c)
    BY <1>1, <2>2 DEF Moved, SameNodes, SameExcess
  <2>4. QED
    BY <2>1, <2>3
<1>2. CASE b # c /\ d.next[b] = Null
  BY <1>2, InsertEndChildMoves DEF InsertAfterChild
<1>3. CASE b # c /\ d.next[b] # Null
  <2>1. PICK f : f = InsertChildPreamble(d, c)
    OBVIOUS
  <2>2. Shape(f) /\ f.parent[b] = u
    <3>1. /\ Booked(f, Orphans(d) \ {c})
          /\ \A n \in Nodes : f.parent[n] = IF n = c THEN Null ELSE d.parent[n]
      BY <2>1, Prepared
    <3>2. QED
      BY <1>3, <3>1 DEF Booked
  <2>3. PICK a : a = f.next[b] /\ Between(f, u, b, a)
    BY <2>2, Places
  <2>4. InsertAfterChild(d, u, b, c) = LinkBetween(f, u, b, c, a)
    BY <1>3, <2>1, <2>3 DEF InsertAfterChild
  <2>5. QED
    BY <2>1, <2>3, <2>4, Inserted
<1>4. QED
  BY <1>1, <1>2, <1>3

(* The tree after n was allocated.                                          *)
Created(d, e, n) ==
  /\ Whole(e) /\ n \in Nodes /\ n \notin Living(d)
  /\ SameLinks(d, e) /\ Living(e) = Living(d) \cup {n}
  /\ \A m \in Nodes \ {n} : e.kind[m] = d.kind[m]
  /\ Orphans(e) = Orphans(d) \cup {n} /\ SameExcess(d, Orphans(d), e, Orphans(e))
  /\ ChildrenOf(e, {n}) = {}

LEMMA Creates ==
  ASSUME NEW d, Whole(d), Free(d) # {}, NEW kind \in Kinds, NEW name \in Names \cup {Null},
         NEW e, e = CreateUnlinkedNode(d, kind, name), NEW n, n = Fresh(d)
  PROVE  Created(d, e, n) /\ e.kind[n] = kind
<1>1. n \in Nodes /\ d.kind[n] = "free"
  BY FreshIsFree
<1>2. Shape(d) /\ d \in Trees /\ Typed(d) /\ Booked(d, Orphans(d))
  BY TreeMeans DEF Whole, Booked, Shape
<1>3. /\ e \in Trees /\ SameLinks(d, e)
      /\ e.kind = [d.kind EXCEPT ![n] = kind] /\ e.attrs = d.attrs
      /\ e.unlinked = Append(d.unlinked, n)
      /\ e.allocs = [d.allocs EXCEPT ![PoolOf(kind)] = @ + 1]
      /\ e.untracked = [d.untracked EXCEPT ![PoolOf(kind)] = @ + 1]
  BY <1>2, CreateFields
<1>4. PICK pool \in NodePools : pool = PoolOf(kind) /\ pool \in Pools
  BY PoolsAre
<1>5. /\ e.kind[n] = kind /\ kind # "free" /\ \A m \in Nodes \ {n} : e.kind[m] = d.kind[m]
      /\ \A x \in Pools : /\ e.allocs[x] = d.allocs[x] + IF x = pool THEN 1 ELSE 0
                          /\ e.untracked[x] = d.untracked[x] + IF x = pool THEN 1 ELSE 0
                          /\ d.allocs[x] \in Nat /\ d.untracked[x] \in Nat
  BY <1>1, <1>2, <1>3, <1>4 DEF Typed, Kinds
<1>6. \A m \in Nodes : d.parent[m] # n
  BY <1>1, <1>2, JointsAre DEF Shape, Holding, Holds, Joints
<1>7. d.parent[n] = Null
  BY <1>1, <1>2 DEF Shape, Holding
<1>8. n \notin Living(d) /\ n \notin Orphans(d) /\ Living(d) \in SUBSET Nodes
      /\ Orphans(d) \in SUBSET Nodes
  BY <1>1 DEF Living, Orphans
<1>9. Living(e) = Living(d) \cup {n} /\ Orphans(e) = Orphans(d) \cup {n}
  BY <1>1, <1>3, <1>5, <1>7 DEF Living, Orphans, SameLinks
<1>10. ChildrenOf(e, {n}) = {}
  BY <1>3, <1>6 DEF ChildrenOf, SameLinks
<1>11. Shape(e)
  <2>1. Chained(e)
    <3>1. \A m, k, s : Chain(d, m, s, k) => Chain(e, m, s, k)
      BY <1>3 DEF Chain, SameLinks
    <3>2. QED
      BY <1>2, <3>1 DEF Shape, Chained
  <2>2. Holding(e)
    BY <1>1, <1>2, <1>3, <1>5, <1>6, <1>7 DEF Shape, Holding, Holds, SameLinks
  <2>3. Acyclic(e)
    BY <1>2, <1>3 DEF Shape, Acyclic, SameLinks
  <2>4. Bare(e)
    BY <1>2, <1>3, <1>5 DEF Shape, Bare
  <2>5. QED
    BY <1>3, <2>1, <2>2, <2>3, <2>4 DEF Shape
<1>12. ASSUME NEW S \in SUBSET Nodes, n \notin S, NEW x
       PROVE  /\ Cardinality(OfPool(d, S, x)) \in Nat
              /\ Cardinality(OfPool(e, S \cup {n}, x)) =
                   Cardinality(OfPool(d, S, x)) + IF x = pool THEN 1 ELSE 0
  <2>1. OfPool(e, S, x) = OfPool(d, S, x)
    BY <1>5, <1>12, OfPoolSame
  <2>2. /\ Cardinality(OfPool(e, S, x)) \in Nat
        /\ Cardinality(OfPool(e, S \cup {n}, x)) =
             Cardinality(OfPool(e, S, x)) + IF PoolOf(e.kind[n]) = x THEN 1 ELSE 0
    BY <1>1, <1>12, OfPoolAdd
  <2>3. QED
    BY <1>4, <1>5, <2>1, <2>2
<1>13. Counted(e)
  <2>1. ASSUME NEW x \in NodePools PROVE e.allocs[x] = Cardinality(OfPool(e, Living(e), x))
    <3>1. d.allocs[x] = Cardinality(OfPool(d, Living(d), x)) /\ x \in Pools
      BY <1>2, PoolsAre DEF Booked, Counted
    <3>2. Cardinality(OfPool(e, Living(d) \cup {n}, x)) =
            Cardinality(OfPool(d, Living(d), x)) + IF x = pool THEN 1 ELSE 0
      BY <1>8, <1>12
    <3>3. QED
      BY <1>5, <1>9, <3>1, <3>2
  <2>2. e.allocs["attribute"] = d.allocs["attribute"] /\ Attributes(e, Nodes) = Attributes(d, Nodes)
    BY <1>3, <1>5, PoolsAre DEF Attributes
  <2>3. QED
    BY <1>2, <2>1, <2>2 DEF Booked, Counted
<1>14. SameExcess(d, Orphans(d), e, Orphans(e))
  <2> SUFFICES ASSUME NEW x \in Pools PROVE Excess(e, Orphans(e), x) = Excess(d, Orphans(d), x)
    BY DEF SameExcess
  <2>1. PICK m, k : m = Cardinality(OfPool(d, Orphans(d), x)) /\ k = Cardinality(OfPool(e, Orphans(e), x))
    OBVIOUS
  <2>2. m \in Nat /\ k = m + IF x = pool THEN 1 ELSE 0
    BY <1>8, <1>9, <1>12, <2>1
  <2>3. e.untracked[x] - k = d.untracked[x] - m
    BY <1>5, <2>2
  <2>4. QED
    BY <2>1, <2>3 DEF Excess
<1>15. Listed(e, Orphans(e))
  <2>1. PICK s \in Seq(Nodes) : s = d.unlinked
    BY <1>2 DEF Typed
  <2>2. PICK r : r = Append(s, n) /\ r = e.unlinked
    BY <1>3, <2>1
  <2>3. Len(r) = Len(s) + 1 /\ Len(s) \in Nat /\ r[Len(s) + 1] = n
        /\ \A i \in 1..Len(s) : r[i] = s[i]
    <3>1. PICK x : x = Append(s, n)
      OBVIOUS
    <3>2. Len(x) = Len(s) + 1 /\ Len(s) \in Nat /\ x[Len(s) + 1] = n
          /\ \A i \in 1..Len(s) : x[i] = s[i]
      BY <1>1, <3>1
    <3>3. QED
      BY <2>2, <3>1, <3>2
  <2>4. Once(s) /\ \A m \in Nodes : m \in Orphans(d) <=> Has(s, m)
    BY <1>2, <2>1 DEF Booked, Listed
  <2>5. \A i \in 1..Len(s) : s[i] # n
    BY <1>1, <1>8, <2>4 DEF Has
  <2>6. Once(r)
    BY <2>3, <2>4, <2>5 DEF Once
  <2>7. \A m \in Nodes : Has(r, m) <=> m = n \/ Has(s, m)
    <3> SUFFICES ASSUME NEW m \in Nodes PROVE Has(r, m) <=> m = n \/ Has(s, m)
      OBVIOUS
    <3>1. Has(r, m) => m = n \/ Has(s, m)
      BY <2>3 DEF Has
    <3>2. Len(s) + 1 \in 1..Len(r) /\ \A i \in 1..Len(s) : i \in 1..Len(r)
      BY <2>3
    <3>3. m = n \/ Has(s, m) => Has(r, m)
      BY <2>3, <3>2 DEF Has
    <3>4. QED
      BY <3>1, <3>3
  <2>8. QED
    BY <1>9, <2>2, <2>4, <2>6, <2>7 DEF Listed
<1>16. Whole(e)
  BY <1>2, <1>8, <1>9, <1>11, <1>13, <1>14, <1>15 DEF Whole, Booked, SameExcess
<1>17. QED
  BY <1>1, <1>3, <1>5, <1>8, <1>9, <1>10, <1>14, <1>16 DEF Created
-----------------------------------------------------------------------------
(* Deleting.                                                                *)
Below(S, k) == {n \in S : n <= k}

LEMMA BelowAre ==
  ASSUME NEW S \in SUBSET Nodes
  PROVE  /\ Below(S, 0) = {} /\ Below(S, MaxNodes) = S
         /\ \A k \in Nat : Below(S, k + 1) = IF k + 1 \in S THEN Below(S, k) \cup {k + 1}
                                             ELSE Below(S, k)
<1>1. \A n \in S : n \in Nat /\ n >= 1 /\ n <= MaxNodes
  BY TreeAssumption DEF Nodes
<1>2. Below(S, 0) = {} /\ Below(S, MaxNodes) = S
  BY <1>1 DEF Below
<1>3. ASSUME NEW k \in Nat, NEW j, j = k + 1
      PROVE  Below(S, j) = IF j \in S THEN Below(S, k) \cup {j} ELSE Below(S, k)
  <2>1. \A n \in S : n <= j <=> n = j \/ n <= k
    BY <1>1, <1>3
  <2>2. j <= j
    BY <1>3
  <2>3. QED
    BY <2>1, <2>2 DEF Below
<1>4. QED
  BY <1>2, <1>3

LEMMA AttributesFinite ==
  ASSUME NEW d, d.attrs \in [Nodes -> Seq(AttrNames)], NEW S \in SUBSET Nodes
  PROVE  IsFiniteSet(Attributes(d, S)) /\ Cardinality(Attributes(d, S)) \in Nat
<1> DEFINE K == {k \in Nat : IsFiniteSet(Attributes(d, Below(S, k)))}
<1>1. MaxNodes \in Nat
  BY TreeAssumption
<1>2. 0 \in K
  <2>1. Below(S, 0) = {}
    BY BelowAre
  <2>2. Attributes(d, {}) = {}
    BY DEF Attributes
  <2>3. QED
    BY <2>1, <2>2, FS_EmptySet
<1>3. ASSUME NEW k \in Nat, k \in K PROVE k + 1 \in K
  <2>1. PICK A : A = Attributes(d, Below(S, k)) /\ IsFiniteSet(A)
    BY <1>3
  <2>2. CASE k + 1 \in S
    <3>1. PICK n : n = k + 1
      OBVIOUS
    <3>2. Below(S, k + 1) = Below(S, k) \cup {n}
      BY <2>2, <3>1, BelowAre
    <3>3. Attributes(d, Below(S, k + 1)) = A \cup ({n} \X DOMAIN d.attrs[n])
      BY <2>1, <3>2 DEF Attributes
    <3>4. IsFiniteSet(DOMAIN d.attrs[n])
      <4>1. PICK s \in Seq(AttrNames) : s = d.attrs[n]
        BY <2>2, <3>1
      <4>2. DOMAIN s = 1..Len(s) /\ Len(s) \in Nat
        BY <4>1, LenProperties
      <4>3. IsFiniteSet(1..Len(s))
        BY <4>2, FS_Interval
      <4>4. QED
        BY <4>1, <4>2, <4>3
    <3>5. IsFiniteSet({n} \X DOMAIN d.attrs[n])
      BY <3>4, FS_Singleton, FS_Product
    <3>6. IsFiniteSet(Attributes(d, Below(S, k + 1)))
      <4>1. PICK B : B = {n} \X DOMAIN d.attrs[n] /\ IsFiniteSet(B)
        BY <3>5
      <4>2. IsFiniteSet(A \cup B)
        BY <2>1, <4>1, FS_Union
      <4>3. QED
        BY <3>3, <4>1, <4>2
    <3>7. QED
      BY <3>6
  <2>3. CASE k + 1 \notin S
    <3>1. Below(S, k + 1) = Below(S, k)
      BY <2>3, BelowAre
    <3>2. QED
      BY <1>3, <3>1
  <2>4. QED
    BY <2>2, <2>3
<1>4. MaxNodes \in K
  <2> HIDE DEF K
  <2>1. QED
    BY <1>1, <1>2, <1>3, AllNaturals
<1>5. Below(S, MaxNodes) = S
  BY BelowAre
<1>6. QED
  BY <1>4, <1>5, FS_CardinalityType

Stripped(d, e, S) == \A n \in Nodes : e.attrs[n] = IF n \in S THEN <<>> ELSE d.attrs[n]

LEMMA AttributesLess ==
  ASSUME NEW d, d.attrs \in [Nodes -> Seq(AttrNames)], NEW S \in SUBSET Nodes,
         NEW e, Stripped(d, e, S)
  PROVE  Cardinality(Attributes(e, Nodes)) =
           Cardinality(Attributes(d, Nodes)) - Cardinality(Attributes(d, S))
<1>1. PICK A, B : A = Attributes(d, Nodes) /\ B = Attributes(d, S)
  OBVIOUS
<1>2. IsFiniteSet(A) /\ IsFiniteSet(B)
  BY <1>1, AttributesFinite
<1>3. A \cap B = B
  BY <1>1 DEF Attributes
<1>4. Attributes(e, Nodes) = A \ B
  <2>1. DOMAIN <<>> = {}
    OBVIOUS
  <2>2. ASSUME NEW x PROVE x \in Attributes(e, Nodes) <=> x \in A \ B
    <3>1. x \in Attributes(e, Nodes) <=> \E n \in Nodes : x \in {n} \X DOMAIN e.attrs[n]
      BY DEF Attributes
    <3>2. /\ x \in A <=> \E n \in Nodes : x \in {n} \X DOMAIN d.attrs[n]
          /\ x \in B <=> \E n \in S : x \in {n} \X DOMAIN d.attrs[n]
      BY <1>1 DEF Attributes
    <3>3. \A n \in Nodes : x \in {n} \X DOMAIN e.attrs[n]
                             <=> n \notin S /\ x \in {n} \X DOMAIN d.attrs[n]
      BY <2>1 DEF Stripped
    <3>4. \A m, n : x \in {m} \X DOMAIN d.attrs[m] /\ x \in {n} \X DOMAIN d.attrs[n] => m = n
      OBVIOUS
    <3>5. QED
      BY <3>1, <3>2, <3>3, <3>4
  <2>3. QED
    BY <2>2
<1>5. Cardinality(A \ B) = Cardinality(A) - Cardinality(A \cap B)
  BY <1>2, FS_Difference
<1>6. QED
  BY <1>1, <1>3, <1>4, <1>5

(* The nodes of S are gone, and the nodes of U have no children.             *)
Emptied(d, e, S, U) ==
  /\ Stripped(d, e, S)
  /\ \A n \in Nodes : /\ e.kind[n] = IF n \in S THEN "free" ELSE d.kind[n]
                      /\ e.name[n] = IF n \in S THEN Null ELSE d.name[n]
  /\ \A n \in Joints :
       /\ e.parent[n] = IF n \in S THEN Null ELSE d.parent[n]
       /\ e.prev[n] = IF n \in S THEN Null ELSE d.prev[n]
       /\ e.next[n] = IF n \in S THEN Null ELSE d.next[n]
       /\ e.first[n] = IF n \in S \cup U THEN Null ELSE d.first[n]
       /\ e.last[n] = IF n \in S \cup U THEN Null ELSE d.last[n]

LEMMA ReleaseFields ==
  ASSUME NEW d \in Trees, Counted(d), NEW S \in SUBSET Living(d), NEW e, e = Release(d, S)
  PROVE  /\ e \in Trees /\ Emptied(d, e, S, {}) /\ Counted(e)
         /\ e.unlinked = d.unlinked /\ e.untracked = d.untracked
<1> DEFINE Without(f) == [n \in Joints |-> IF n \in S THEN Null ELSE f[n]]
           Gone(x) == Cardinality(IF x = "attribute" THEN Attributes(d, S) ELSE OfPool(d, S, x))
<1>1. /\ Typed(d) /\ Fields(d) /\ S \in SUBSET Nodes /\ Living(d) \in SUBSET Nodes
      /\ Nodes \subseteq Joints /\ Null \notin Joints
  BY TreeMeans, JointsAre DEF Living, Joints
<1>2. /\ DOMAIN d.parent = Joints /\ DOMAIN d.prev = Joints /\ DOMAIN d.next = Joints
      /\ DOMAIN d.first = Joints /\ DOMAIN d.last = Joints /\ DOMAIN d.name = Nodes
  BY <1>1 DEF Typed, Pointers, Joints
<1>3. /\ Fields(e) /\ e.unlinked = d.unlinked /\ e.untracked = d.untracked
      /\ e.kind = [n \in Nodes |-> IF n \in S THEN "free" ELSE d.kind[n]]
      /\ e.attrs = [n \in Nodes |-> IF n \in S THEN <<>> ELSE d.attrs[n]]
      /\ e.name = [n \in Nodes |-> IF n \in S THEN Null ELSE d.name[n]]
  BY <1>1, <1>2 DEF Release, Fields
<1>4. /\ e.parent = Without(d.parent) /\ e.prev = Without(d.prev) /\ e.next = Without(d.next)
      /\ e.first = Without(d.first) /\ e.last = Without(d.last)
  BY <1>1, <1>2 DEF Release, Fields
<1>5. e.allocs = [x \in Pools |-> d.allocs[x] - Gone(x)]
  BY <1>1 DEF Release, Fields
<1>6. Emptied(d, e, S, {})
  BY <1>3, <1>4 DEF Emptied, Stripped
<1>7. Living(e) = Living(d) \ S
  BY <1>3 DEF Living
<1>8. \A x \in NodePools : /\ x \in Pools /\ Gone(x) = Cardinality(OfPool(d, S, x))
                           /\ e.allocs[x] = d.allocs[x] - Gone(x) /\ Gone(x) \in Nat
                           /\ d.allocs[x] = Cardinality(OfPool(d, Living(d), x))
                           /\ e.allocs[x] = Cardinality(OfPool(d, Living(d) \ S, x))
                           /\ e.allocs[x] \in Nat
  <2> SUFFICES ASSUME NEW x \in NodePools
      PROVE  /\ x \in Pools /\ Gone(x) = Cardinality(OfPool(d, S, x))
             /\ e.allocs[x] = d.allocs[x] - Gone(x) /\ Gone(x) \in Nat
             /\ d.allocs[x] = Cardinality(OfPool(d, Living(d), x))
             /\ e.allocs[x] = Cardinality(OfPool(d, Living(d) \ S, x))
             /\ e.allocs[x] \in Nat
    OBVIOUS
  <2>1. x \in Pools /\ x # "attribute"
    BY PoolsAre
  <2>2. d.allocs[x] = Cardinality(OfPool(d, Living(d), x))
    BY DEF Counted
  <2>3. Gone(x) = Cardinality(OfPool(d, S, x)) /\ e.allocs[x] = d.allocs[x] - Gone(x)
    BY <1>5, <2>1
  <2>4. /\ Cardinality(OfPool(d, Living(d), x)) \in Nat /\ Cardinality(OfPool(d, S, x)) \in Nat
        /\ Cardinality(OfPool(d, Living(d) \ S, x)) =
             Cardinality(OfPool(d, Living(d), x)) - Cardinality(OfPool(d, S, x))
    BY <1>1, OfPoolLess
  <2>5. Cardinality(OfPool(d, Living(d) \ S, x)) \in Nat
    BY <1>1, OfPoolLess
  <2> HIDE DEF Gone
  <2>6. QED
    BY <2>1, <2>2, <2>3, <2>4, <2>5
<1>9. /\ e.allocs["attribute"] = Cardinality(Attributes(e, Nodes))
      /\ e.allocs["attribute"] \in Nat
  <2>1. e.allocs["attribute"] = d.allocs["attribute"] - Cardinality(Attributes(d, S))
    BY <1>5, PoolsAre
  <2>2. d.attrs \in [Nodes -> Seq(AttrNames)] /\ e.attrs \in [Nodes -> Seq(AttrNames)]
    BY <1>1, <1>3 DEF Typed
  <2>3. Cardinality(Attributes(e, Nodes)) =
          Cardinality(Attributes(d, Nodes)) - Cardinality(Attributes(d, S))
    BY <1>1, <1>6, <2>2, AttributesLess DEF Emptied
  <2>4. Cardinality(Attributes(e, Nodes)) \in Nat
    BY <2>2, AttributesFinite
  <2>5. QED
    BY <2>1, <2>3, <2>4 DEF Counted
<1>10. Counted(e)
  <2>1. ASSUME NEW x \in NodePools PROVE e.allocs[x] = Cardinality(OfPool(e, Living(e), x))
    <3>1. OfPool(e, Living(d) \ S, x) = OfPool(d, Living(d) \ S, x)
      BY <1>1, <1>3, OfPoolSame
    <3>2. QED
      BY <1>7, <1>8, <3>1
  <2>2. QED
    BY <1>9, <2>1 DEF Counted
<1>11. Typed(e)
  <2>1. e.allocs \in [Pools -> Nat]
    <3>1. \A x \in Pools : e.allocs[x] \in Nat
      BY <1>8, <1>9, PoolsAre
    <3> HIDE DEF Gone
    <3>2. QED
      BY <1>5, <3>1
  <2>2. e.parent \in Pointers /\ e.prev \in Pointers /\ e.next \in Pointers
    BY <1>1, <1>4 DEF Typed, Pointers, Joints
  <2>3. e.first \in Pointers /\ e.last \in Pointers
    BY <1>1, <1>4 DEF Typed, Pointers, Joints
  <2>4. e.kind \in [Nodes -> Kinds \cup {"free"}] /\ e.name \in [Nodes -> Names \cup {Null}]
    BY <1>1, <1>3 DEF Typed
  <2>5. e.attrs \in [Nodes -> Seq(AttrNames)]
    BY <1>1, <1>3 DEF Typed
  <2>6. QED
    BY <1>1, <1>3, <2>1, <2>2, <2>3, <2>4, <2>5 DEF Typed
<1>12. QED
  BY <1>3, <1>6, <1>10, <1>11, TreeMeans
Childless(f, e, u) ==
  /\ SameNodes(f, e) /\ SameLists(f, e)
  /\ e.parent = f.parent /\ e.prev = f.prev /\ e.next = f.next
  /\ \A n \in Joints : /\ e.first[n] = IF n = u THEN Null ELSE f.first[n]
                       /\ e.last[n] = IF n = u THEN Null ELSE f.last[n]

LEMMA ChildlessFields ==
  ASSUME NEW f \in Trees, NEW u \in Joints, NEW e,
         e = [f EXCEPT !.first[u] = Null, !.last[u] = Null]
  PROVE  e \in Trees /\ Childless(f, e, u)
<1>1. Typed(f) /\ Fields(f)
  BY TreeMeans
<1>2. /\ Fields(e) /\ SameNodes(f, e) /\ SameLists(f, e)
      /\ e.parent = f.parent /\ e.prev = f.prev /\ e.next = f.next
      /\ e.first = [f.first EXCEPT ![u] = Null] /\ e.last = [f.last EXCEPT ![u] = Null]
  BY <1>1 DEF Fields, SameNodes, SameLists
<1>3. \A n \in Joints : /\ e.first[n] = IF n = u THEN Null ELSE f.first[n]
                        /\ e.last[n] = IF n = u THEN Null ELSE f.last[n]
  BY <1>1, <1>2 DEF Typed, Pointers, Joints
<1>4. e.first \in Pointers /\ e.last \in Pointers
  BY <1>1, <1>2 DEF Typed, Pointers, Joints
<1>5. Typed(e)
  BY <1>1, <1>2, <1>4 DEF Typed, SameNodes, SameLists
<1>6. QED
  BY <1>2, <1>3, <1>5, TreeMeans DEF Childless

(* The nodes of S are all that is below S and U.                             *)
AllUnder(d, S, U) ==
  /\ S \in SUBSET Nodes /\ U \in SUBSET Joints /\ ChildrenOf(d, S \cup U) \subseteq S
  /\ \A m \in S : d.parent[m] \in S \cup U \cup {Null}

LEMMA EmptiedShape ==
  ASSUME NEW d, Shape(d), NEW S, NEW U, AllUnder(d, S, U), NEW e \in Trees, Emptied(d, e, S, U)
  PROVE  Shape(e)
<1> USE DEF AllUnder
<1>1. Null \notin Joints /\ Nodes \subseteq Joints /\ Null \notin Nodes
  BY JointsAre DEF Joints
<1>2. \A m \in Nodes : e.parent[m] = IF m \in S THEN Null ELSE d.parent[m]
  BY <1>1 DEF Emptied
<1>3. Chained(e)
  <2> SUFFICES ASSUME NEW n \in Joints
               PROVE  \E k \in Nat : \E s \in [1..k -> Nodes] : Chain(e, n, s, k)
    BY DEF Chained
  <2>1. CASE n \in S \cup U
    <3>1. \A m \in Nodes : e.parent[m] # n
      BY <1>1, <1>2, <2>1 DEF ChildrenOf
    <3>2. e.first[n] = Null /\ e.last[n] = Null
      BY <2>1 DEF Emptied
    <3>3. PICK k \in Nat : k = 0
      OBVIOUS
    <3>4. PICK s : s = [i \in 1..k |-> 0]
      OBVIOUS
    <3>7. 1..k = {} /\ s \in [1..k -> Nodes]
      BY <3>3, <3>4
    <3>5. Chain(e, n, s, k)
      BY <3>1, <3>2, <3>3, <3>7 DEF Chain
    <3>6. QED
      BY <3>5, <3>7
  <2>2. CASE n \notin S \cup U
    <3>1. PICK k \in Nat : \E s \in [1..k -> Nodes] : Chain(d, n, s, k)
      BY DEF Shape, Chained
    <3>2. PICK s \in [1..k -> Nodes] : Chain(d, n, s, k)
      BY <3>1
    <3>3. \A m \in Nodes : e.parent[m] = n <=> d.parent[m] = n
      BY <1>1, <1>2, <2>2
    <3>4. ASSUME NEW i \in 1..k
          PROVE  e.prev[s[i]] = d.prev[s[i]] /\ e.next[s[i]] = d.next[s[i]]
      <4>1. PICK m \in Nodes : m = s[i]
        OBVIOUS
      <4>2. d.parent[m] = n /\ m \in Joints
        BY <1>1, <3>2, <4>1 DEF Chain
      <4>3. m \notin S
        BY <1>1, <2>2, <4>2
      <4>4. QED
        BY <4>1, <4>2, <4>3 DEF Emptied
    <3>5. e.first[n] = d.first[n] /\ e.last[n] = d.last[n]
      BY <2>2 DEF Emptied
    <3>6. ChainKept(d, e, n, s, k)
      BY <3>3, <3>4, <3>5 DEF ChainKept
    <3>7. Chain(e, n, s, k)
      BY <3>2, <3>6, ChainFrame
    <3>8. QED
      BY <3>7
  <2>3. QED
    BY <2>1, <2>2
<1>4. Holding(e)
  <2> SUFFICES ASSUME NEW m \in Nodes, e.parent[m] # Null
               PROVE  e.kind[m] # "free" /\ Holds(e, e.parent[m])
    BY DEF Holding
  <2>1. m \notin S /\ e.parent[m] = d.parent[m] /\ d.kind[m] # "free" /\ Holds(d, d.parent[m])
    BY <1>2 DEF Shape, Holding
  <2>2. d.parent[m] \notin S
    BY <2>1 DEF ChildrenOf
  <2>3. QED
    BY <2>1, <2>2 DEF Emptied, Holds
<1>5. Acyclic(e)
  BY <1>1, <1>2 DEF Shape, Acyclic
<1>6. Bare(e)
  BY DEF Shape, Bare, Emptied, Stripped
<1>7. QED
  BY <1>3, <1>4, <1>5, <1>6 DEF Shape

(* The nodes below n, none of which is n.                                   *)
AllBelow(d, n, S) ==
  /\ S \in SUBSET Living(d) /\ n \notin S /\ ChildrenOf(d, S \cup {n}) \subseteq S
  /\ \A m \in S : d.parent[m] \in S \cup {n} /\ d.parent[m] # Null

LEMMA BelowNode ==
  ASSUME NEW d, Shape(d), NEW n \in Joints, NEW S, S = Subtree(d, n) \ {n}
  PROVE  AllBelow(d, n, S)
<1>1. PICK T : T = Subtree(d, n)
  OBVIOUS
<1>2. n \in T /\ S = T \ {n} /\ T = S \cup {n} /\ ChildrenOf(d, T) \subseteq T
      /\ \A m \in S : m \in Nodes /\ d.parent[m] \in T
  BY <1>1, SubtreeUnder DEF Under
<1>3. Null \notin Joints /\ Nodes \subseteq Joints
  BY JointsAre DEF Joints
<1>4. \A m \in S : d.parent[m] # Null
  BY <1>2, <1>3
<1>5. S \in SUBSET Living(d)
  BY <1>2, <1>4 DEF Shape, Holding, Living
<1>6. n \notin ChildrenOf(d, T)
  <2> SUFFICES ASSUME n \in Nodes, d.parent[n] \in T PROVE FALSE
    BY DEF ChildrenOf
  <2>1. T \in SUBSET Nodes /\ T # {} /\ \A m \in T : d.parent[m] \in T
    BY <1>2
  <2>2. QED
    BY <2>1 DEF Shape, Acyclic
<1>7. QED
  BY <1>2, <1>4, <1>5, <1>6 DEF AllBelow

(* The tree after a deletion.                                               *)
Remains(d, e) ==
  /\ Living(e) \subseteq Living(d)
  /\ \A m \in Living(e) : e.kind[m] = d.kind[m] /\ e.parent[m] = d.parent[m]

LEMMA EmptiedRemains ==
  ASSUME NEW d, NEW e, NEW S, NEW U, S \in SUBSET Nodes, Emptied(d, e, S, U)
  PROVE  Remains(d, e) /\ Living(e) = Living(d) \ S /\ Orphans(e) = Orphans(d) \ S
<1>1. /\ \A n \in Nodes : e.kind[n] = IF n \in S THEN "free" ELSE d.kind[n]
      /\ \A n \in Nodes : e.parent[n] = IF n \in S THEN Null ELSE d.parent[n]
  BY JointsAre DEF Emptied, Joints
<1>2. QED
  BY <1>1 DEF Remains, Living, Orphans

Cut(d, e, n) == Emptied(d, e, Subtree(d, n), {})

LEMMA DeletesAlone ==
  ASSUME NEW d, Shape(d), Counted(d), NEW S \in SUBSET Nodes, Listed(d, S),
         NEW n \in Living(d), d.parent[n] = Null, S \ {n} = Orphans(d) \ {n},
         \A x \in Pools : Excess(d, S \ {n}, x) >= 0,
         NEW e, e = DeleteAlone(d, n)
  PROVE  /\ Whole(e) /\ Remains(d, e) /\ Orphans(e) = Orphans(d) \ {n}
         /\ SameExcess(d, S \ {n}, e, Orphans(e)) /\ Cut(d, e, n)
<1>1. n \in Nodes /\ n \in Joints /\ d \in Trees /\ Null \notin Joints
  BY JointsAre DEF Living, Joints, Shape
<1>2. PICK f : f = MarkInUse(d, n)
  OBVIOUS
<1>3. /\ f \in Trees /\ SameLinks(d, f) /\ SameNodes(d, f)
      /\ f.allocs = d.allocs /\ f.untracked = d.untracked /\ Listed(f, S \ {n})
  BY <1>1, <1>2, MarkInUseFields
<1>4. Shape(f)
  BY <1>3, SameShape
<1>5. PICK T : T = Subtree(d, n) \ {n}
  OBVIOUS
<1>6. /\ T \in SUBSET Living(d) /\ n \notin T /\ ChildrenOf(d, T \cup {n}) \subseteq T
      /\ \A m \in T : d.parent[m] \in T \cup {n} /\ d.parent[m] # Null
  <2>1. AllBelow(d, n, T)
    BY <1>1, <1>5, BelowNode
  <2>2. QED
    BY <2>1 DEF AllBelow
<1>7. PICK R : R = T \cup {n}
  OBVIOUS
<1>8. R = Subtree(d, n)
  BY <1>1, <1>5, <1>7, SubtreeUnder DEF Under
<1>9. e = Release(f, R)
  BY <1>2, <1>8 DEF DeleteAlone
<1>10. Living(f) = Living(d) /\ Orphans(f) = Orphans(d) /\ ChildrenOf(f, R) \subseteq R
       /\ R \in SUBSET Nodes /\ R \in SUBSET Living(f)
  BY <1>3, <1>6, <1>7 DEF Living, Orphans, ChildrenOf, SameLinks, SameNodes
<1>11. Counted(f)
  <2>1. \A Q, x : OfPool(f, Q, x) = OfPool(d, Q, x)
    BY <1>3 DEF OfPool, SameNodes
  <2>2. Attributes(f, Nodes) = Attributes(d, Nodes)
    BY <1>3 DEF Attributes, SameNodes
  <2>3. QED
    BY <1>3, <1>10, <2>1, <2>2 DEF Counted
<1>12. /\ e \in Trees /\ Emptied(f, e, R, {}) /\ Counted(e)
       /\ e.unlinked = f.unlinked /\ e.untracked = f.untracked
  BY <1>3, <1>9, <1>10, <1>11, ReleaseFields
<1>13. Shape(e)
  <2>1. \A m \in R : f.parent[m] \in R \cup {} \cup {Null}
    BY <1>3, <1>6, <1>7 DEF SameLinks
  <2>2. R \cup {} = R
    OBVIOUS
  <2>3. PICK U \in SUBSET Joints : U = {}
    OBVIOUS
  <2>4. AllUnder(f, R, U)
    BY <1>10, <2>1, <2>2, <2>3 DEF AllUnder
  <2>5. e \in Trees /\ Emptied(f, e, R, U)
    BY <1>12, <2>3
  <2>6. QED
    BY ONLY <1>4, <2>4, <2>5, EmptiedShape
<1>14. Remains(f, e) /\ Living(e) = Living(d) \ R /\ Orphans(e) = Orphans(d) \ R
  <2>1. Remains(f, e) /\ Living(e) = Living(f) \ R /\ Orphans(e) = Orphans(f) \ R
    <3>1. PICK U : U = {}
      OBVIOUS
    <3>2. Emptied(f, e, R, U) /\ R \in SUBSET Nodes
      BY <1>10, <1>12, <3>1
    <3>3. QED
      BY ONLY <3>2, EmptiedRemains
  <2>2. QED
    BY <1>10, <2>1
<1>15. Remains(d, e)
  BY <1>3, <1>10, <1>14 DEF Remains, SameLinks, SameNodes
<1>16. Orphans(d) \ R = Orphans(d) \ {n}
  BY <1>6, <1>7 DEF Orphans
<1>17. Listed(e, Orphans(e))
  BY <1>3, <1>12, <1>14, <1>16 DEF Listed
<1>18. SameExcess(d, S \ {n}, e, Orphans(e))
  <2>1. \A m \in Orphans(e) : e.kind[m] = d.kind[m]
    BY <1>15 DEF Remains, Orphans
  <2>2. \A x : OfPool(e, Orphans(e), x) = OfPool(d, Orphans(e), x)
    BY <2>1, OfPoolSame
  <2>3. Orphans(e) = S \ {n}
    BY <1>14, <1>16
  <2>4. QED
    BY <1>3, <1>12, <2>2, <2>3 DEF SameExcess, Excess
<1>19. Whole(e)
  BY <1>12, <1>13, <1>17, <1>18 DEF Whole, Booked, SameExcess, Orphans
<1>20. Cut(d, e, n)
  BY <1>3, <1>8, <1>12 DEF Cut, Emptied, Stripped, SameLinks, SameNodes
<1>21. QED
  BY <1>14, <1>15, <1>16, <1>18, <1>19, <1>20
(* After deletions that have tracked what they delete.                       *)
Deleted(d, e, n) ==
  /\ Whole(e) /\ Remains(d, e)
  /\ Orphans(e) = Orphans(d) \ {n} /\ SameExcess(d, Orphans(d), e, Orphans(e))

LEMMA DeleteTracked ==
  ASSUME NEW d, Whole(d), NEW n \in Orphans(d), NEW e, e = DeleteAlone(SetTracked(d, n), n)
  PROVE  Deleted(d, e, n) /\ Cut(d, e, n)
<1>1. PICK S : S = Orphans(d)
  OBVIOUS
<1>2. /\ Booked(d, S) /\ S \in SUBSET Nodes /\ n \in S /\ Listed(d, S) /\ d \in Trees
      /\ n \in Living(d) /\ d.parent[n] = Null
  BY <1>1 DEF Whole, Booked, Orphans, Living, Shape
<1>3. PICK f : f = SetTracked(d, n)
  OBVIOUS
<1>4. /\ Shape(f) /\ SameLinks(d, f) /\ SameNodes(d, f) /\ Counted(f) /\ Listed(f, S)
      /\ SameExcess(d, S, f, S \ {n})
      /\ \A pool \in Pools : Excess(f, S \ {n}, pool) >= 0
  <2>1. SameLinks(d, d) /\ SameNodes(d, d) /\ S \in {S, S \ {n}}
    BY DEF SameLinks, SameNodes
  <2>2. QED
    BY <1>2, <1>3, <2>1, Tracked
<1>5. Living(f) = Living(d) /\ Orphans(f) = S /\ f.parent[n] = Null
  BY <1>1, <1>2, <1>4 DEF Living, Orphans, SameLinks, SameNodes
<1>6. /\ Whole(e) /\ Remains(f, e) /\ Orphans(e) = S \ {n}
      /\ SameExcess(f, S \ {n}, e, Orphans(e)) /\ Cut(f, e, n)
  BY <1>2, <1>3, <1>4, <1>5, DeletesAlone
<1>7. Remains(d, e)
  BY <1>4, <1>5, <1>6 DEF Remains, SameLinks, SameNodes
<1>8. SameExcess(d, S, e, Orphans(e))
  BY <1>4, <1>6 DEF SameExcess
<1>9. Cut(d, e, n)
  <2>1. Subtree(f, n) = Subtree(d, n)
    BY <1>4 DEF Subtree, WithChildren, SameLinks
  <2>2. QED
    BY <1>4, <1>6, <2>1 DEF Cut, Emptied, Stripped, SameLinks, SameNodes
<1>10. QED
  BY <1>1, <1>6, <1>7, <1>8, <1>9 DEF Deleted

(* A parse gives a node up that is in no tree.                               *)
LEMMA DeleteOrphan ==
  ASSUME NEW d, Whole(d), NEW n \in Orphans(d), NEW e, e = DeleteNode(d, n)
  PROVE  /\ Whole(e) /\ Remains(d, e) /\ Orphans(e) = Orphans(d) \ {n} /\ Cut(d, e, n)
         /\ Exact(d) => Exact(e)
<1>1. e = DeleteAlone(SetTracked(d, n), n)
  BY DEF DeleteNode, Alone, Orphans
<1>2. Deleted(d, e, n) /\ Cut(d, e, n)
  BY <1>1, DeleteTracked
<1>3. Exact(d) => Exact(e)
  BY <1>2 DEF Deleted, SameExcess, Exact
<1>4. QED
  BY <1>2, <1>3 DEF Deleted

LEMMA DeleteNodeDeletes ==
  ASSUME NEW d, Whole(d), NEW n \in Living(d), NEW e, e = DeleteNode(d, n)
  PROVE  Deleted(d, e, n)
<1>1. CASE d.parent[n] = Null
  <2>1. n \in Orphans(d) /\ e = DeleteAlone(SetTracked(d, n), n)
    BY <1>1 DEF Orphans, DeleteNode, Alone
  <2>2. QED
    BY <2>1, DeleteTracked
<1>2. CASE d.parent[n] # Null
  <2>1. PICK f : f = Unlink(d, n)
    OBVIOUS
  <2>2. PICK S : S = Orphans(d)
    OBVIOUS
  <2>3. /\ e = DeleteAlone(f, n) /\ Booked(d, S) /\ S \in SUBSET Nodes /\ S \ {n} = S
        /\ n \in Nodes /\ Shape(d) /\ Null \notin Nodes
    BY <1>2, <2>1, <2>2, JointsAre DEF DeleteNode, DeleteChild, Alone, Whole, Booked, Orphans, Living, Joints
  <2>4. /\ Shape(f) /\ SameNodes(d, f) /\ SameLists(d, f)
        /\ \A m \in Nodes : f.parent[m] = IF m = n THEN Null ELSE d.parent[m]
    BY <1>2, <2>1, <2>3, UnlinkShape
  <2>5. Booked(f, S) /\ SameExcess(d, S, f, S) /\ Living(f) = Living(d)
    BY <2>3, <2>4, SameBooks
  <2>6. Orphans(f) \ {n} = S /\ n \in Living(f) /\ f.parent[n] = Null
    BY <2>2, <2>3, <2>4, <2>5 DEF Orphans, Living
  <2>7. /\ Whole(e) /\ Remains(f, e) /\ Orphans(e) = Orphans(f) \ {n}
        /\ SameExcess(f, S, e, Orphans(e))
    <3>1. S \ {n} = Orphans(f) \ {n} /\ Counted(f) /\ Listed(f, S)
          /\ \A x \in Pools : Excess(f, S \ {n}, x) >= 0
      BY <2>3, <2>5, <2>6 DEF Booked
    <3>2. QED
      BY <2>3, <2>4, <2>6, <3>1, DeletesAlone
  <2>8. n \notin Living(e)
    <3>1. ~(n \in Living(e) /\ e.parent[n] = Null)
      BY <2>7 DEF Orphans
    <3>2. QED
      BY <2>6, <2>7, <3>1 DEF Remains
  <2>9. Remains(d, e)
    BY <2>3, <2>4, <2>5, <2>7, <2>8 DEF Remains, SameNodes, Living
  <2>10. SameExcess(d, S, e, Orphans(e))
    BY <2>5, <2>7 DEF SameExcess
  <2>11. QED
    BY <2>2, <2>3, <2>6, <2>7, <2>9, <2>10 DEF Deleted
<1>3. QED
  BY <1>1, <1>2

LEMMA DeleteChildrenDeletes ==
  ASSUME NEW d, Whole(d), NEW u \in Joints, u # Doc => u \in Living(d),
         NEW e, e = DeleteChildren(d, u)
  PROVE  /\ Whole(e) /\ Remains(d, e) /\ Orphans(e) = Orphans(d)
         /\ SameExcess(d, Orphans(d), e, Orphans(e))
         /\ \A m \in Nodes : e.parent[m] # u
<1>1. PICK S : S = Subtree(d, u) \ {u}
  OBVIOUS
<1>2. Shape(d) /\ Counted(d) /\ d \in Trees /\ Booked(d, Orphans(d))
  BY DEF Whole, Booked, Shape
<1>3. /\ S \in SUBSET Living(d) /\ u \notin S /\ ChildrenOf(d, S \cup {u}) \subseteq S
      /\ \A m \in S : d.parent[m] \in S \cup {u} /\ d.parent[m] # Null
  <2>1. AllBelow(d, u, S)
    BY <1>1, <1>2, BelowNode
  <2>2. QED
    BY <2>1 DEF AllBelow
<1>4. S \in SUBSET Nodes
  BY <1>3 DEF Living
<1>5. PICK f : f = Release(d, S)
  OBVIOUS
<1>6. /\ f \in Trees /\ Emptied(d, f, S, {}) /\ Counted(f)
      /\ f.unlinked = d.unlinked /\ f.untracked = d.untracked
  BY <1>2, <1>3, <1>5, ReleaseFields
<1>7. /\ e \in Trees /\ SameNodes(f, e) /\ SameLists(f, e)
      /\ e.parent = f.parent /\ e.prev = f.prev /\ e.next = f.next
      /\ \A n \in Joints : /\ e.first[n] = IF n = u THEN Null ELSE f.first[n]
                           /\ e.last[n] = IF n = u THEN Null ELSE f.last[n]
  <2>1. e = [f EXCEPT !.first[u] = Null, !.last[u] = Null]
    BY <1>1, <1>5 DEF DeleteChildren
  <2>2. e \in Trees /\ Childless(f, e, u)
    BY <1>6, <2>1, ChildlessFields
  <2>3. QED
    BY <2>2 DEF Childless
<1>8. PICK U : U = {u} /\ U \in SUBSET Joints
  OBVIOUS
<1>9. Emptied(d, e, S, U)
  BY <1>6, <1>7, <1>8 DEF Emptied, Stripped, SameNodes
<1>10. Shape(e)
  <2>1. AllUnder(d, S, U)
    BY <1>3, <1>4, <1>8 DEF AllUnder
  <2>2. QED
    BY <1>2, <1>7, <1>9, <2>1, EmptiedShape
<1>11. Remains(d, e) /\ Living(e) = Living(d) \ S /\ Orphans(e) = Orphans(d) \ S
  BY ONLY <1>4, <1>9, EmptiedRemains
<1>12. Orphans(e) = Orphans(d)
  BY <1>3, <1>11 DEF Orphans
<1>13. Listed(e, Orphans(e))
  BY <1>2, <1>6, <1>7, <1>12 DEF Booked, Listed, SameLists
<1>14. Counted(e)
  <2>1. \A R, x : OfPool(e, R, x) = OfPool(f, R, x)
    BY <1>7 DEF OfPool, SameNodes
  <2>2. Attributes(e, Nodes) = Attributes(f, Nodes) /\ Living(e) = Living(f)
    BY <1>7 DEF Attributes, Living, SameNodes
  <2>3. QED
    BY <1>6, <1>7, <2>1, <2>2 DEF Counted, SameLists
<1>15. SameExcess(d, Orphans(d), e, Orphans(e))
  <2>1. \A m \in Orphans(e) : e.kind[m] = d.kind[m]
    BY <1>11 DEF Remains, Orphans
  <2>2. \A x : OfPool(e, Orphans(e), x) = OfPool(d, Orphans(e), x)
    BY <2>1, OfPoolSame
  <2>3. QED
    BY <1>6, <1>7, <1>12, <2>2 DEF SameExcess, Excess, SameLists
<1>16. \A m \in Nodes : e.parent[m] # u
  <2> SUFFICES ASSUME NEW m \in Nodes, e.parent[m] = u PROVE FALSE
    OBVIOUS
  <2>1. m \in Joints /\ u # Null
    BY JointsAre DEF Joints
  <2>2. e.parent[m] = IF m \in S THEN Null ELSE d.parent[m]
    BY <1>9, <2>1 DEF Emptied
  <2>3. m \notin S /\ d.parent[m] = u
    BY <2>1, <2>2
  <2>4. QED
    BY <1>3, <2>3 DEF ChildrenOf
<1>17. Whole(e)
  BY <1>2, <1>10, <1>13, <1>14, <1>15 DEF Whole, Booked, SameExcess, Orphans
<1>18. QED
  BY <1>11, <1>12, <1>15, <1>16, <1>17
-----------------------------------------------------------------------------
LEMMA ListedCount ==
  ASSUME NEW d \in Trees, NEW S \in SUBSET Nodes, Listed(d, S)
  PROVE  /\ Range(d.unlinked) = S /\ Cardinality(S) = Len(d.unlinked)
         /\ Len(d.unlinked) \in Nat /\ (Len(d.unlinked) > 0 => d.unlinked[1] \in S)
<1>1. PICK s \in Seq(Nodes) : s = d.unlinked
  BY TreeMeans DEF Typed
<1>2. PICK k \in Nat : k = Len(s)
  BY <1>1, LenProperties
<1>3. DOMAIN s = 1..k /\ s \in [1..k -> Nodes]
  BY <1>1, <1>2, LenProperties
<1>4. Once(s) /\ \A m \in Nodes : m \in S <=> Has(s, m)
  BY <1>1 DEF Listed
<1>5. \A m \in Nodes : m \in S <=> \E i \in 1..k : s[i] = m
  BY <1>2, <1>4 DEF Has
<1>6. \A i \in 1..k : s[i] \in S
  BY <1>3, <1>5
<1>7. s \in Injection(1..k, S) /\ s \in Surjection(1..k, S)
  <2>1. s \in [1..k -> S]
    BY <1>3, <1>6
  <2>2. \A i, j \in 1..k : s[i] = s[j] => i = j
    BY <1>2, <1>4 DEF Once
  <2>3. \A m \in S : \E i \in 1..k : s[i] = m
    BY <1>5
  <2>4. QED
    BY <2>1, <2>2, <2>3 DEF Injection, IsInjective, Surjection
<1>8. IsFiniteSet(1..k) /\ Cardinality(1..k) = k
  <2>1. 1 \in Int /\ k \in Int
    OBVIOUS
  <2>2. IsFiniteSet(1..k) /\ Cardinality(1..k) = IF 1 > k THEN 0 ELSE k - 1 + 1
    BY <2>1, FS_Interval
  <2>3. QED
    BY <2>2
<1>9. Cardinality(S) = k
  BY <1>7, <1>8, FS_Surjection
<1>10. Range(s) = S
  BY <1>3, <1>5, <1>6 DEF Range
<1>11. QED
  BY <1>1, <1>2, <1>6, <1>9, <1>10

(* When nothing is in the document or unlinked, nothing is allocated.        *)
LEMMA NothingLives ==
  ASSUME NEW d, Shape(d), Orphans(d) = {}, \A m \in Nodes : d.parent[m] # Doc
  PROVE  Living(d) = {}
<1>1. \A m \in Living(d) : m \in Nodes /\ d.parent[m] # Null
  BY DEF Living, Orphans
<1>2. \A m \in Living(d) : d.parent[m] \in Living(d)
  BY <1>1 DEF Shape, Holding, Holds, Living
<1>3. Living(d) \in SUBSET Nodes
  BY DEF Living
<1>4. QED
  BY <1>2, <1>3 DEF Shape, Acyclic

LEMMA ClearEmpties ==
  ASSUME NEW d, Whole(d), NEW e, e = Clear(d)
  PROVE  /\ Whole(e) /\ Orphans(e) = {} /\ Living(e) = {}
         /\ SameExcess(d, Orphans(d), e, Orphans(e))
<1>1. PICK x : x = DeleteChildren(d, Doc)
  OBVIOUS
<1>2. /\ Whole(x) /\ SameExcess(d, Orphans(d), x, Orphans(x))
      /\ \A m \in Nodes : x.parent[m] # Doc
  BY <1>1, DeleteChildrenDeletes DEF Joints
<1>3. PICK h \in Nat : h = Len(x.unlinked)
  BY <1>2, ListedCount DEF Whole, Booked, Shape, Orphans, Living
<1>4. PICK w : Turns("delete", x, Doc, x, w, h) /\ e = w[h]
  <2> DEFINE w == CHOOSE cleared : cleared =
                   [k \in 0..Len(x.unlinked) |->
                      IF k = 0 THEN x
                      ELSE DeleteNode(cleared[k - 1], cleared[k - 1].unlinked[1])]
  <2>1. \A v : Turns("delete", x, Doc, x, v, Len(x.unlinked)) <=>
                 v = [k \in 0..Len(x.unlinked) |->
                        IF k = 0 THEN x ELSE DeleteNode(v[k - 1], v[k - 1].unlinked[1])]
    BY DEF Turns, Turn
  <2>2. \E v : Turns("delete", x, Doc, x, v, Len(x.unlinked))
    BY <1>3, TurnsExist
  <2>3. Turns("delete", x, Doc, x, w, Len(x.unlinked))
    <3>1. \E v : v = [k \in 0..Len(x.unlinked) |->
                        IF k = 0 THEN x ELSE DeleteNode(v[k - 1], v[k - 1].unlinked[1])]
      BY <2>1, <2>2
    <3>2. QED
      BY <2>1, <3>1, Zenon
  <2>4. Clear(d) = w[Len(x.unlinked)]
    BY <1>1, Zenon DEF Clear
  <2> HIDE DEF w
  <2>5. QED
    BY <1>3, <2>3, <2>4
<1>5. w[0] = x /\ \A j \in 1..h : w[j] = DeleteNode(w[j - 1], w[j - 1].unlinked[1])
  <2>1. w[0] = x /\ \A j \in 1..h : w[j] = Turn("delete", x, Doc, w[j - 1])
    BY <1>4, TurnsMean
  <2>2. QED
    BY <2>1 DEF Turn
<1> DEFINE Good(y, k) == /\ Whole(y) /\ SameExcess(d, Orphans(d), y, Orphans(y))
                         /\ \A m \in Living(y) : y.parent[m] # Doc
                         /\ Cardinality(Orphans(y)) = h - k
           K == {k \in Nat : k <= h => Good(w[k], k)}
<1>6. \A y : Whole(y) => /\ Range(y.unlinked) = Orphans(y)
                         /\ Cardinality(Orphans(y)) = Len(y.unlinked)
                         /\ (Len(y.unlinked) > 0 => y.unlinked[1] \in Orphans(y))
                         /\ IsFiniteSet(Orphans(y))
  <2> SUFFICES ASSUME NEW y, Whole(y)
               PROVE  /\ Range(y.unlinked) = Orphans(y)
                      /\ Cardinality(Orphans(y)) = Len(y.unlinked)
                      /\ (Len(y.unlinked) > 0 => y.unlinked[1] \in Orphans(y))
                      /\ IsFiniteSet(Orphans(y))
    OBVIOUS
  <2>1. y \in Trees /\ Orphans(y) \in SUBSET Nodes /\ Listed(y, Orphans(y))
    BY DEF Whole, Booked, Shape, Orphans, Living
  <2>2. IsFiniteSet(Orphans(y))
    BY <2>1, JointsAre, FS_Subset
  <2>3. QED
    BY <2>1, <2>2, ListedCount
<1>7. 0 \in K
  <2>1. \A m \in Living(x) : x.parent[m] # Doc
    BY <1>2 DEF Living
  <2>2. Cardinality(Orphans(x)) = h - 0
    BY <1>2, <1>3, <1>6
  <2>3. QED
    BY <1>2, <1>5, <2>1, <2>2
<1>8. ASSUME NEW k \in Nat, k \in K PROVE k + 1 \in K
  <2> SUFFICES ASSUME k + 1 <= h PROVE Good(w[k + 1], k + 1)
    OBVIOUS
  <2>1. PICK y, z : y = w[k] /\ z = w[k + 1]
    OBVIOUS
  <2>2. Good(y, k)
    BY <1>8, <2>1
  <2>3. Cardinality(Orphans(y)) > 0
    BY <2>2
  <2>4. PICK n \in Orphans(y) : n = y.unlinked[1]
    BY <1>6, <2>2, <2>3
  <2>5. z = DeleteNode(y, n)
    <3>1. k + 1 \in 1..h /\ (k + 1) - 1 = k
      OBVIOUS
    <3>2. w[k + 1] = DeleteNode(w[(k + 1) - 1], w[(k + 1) - 1].unlinked[1])
      BY <1>5, <3>1
    <3>3. QED
      BY <2>1, <2>4, <3>1, <3>2
  <2>6. Deleted(y, z, n)
    BY <2>2, <2>4, <2>5, DeleteNodeDeletes DEF Orphans
  <2>7. Cardinality(Orphans(z)) = h - (k + 1)
    <3>1. Orphans(z) = Orphans(y) \ {n} /\ IsFiniteSet(Orphans(y))
      BY <1>6, <2>2, <2>6 DEF Deleted
    <3>2. Cardinality(Orphans(z)) = Cardinality(Orphans(y)) - 1
      BY <3>1, FS_RemoveElement
    <3>3. QED
      BY <2>2, <3>2
  <2>8. QED
    BY <2>1, <2>2, <2>6, <2>7 DEF Deleted, SameExcess, Remains
<1>9. h \in K
  <2> HIDE DEF K
  <2>1. QED
    BY <1>7, <1>8, AllNaturals
<1>10. Good(e, h)
  BY <1>4, <1>9
<1>11. Orphans(e) = {}
  BY <1>6, <1>10, FS_EmptySet
<1>12. Shape(e) /\ \A m \in Nodes : e.parent[m] # Doc
  <2>1. Shape(e)
    BY <1>10 DEF Whole, Booked
  <2>2. ASSUME NEW m \in Nodes, e.parent[m] = Doc PROVE FALSE
    <3>1. m \in Living(e)
      BY <2>1, <2>2, JointsAre DEF Shape, Holding, Living, Joints
    <3>2. QED
      BY <1>10, <2>2, <3>1
  <2>3. QED
    BY <2>1, <2>2
<1>13. QED
  BY <1>10, <1>11, <1>12, NothingLives

LEMMA ClearPoolsWhole ==
  ASSUME NEW d, Whole(d), Living(d) = {}, NEW e, e = ClearPools(d)
  PROVE  Whole(e) /\ Exact(e) /\ Orphans(e) = {} /\ Living(e) = {}
<1>1. d \in Trees /\ Typed(d) /\ Fields(d) /\ Shape(d) /\ Listed(d, Orphans(d))
  BY TreeMeans DEF Whole, Booked, Shape
<1>2. /\ Fields(e) /\ SameLinks(d, e) /\ SameNodes(d, e) /\ e.unlinked = d.unlinked
      /\ e.allocs = NoAllocs /\ e.untracked = NoAllocs
  BY <1>1 DEF ClearPools, Fields, SameLinks, SameNodes
<1>3. Typed(e)
  BY <1>1, <1>2 DEF Typed, SameLinks, SameNodes, NoAllocs
<1>4. Shape(e)
  BY <1>1, <1>2, <1>3, TreeMeans, SameShape
<1>5. Orphans(d) = {} /\ Orphans(e) = {} /\ Living(e) = {}
  BY <1>2 DEF Orphans, Living, SameNodes
<1>6. \A x : OfPool(e, {}, x) = {}
  BY DEF OfPool
<1>7. \A x \in Pools : e.allocs[x] = 0 /\ e.untracked[x] = 0
  BY <1>2 DEF NoAllocs
<1>8. Attributes(e, Nodes) = {}
  <2>1. \A n \in Nodes : e.attrs[n] = <<>>
    BY <1>4, <1>5 DEF Shape, Bare, Living
  <2>2. QED
    BY <2>1 DEF Attributes
<1>9. Counted(e)
  BY <1>5, <1>6, <1>7, <1>8, PoolsAre, FS_EmptySet DEF Counted
<1>10. \A x \in Pools : Excess(e, Orphans(e), x) = 0
  BY <1>5, <1>6, <1>7, FS_EmptySet DEF Excess
<1>11. Listed(e, Orphans(e))
  BY <1>1, <1>2, <1>5 DEF Listed
<1>12. QED
  BY <1>4, <1>5, <1>9, <1>10, <1>11 DEF Whole, Booked, Exact
-----------------------------------------------------------------------------
(* Attributes.                                                              *)
AttributesSet(d, e, n, s, k) ==
  /\ SameLinks(d, e) /\ e.kind = d.kind /\ e.name = d.name
  /\ e.unlinked = d.unlinked /\ e.untracked = d.untracked
  /\ \A m \in Nodes : e.attrs[m] = IF m = n THEN s ELSE d.attrs[m]
  /\ \A x \in Pools : e.allocs[x] = IF x = "attribute" THEN k ELSE d.allocs[x]

LEMMA AttributeFields ==
  ASSUME NEW d \in Trees, NEW n \in Nodes, NEW s \in Seq(AttrNames), NEW k \in Nat, NEW e,
         e = [d EXCEPT !.attrs[n] = s, !.allocs["attribute"] = k]
  PROVE  e \in Trees /\ AttributesSet(d, e, n, s, k)
<1>1. Typed(d) /\ Fields(d)
  BY TreeMeans
<1>2. /\ Fields(e) /\ SameLinks(d, e) /\ e.kind = d.kind /\ e.name = d.name
      /\ e.attrs = [d.attrs EXCEPT ![n] = s] /\ e.unlinked = d.unlinked
      /\ e.allocs = [d.allocs EXCEPT !["attribute"] = k] /\ e.untracked = d.untracked
  BY <1>1 DEF Fields, SameLinks
<1>3. /\ \A m \in Nodes : e.attrs[m] = IF m = n THEN s ELSE d.attrs[m]
      /\ e.attrs \in [Nodes -> Seq(AttrNames)]
  BY <1>1, <1>2 DEF Typed
<1>4. /\ \A x \in Pools : e.allocs[x] = IF x = "attribute" THEN k ELSE d.allocs[x]
      /\ e.allocs \in [Pools -> Nat]
  BY <1>1, <1>2, PoolsAre DEF Typed
<1>5. Typed(e)
  BY <1>1, <1>2, <1>3, <1>4 DEF Typed, SameLinks
<1>6. QED
  BY <1>2, <1>3, <1>4, <1>5, TreeMeans DEF AttributesSet

(* Only the attributes of a living node have changed.                       *)
Attributed(d, e) ==
  /\ Whole(e) /\ SameLinks(d, e) /\ e.kind = d.kind
  /\ Living(e) = Living(d) /\ Orphans(e) = Orphans(d)
  /\ SameExcess(d, Orphans(d), e, Orphans(e))

LEMMA AttributesWhole ==
  ASSUME NEW d, Whole(d), NEW n \in Living(d), NEW s, NEW k,
         NEW e \in Trees, AttributesSet(d, e, n, s, k), Cardinality(Attributes(e, Nodes)) = k
  PROVE  Attributed(d, e)
<1>1. n \in Nodes /\ d.kind[n] # "free" /\ Shape(d) /\ d \in Trees /\ Booked(d, Orphans(d))
  BY DEF Living, Whole, Booked, Shape
<1>2. /\ SameLinks(d, e) /\ e.kind = d.kind
      /\ e.unlinked = d.unlinked /\ e.untracked = d.untracked
      /\ \A m \in Nodes : e.attrs[m] = IF m = n THEN s ELSE d.attrs[m]
      /\ \A x \in Pools : e.allocs[x] = IF x = "attribute" THEN k ELSE d.allocs[x]
  BY DEF AttributesSet
<1>3. Living(e) = Living(d) /\ Orphans(e) = Orphans(d)
  BY <1>2 DEF Living, Orphans, SameLinks
<1>4. Shape(e)
  <2>1. Chained(e)
    <3>1. \A m, h, r : Chain(d, m, r, h) => Chain(e, m, r, h)
      BY <1>2 DEF Chain, SameLinks
    <3>2. QED
      BY <1>1, <3>1 DEF Shape, Chained
  <2>2. Holding(e) /\ Acyclic(e)
    BY <1>1, <1>2 DEF Shape, Holding, Holds, Acyclic, SameLinks
  <2>3. Bare(e)
    BY <1>1, <1>2 DEF Shape, Bare
  <2>4. QED
    BY <2>1, <2>2, <2>3 DEF Shape
<1>5. \A S, x : OfPool(e, S, x) = OfPool(d, S, x)
  BY <1>2 DEF OfPool
<1>6. Counted(e)
  <2>1. e.allocs["attribute"] = k /\ \A x \in NodePools : e.allocs[x] = d.allocs[x]
    BY <1>2, PoolsAre
  <2>2. QED
    BY <1>1, <1>3, <1>5, <2>1 DEF Booked, Counted
<1>7. SameExcess(d, Orphans(d), e, Orphans(e))
  BY <1>2, <1>3, <1>5 DEF SameExcess, Excess
<1>8. Listed(e, Orphans(e))
  BY <1>1, <1>2, <1>3 DEF Booked, Listed
<1>9. QED
  BY <1>1, <1>2, <1>3, <1>4, <1>6, <1>7, <1>8 DEF Attributed, Whole, Booked, SameExcess

(* f and g are lists of attributes; n has one more in g.                     *)
Longer(d, e, n, l) ==
  /\ d.attrs \in [Nodes -> Seq(AttrNames)]
  /\ \A m \in Nodes \ {n} : e.attrs[m] = d.attrs[m]
  /\ DOMAIN d.attrs[n] = 1..l /\ DOMAIN e.attrs[n] = 1..(l + 1)

LEMMA OneMore ==
  ASSUME NEW d, NEW e, NEW n \in Nodes, NEW l \in Nat, Longer(d, e, n, l)
  PROVE  Cardinality(Attributes(e, Nodes)) = Cardinality(Attributes(d, Nodes)) + 1
<1>1. PICK A, B : A = Attributes(d, Nodes) /\ B = Attributes(e, Nodes)
  OBVIOUS
<1> USE DEF Longer
<1>2. \A y : /\ y \in A <=> \E m \in Nodes : y \in {m} \X DOMAIN d.attrs[m]
             /\ y \in B <=> \E m \in Nodes : y \in {m} \X DOMAIN e.attrs[m]
  BY <1>1 DEF Attributes
<1>3. \A y : y \in {n} \X (1..(l + 1)) <=> y \in {n} \X (1..l) \/ y = <<n, l + 1>>
  <2>1. 1..(l + 1) = (1..l) \cup {l + 1}
    OBVIOUS
  <2>2. QED
    BY <2>1
<1>4. PICK z : z = <<n, l + 1>>
  OBVIOUS
<1>5. \A y : y \in B <=> y \in A \/ y = z
  BY <1>2, <1>3, <1>4
<1>6. z \notin A
  <2>1. l + 1 \notin 1..l
    OBVIOUS
  <2>2. \A m \in Nodes : z \in {m} \X DOMAIN d.attrs[m] => m = n /\ l + 1 \in 1..l
    BY <1>4
  <2>3. QED
    BY <1>2, <2>1, <2>2
<1>7. IsFiniteSet(A)
  <2>1. Nodes \in SUBSET Nodes
    OBVIOUS
  <2>2. IsFiniteSet(Attributes(d, Nodes))
    BY <2>1, AttributesFinite
  <2>3. QED
    BY <1>1, <2>2
<1>8. B = A \cup {z}
  BY <1>5
<1>9. Cardinality(A \cup {z}) = Cardinality(A) + 1
  BY <1>6, <1>7, FS_AddElement
<1>10. QED
  BY <1>1, <1>8, <1>9

LEMMA AddsAttribute ==
  ASSUME NEW d, Whole(d), NEW n \in Living(d), NEW x \in AttrNames,
         NEW e, e = [d EXCEPT !.attrs[n] = Append(@, x), !.allocs["attribute"] = @ + 1]
  PROVE  Attributed(d, e)
<1>1. n \in Nodes /\ d \in Trees /\ Typed(d) /\ Counted(d)
  BY TreeMeans DEF Living, Whole, Booked, Shape
<1>2. PICK s \in Seq(AttrNames) : s = d.attrs[n]
  BY <1>1 DEF Typed
<1>3. PICK r \in Seq(AttrNames) : r = Append(s, x)
  BY <1>2, AppendProperties
<1>4. PICK k \in Nat : k = d.allocs["attribute"] + 1
  BY <1>1, PoolsAre DEF Typed
<1>5. e = [d EXCEPT !.attrs[n] = r, !.allocs["attribute"] = k]
  BY <1>2, <1>3, <1>4
<1>6. e \in Trees /\ AttributesSet(d, e, n, r, k)
  BY <1>1, <1>5, AttributeFields
<1>7. PICK l \in Nat : l = Len(s)
  BY <1>2, LenProperties
<1>8. DOMAIN s = 1..l /\ DOMAIN r = 1..(l + 1)
  <2>1. DOMAIN s = 1..Len(s) /\ DOMAIN r = 1..Len(r) /\ Len(r) = Len(s) + 1
    BY <1>3, LenProperties, AppendProperties
  <2>2. QED
    BY <1>7, <2>1
<1>9. e.attrs[n] = r /\ \A m \in Nodes \ {n} : e.attrs[m] = d.attrs[m]
  BY <1>1, <1>6 DEF AttributesSet
<1>10. Cardinality(Attributes(e, Nodes)) = Cardinality(Attributes(d, Nodes)) + 1
  <2>1. Longer(d, e, n, l)
    BY <1>1, <1>2, <1>8, <1>9 DEF Typed, Longer
  <2>2. QED
    BY <1>1, <2>1, OneMore
<1>11. Cardinality(Attributes(e, Nodes)) = k
  BY <1>1, <1>4, <1>10 DEF Counted
<1>12. QED
  BY <1>6, <1>11, AttributesWhole

LEMMA RemovedAt ==
  ASSUME NEW s \in Seq(AttrNames), NEW i \in DOMAIN s, NEW r, r = RemoveAt(s, i)
  PROVE  r \in Seq(AttrNames) /\ Len(r) = Len(s) - 1
<1>1. PICK l \in Nat : l = Len(s)
  BY LenProperties
<1>2. i \in 1..l /\ DOMAIN s = 1..l
  BY <1>1, LenProperties
<1>3. \A j \in 1..l : s[j] \in AttrNames
  BY <1>2, ElementOfSeq
<1>4. PICK a, b : a = SubSeq(s, 1, i - 1) /\ b = SubSeq(s, i + 1, l)
  OBVIOUS
<1>5. a \in Seq(AttrNames) /\ Len(a) = i - 1
  <2>1. i - 1 \in 0..l /\ (\A j \in 1..(i - 1) : j \in 1..l)
    BY <1>2
  <2>2. QED
    BY <1>1, <1>2, <1>4, <2>1, SubSeqProperties
<1>6. b \in Seq(AttrNames) /\ Len(b) = l - i
  <2>1. i + 1 \in 1..(l + 1) /\ (\A j \in (i + 1)..l : j \in 1..l)
    BY <1>2
  <2>2. QED
    BY <1>1, <1>2, <1>4, <2>1, SubSeqProperties
<1>7. r = a \o b
  BY <1>1, <1>4 DEF RemoveAt
<1>8. r \in Seq(AttrNames) /\ Len(r) = Len(a) + Len(b)
  BY <1>5, <1>6, <1>7, ConcatProperties
<1>9. QED
  BY <1>1, <1>2, <1>5, <1>6, <1>8

LEMMA RemovesAttribute ==
  ASSUME NEW d, Whole(d), NEW n \in Living(d), NEW i \in DOMAIN d.attrs[n],
         NEW e, e = [d EXCEPT !.attrs[n] = RemoveAt(@, i), !.allocs["attribute"] = @ - 1]
  PROVE  Attributed(d, e)
<1>1. n \in Nodes /\ d \in Trees /\ Typed(d) /\ Counted(d)
  BY TreeMeans DEF Living, Whole, Booked, Shape
<1>2. PICK s \in Seq(AttrNames) : s = d.attrs[n]
  BY <1>1 DEF Typed
<1>3. PICK r \in Seq(AttrNames) : r = RemoveAt(s, i) /\ Len(r) = Len(s) - 1
  BY <1>2, RemovedAt
<1>4. PICK f : f = [d EXCEPT !.attrs[n] = r]
  OBVIOUS
<1>5. /\ Attributes(e, Nodes) = Attributes(f, Nodes)
      /\ \A m \in Nodes \ {n} : f.attrs[m] = d.attrs[m]
      /\ f.attrs[n] = r /\ f.attrs \in [Nodes -> Seq(AttrNames)]
  <2>1. Fields(d)
    BY <1>1, TreeMeans
  <2>2. f.attrs = [d.attrs EXCEPT ![n] = r] /\ e.attrs = [d.attrs EXCEPT ![n] = RemoveAt(@, i)]
    BY <1>4, <2>1 DEF Fields
  <2>3. e.attrs = f.attrs
    BY <1>2, <1>3, <2>2
  <2>4. QED
    BY <1>1, <2>2, <2>3 DEF Typed, Attributes
<1>6. PICK l \in Nat : l = Len(r) /\ Len(s) = l + 1
  BY <1>2, <1>3, LenProperties
<1>7. DOMAIN r = 1..l /\ DOMAIN s = 1..(l + 1)
  BY <1>2, <1>3, <1>6, LenProperties
<1>8. Cardinality(Attributes(d, Nodes)) = Cardinality(Attributes(f, Nodes)) + 1
  <2>1. Longer(f, d, n, l)
    BY <1>2, <1>5, <1>7 DEF Longer
  <2>2. QED
    BY <1>1, <2>1, OneMore
<1>9. PICK k \in Nat : k = Cardinality(Attributes(f, Nodes))
  <2>1. Nodes \in SUBSET Nodes
    OBVIOUS
  <2>2. IsFiniteSet(Attributes(f, Nodes))
    BY <1>5, <2>1, AttributesFinite
  <2>3. QED
    BY <2>2, FS_CardinalityType
<1>10. d.allocs["attribute"] - 1 = k
  BY <1>1, <1>8, <1>9 DEF Counted
<1>11. e = [d EXCEPT !.attrs[n] = r, !.allocs["attribute"] = k]
  BY <1>2, <1>3, <1>10
<1>12. e \in Trees /\ AttributesSet(d, e, n, r, k)
  BY <1>1, <1>11, AttributeFields
<1>13. QED
  BY <1>5, <1>9, <1>12, AttributesWhole
-----------------------------------------------------------------------------
(* The nodes being read.                                                    *)
LEMMA FrontIs ==
  ASSUME NEW s \in Seq(Joints), Len(s) > 0
  PROVE  /\ Last(s) = s[Len(s)] /\ Front(s) \in Seq(Joints) /\ Len(Front(s)) = Len(s) - 1
         /\ \A i \in 1..(Len(s) - 1) : Front(s)[i] = s[i]
<1>1. PICK l \in Nat : l = Len(s) - 1
  BY LenProperties
<1>2. \A i \in 1..l : s[i] \in Joints
  BY <1>1, ElementOfSeq
<1>3. Front(s) = [i \in 1..l |-> s[i]]
  BY <1>1 DEF Front
<1>4. PICK f : f = Front(s)
  OBVIOUS
<1>5. f \in [1..l -> Joints] /\ \A i \in 1..l : f[i] = s[i]
  BY <1>2, <1>3, <1>4
<1>6. f \in Seq(Joints) /\ Len(f) = l
  BY ONLY <1>5, l \in Nat
<1>7. QED
  BY <1>1, <1>4, <1>5, <1>6 DEF Last

LEMMA TopIs ==
  ASSUME NEW d, NEW s \in Seq(Joints), NEW c, Opened(d, s, c)
  PROVE  /\ Len(s) \in Nat /\ Last(s) \in Joints /\ Holds(d, Last(s)) /\ Last(s) # c
         /\ Last(s) = Doc <=> Len(s) = 1
         /\ Last(s) # Doc => Last(s) \in Nodes /\ Last(s) \in Orphans(d)
<1>1. PICK k \in Nat : k = Len(s)
  BY LenProperties
<1>2. Last(s) = s[k] /\ k > 0 /\ s[1] = Doc
  BY <1>1 DEF Last, Opened
<1>3. CASE k = 1
  BY <1>1, <1>2, <1>3 DEF Opened, Holds, Joints
<1>4. CASE k > 1
  <2>1. k \in 2..k /\ k \in 1..k
    BY <1>4
  <2>2. s[k] \in Nodes /\ d.kind[s[k]] = "element" /\ s[k] # c
    BY <1>1, <2>1 DEF Opened
  <2>3. s[k] \in Orphans(d)
    BY <1>1, <2>1, <2>2 DEF Opened
  <2>4. QED
    BY <1>1, <1>2, <1>4, <2>2, <2>3, JointsAre DEF Holds, Joints
<1>5. QED
  BY <1>2, <1>3, <1>4

(* The node recognised is another one, or none.                              *)
LEMMA OpenedWith ==
  ASSUME NEW d, NEW s \in Seq(Joints), NEW c, Opened(d, s, c),
         NEW e, NEW x \in Nodes \cup {Null},
         \A m \in Orphans(e) : e.kind[m] = d.kind[m] \/ m = x,
         x = Null \/ x = c \/ x \notin Living(d),
         \A m \in Nodes : m \in Orphans(e) <=> m = x \/ (m \in Orphans(d) /\ m # c)
  PROVE  Opened(e, s, x)
<1>1. PICK k \in Nat : k = Len(s)
  BY LenProperties
<1>2. \A i \in 1..k : i = 1 \/ i \in 2..k
  OBVIOUS
<1>3. \A i \in 2..k : s[i] \in Nodes /\ s[i] \in Orphans(d) /\ s[i] # c /\ i \in 1..k
  BY <1>1 DEF Opened
<1>4. \A i \in 1..k : s[i] # x
  BY <1>1, <1>2, <1>3, JointsAre DEF Opened, Orphans
<1>5. \A i \in 2..k : s[i] \in Orphans(e)
  BY <1>3
<1>6. \A i \in 2..k : e.kind[s[i]] = "element"
  BY <1>1, <1>3, <1>4, <1>5 DEF Opened
<1>7. \A m \in Nodes : m \in Orphans(e) <=> m = x \/ \E i \in 2..k : s[i] = m
  BY <1>1, <1>3, <1>5 DEF Opened
<1>8. QED
  BY <1>1, <1>3, <1>4, <1>6, <1>7 DEF Opened

(* A call of ParseDeep has returned.                                         *)
LEMMA OpenedLess ==
  ASSUME NEW d, NEW s \in Seq(Joints), Opened(d, s, Null), Len(s) > 1,
         NEW e, NEW x \in {Null, Last(s)},
         \A m \in Orphans(e) : e.kind[m] = d.kind[m],
         \A m \in Nodes : m \in Orphans(e) <=> m = x \/ (m \in Orphans(d) /\ m # Last(s))
  PROVE  Opened(e, Front(s), x)
<1>1. PICK k \in Nat : k = Len(s) - 1 /\ k > 0
  BY LenProperties
<1>2. PICK r : r = Front(s)
  OBVIOUS
<1>3. Len(r) = k /\ s[k + 1] = Last(s) /\ \A i \in 1..k : r[i] = s[i]
  BY <1>1, <1>2, FrontIs
<1>4. \A i \in 1..(k + 1) : i = k + 1 \/ i \in 1..k
  OBVIOUS
<1>5. \A i \in 2..(k + 1) : s[i] \in Nodes /\ s[i] \in Orphans(d) /\ i \in 1..(k + 1)
  BY <1>1 DEF Opened
<1>6. \A i \in 1..k : s[i] # s[k + 1] /\ s[i] # Null /\ i \in 1..(k + 1)
  <2>1. \A i \in 1..k : i \in 1..(k + 1) /\ i # k + 1 /\ k + 1 \in 1..(k + 1)
    OBVIOUS
  <2>2. QED
    BY <1>1, <2>1 DEF Opened
<1>7. \A i \in 2..k : r[i] = s[i] /\ r[i] \in Orphans(e) /\ i \in 2..(k + 1) /\ i \in 1..k
  <2>1. \A i \in 2..k : i \in 2..(k + 1) /\ i \in 1..k
    OBVIOUS
  <2>2. QED
    BY <1>3, <1>5, <1>6, <2>1
<1>8. \A i \in 2..k : r[i] \in Nodes /\ e.kind[r[i]] = "element"
  <2>1. \A i \in 2..(k + 1) : d.kind[s[i]] = "element"
    BY <1>1 DEF Opened
  <2>2. QED
    BY <1>5, <1>7, <2>1
<1>9. \A m \in Nodes : m \in Orphans(e) <=> m = x \/ \E i \in 2..k : r[i] = m
  <2>1. ASSUME NEW m \in Orphans(d), m # Last(s), m \in Nodes PROVE \E i \in 2..k : r[i] = m
    <3>1. m # Null
      BY <2>1, JointsAre DEF Joints
    <3>2. PICK i \in 2..(k + 1) : s[i] = m
      BY <1>1, <2>1, <3>1 DEF Opened
    <3>3. i \in 2..k
      BY <1>3, <2>1, <3>2
    <3>4. QED
      BY <1>7, <3>2, <3>3
  <2>2. QED
    BY <1>7, <2>1
<1>10. \A i, j \in 1..k : r[i] = r[j] => i = j
  BY <1>1, <1>3, <1>6 DEF Opened
<1>11. \A i \in 1..k : r[i] # x
  BY <1>3, <1>6
<1>12. r[1] = Doc
  BY <1>1, <1>3 DEF Opened
<1>13. Opened(e, r, x)
  BY <1>1, <1>3, <1>8, <1>9, <1>10, <1>11, <1>12 DEF Opened
<1>14. QED
  BY <1>2, <1>13

(* ParseDeep is called for the element recognised.                           *)
LEMMA OpenedMore ==
  ASSUME NEW d, NEW s \in Seq(Joints), NEW c \in Nodes, Opened(d, s, c), d.kind[c] = "element"
  PROVE  /\ Opened(d, Append(s, c), Null) /\ Append(s, c) \in Seq(Joints)
         /\ Len(Append(s, c)) = Len(s) + 1
<1>1. PICK k \in Nat : k = Len(s) /\ k > 0
  BY LenProperties DEF Opened
<1>2. PICK r : r = Append(s, c)
  OBVIOUS
<1>3. /\ r \in Seq(Joints) /\ Len(r) = k + 1 /\ r[k + 1] = c
      /\ \A i \in 1..k : r[i] = s[i]
  <2>1. c \in Joints
    BY DEF Joints
  <2>2. QED
    BY <1>1, <1>2, <2>1, AppendProperties
<1>4. \A i \in 1..(k + 1) : i = k + 1 \/ i \in 1..k
  OBVIOUS
<1>5. \A i \in 2..(k + 1) : i = k + 1 \/ (i \in 2..k /\ i \in 1..k)
  OBVIOUS
<1>6. \A i \in 2..(k + 1) : r[i] \in Nodes /\ d.kind[r[i]] = "element"
  BY <1>1, <1>3, <1>5 DEF Opened
<1>7. \A i, j \in 1..(k + 1) : r[i] = r[j] => i = j
  BY <1>1, <1>3, <1>4 DEF Opened
<1>8. r[1] = Doc
  BY <1>1, <1>3 DEF Opened
<1>9. \A i \in 1..(k + 1) : r[i] # Null
  BY <1>4, <1>5, <1>6, <1>8, JointsAre DEF Joints
<1>10. \A m \in Nodes : m \in Orphans(d) <=> m = Null \/ \E i \in 2..(k + 1) : r[i] = m
  <2>1. \A m \in Nodes : (\E i \in 2..(k + 1) : r[i] = m) <=> m = c \/ \E i \in 2..k : s[i] = m
    <3>1. k + 1 \in 2..(k + 1) /\ \A i \in 2..k : i \in 2..(k + 1) /\ i \in 1..k
      BY <1>1
    <3>2. QED
      BY <1>3, <1>5, <3>1
  <2>2. \A m \in Nodes : m # Null
    BY JointsAre DEF Joints
  <2>3. QED
    BY <1>1, <2>1, <2>2 DEF Opened
<1>11. Opened(d, r, Null)
  BY <1>3, <1>6, <1>7, <1>8, <1>9, <1>10 DEF Opened
<1>12. QED
  BY <1>1, <1>2, <1>3, <1>11

LEMMA OpenedDocument ==
  ASSUME NEW d, NEW s \in Seq(Joints), Opened(d, s, Null), Len(s) = 1
  PROVE  Orphans(d) = {}
<1>1. 2..1 = {}
  OBVIOUS
<1>2. \A m \in Nodes : m # Null
  BY JointsAre DEF Joints
<1>3. \A m \in Nodes : m \notin Orphans(d)
  BY <1>1, <1>2 DEF Opened
<1>4. QED
  BY <1>3 DEF Orphans, Living
-----------------------------------------------------------------------------
(* The steps of a parse.                                                    *)
Parsed == Whole(dom) /\ Position /\ error \in Errors

LEMMA ExactSame ==
  ASSUME NEW d, NEW e, SameExcess(d, Orphans(d), e, Orphans(e)), Exact(d)
  PROVE  Exact(e)
BY DEF SameExcess, Exact

LEMMA Attaches ==
  ASSUME NEW d, Whole(d), NEW c \in Living(d), NEW u \in Joints, Holds(d, u), u # c,
         u = Doc \/ d.parent[u] = Null
  PROVE  Moved(d, InsertEndChild(d, u, c), u, c)
<1>1. c \in Nodes /\ c \in Joints
  BY DEF Living, Joints
<1>2. PICK T : T = Subtree(d, c)
  OBVIOUS
<1>3. Under(d, c, T)
  BY <1>1, <1>2, SubtreeUnder
<1>4. T \in SUBSET Nodes
  BY <1>1, <1>3 DEF Under
<1>5. u \notin T
  BY <1>3, <1>4, JointsAre DEF Under, Joints
<1>6. c \in T /\ ChildrenOf(d, T) \subseteq T
  BY <1>3 DEF Under
<1>7. QED
  BY <1>4, <1>5, <1>6, InsertEndChildMoves

LEMMA EndsLoad ==
  ASSUME NEW d, Whole(d), Exact(d), Orphans(d) = {}, NEW e \in Errors, EndLoad(d, e)
  PROVE  Parsed'
<1>1. /\ mode' = "loaded" /\ stack' = <<>> /\ cur' = Null /\ error' = e
      /\ dom' = IF source = "memory" /\ e # "SUCCESS"
                THEN ClearPools(DeleteChildren(d, Doc)) ELSE d
  BY DEF EndLoad
<1>2. Whole(dom') /\ Orphans(dom') = {} /\ Exact(dom')
  <2>1. CASE source = "memory" /\ e # "SUCCESS"
    <3>1. PICK f : f = DeleteChildren(d, Doc)
      OBVIOUS
    <3>2. Doc \in Joints
      BY DEF Joints
    <3>3. Whole(f) /\ Orphans(f) = {} /\ \A m \in Nodes : f.parent[m] # Doc
      BY <3>1, <3>2, DeleteChildrenDeletes
    <3>4. Living(f) = {}
      BY <3>3, NothingLives DEF Whole, Booked
    <3>5. dom' = ClearPools(f)
      BY <1>1, <2>1, <3>1
    <3>6. QED
      BY <3>3, <3>4, <3>5, ClearPoolsWhole
  <2>2. CASE ~(source = "memory" /\ e # "SUCCESS")
    BY <1>1, <2>2
  <2>3. QED
    BY <2>1, <2>2
<1>3. Position'
  <2>1. <<>> \in Seq(Joints) /\ Len(<<>>) = 0 /\ 0 < MaxDepth
    BY ParserAssumption
  <2>2. QED
    BY <1>1, <1>2, <2>1 DEF Position, Reading, Modes
<1>4. QED
  BY <1>1, <1>2, <1>3 DEF Parsed

LEMMA ReturnsNull ==
  ASSUME NEW d, Whole(d), NEW s \in Seq(Joints), Opened(d, s, Null), Len(s) < MaxDepth,
         NEW e \in Errors, Exact(d), ReturnNull(d, e, s)
  PROVE  Parsed'
<1>1. CASE Len(s) = 1
  BY <1>1, OpenedDocument, EndsLoad DEF ReturnNull
<1>2. CASE Len(s) # 1
  <2>1. /\ dom' = d /\ error' = e /\ mode' = "fail" /\ cur' = Last(s)
        /\ stack' = Front(s)
    BY <1>2 DEF ReturnNull
  <2>2. Len(s) > 1 /\ Len(s) \in Nat
    <3>1. Len(s) > 0
      BY DEF Opened
    <3>2. PICK m \in Nat : m = Len(s)
      BY LenProperties
    <3>3. m > 1
      BY <1>2, <3>1, <3>2
    <3>4. QED
      BY <3>2, <3>3
  <2>3. Last(s) \in Nodes /\ Last(s) \in Orphans(d)
    BY <1>2, TopIs
  <2>4. PICK x \in {Null, Last(s)} : x = Last(s)
    OBVIOUS
  <2>5. \A m \in Nodes : m \in Orphans(d) <=> m = x \/ (m \in Orphans(d) /\ m # Last(s))
    BY <2>3, <2>4
  <2>6. \A m \in Orphans(d) : d.kind[m] = d.kind[m]
    OBVIOUS
  <2>7. Opened(d, Front(s), x)
    BY <2>2, <2>5, <2>6, OpenedLess
  <2>8. Front(s) \in Seq(Joints) /\ Len(Front(s)) < MaxDepth
    BY <2>2, FrontIs, ParserAssumption
  <2>9. Position'
    BY <2>1, <2>3, <2>4, <2>7, <2>8 DEF Position, Reading, Modes
  <2>10. QED
    BY <2>1, <2>9 DEF Parsed
<1>3. QED
  BY <1>1, <1>2

LEMMA Fails ==
  ASSUME DocInv, Reading, NEW d, Whole(d), Exact(d), NEW n \in Nodes, Opened(d, stack, n),
         NEW e \in Errors, Fail(d, e, n)
  PROVE  Parsed'
<1>1. /\ dom' = d /\ error' = e /\ mode' = "fail" /\ cur' = n
      /\ stack' = stack
  BY DEF Fail
<1>2. stack \in Seq(Joints) /\ Len(stack) < MaxDepth
  BY DEF DocInv, Position, Ranges
<1>3. Position'
  BY <1>1, <1>2 DEF Position, Reading, Modes
<1>4. QED
  BY <1>1, <1>2, <1>3 DEF Parsed

LEMMA Continues ==
  ASSUME DocInv, ~Error, NEW d, Whole(d), Exact(d), NEW s \in Seq(Joints),
         Len(s) < MaxDepth, Opened(d, s, Null), stack' = s, Continue(d)
  PROVE  Parsed'
<1>1. /\ dom' = d /\ mode' = "node" /\ cur' = Null /\ stack' = s
      /\ error' = error
  BY DEF Continue
<1>2. error \in Errors  /\ error = "SUCCESS"
  BY DEF DocInv, Ranges, Error
<1>3. Position'
  BY <1>1, <1>2 DEF Position, Reading, Modes, Error
<1>4. QED
  BY <1>1, <1>2, <1>3 DEF Parsed
(* The node whose children are read, where the parser is.                    *)
TopReady(d, n) ==
  n \in Joints /\ Holds(d, n) /\ (n = Doc \/ (n \in Living(d) /\ d.parent[n] = Null))

LEMMA ReadingNode ==
  ASSUME DocInv, mode = "node"
  PROVE  /\ Whole(dom) /\ stack \in Seq(Joints) /\ Len(stack) < MaxDepth
         /\ Opened(dom, stack, Null) /\ TopReady(dom, Top)
         /\ error = "SUCCESS" /\ error \in Errors
         /\ Exact(dom) /\ cur = Null /\ Reading /\ ~Error
<1>1. Reading
  BY DEF Reading
<1>2. /\ Whole(dom) /\ stack \in Seq(Joints) /\ Len(stack) < MaxDepth /\ cur = Null
      /\ Opened(dom, stack, Null) /\ error = "SUCCESS" /\ error \in Errors
      /\ Exact(dom) /\ ~Error
  BY <1>1 DEF DocInv, Position, Ranges, Error
<1>3. TopReady(dom, Top)
  BY <1>2, TopIs DEF TopReady, Orphans, Top
<1>4. QED
  BY <1>1, <1>2, <1>3

LEMMA ReadingTag ==
  ASSUME DocInv, mode = "tag"
  PROVE  /\ Whole(dom) /\ stack \in Seq(Joints) /\ Len(stack) < MaxDepth
         /\ cur \in Nodes /\ cur \in Orphans(dom) /\ cur \in Living(dom)
         /\ dom.kind[cur] = "element"
         /\ Opened(dom, stack, cur) /\ TopReady(dom, Top) /\ Top # cur
         /\ error = "SUCCESS" /\ error \in Errors
         /\ Exact(dom) /\ Reading /\ ~Error
<1>1. Reading
  BY DEF Reading
<1>2. /\ Whole(dom) /\ stack \in Seq(Joints) /\ Len(stack) < MaxDepth
      /\ cur \in Nodes /\ dom.kind[cur] = "element"
      /\ Opened(dom, stack, cur) /\ error = "SUCCESS" /\ error \in Errors
      /\ Exact(dom) /\ ~Error
  BY <1>1 DEF DocInv, Position, Ranges, Error
<1>3. TopReady(dom, Top) /\ Top # cur
  BY <1>2, TopIs DEF TopReady, Orphans, Top
<1>4. cur \in Orphans(dom) /\ cur \in Living(dom)
  BY <1>2 DEF Opened, Orphans
<1>5. QED
  BY <1>1, <1>2, <1>3, <1>4

LEMMA NodeBegun ==
  ASSUME DocInv, mode = "node", Free(dom) # {}, NEW kind \in Kinds,
         NEW name \in Names \cup {Null}, NEW d, d = CreateUnlinkedNode(dom, kind, name),
         NEW n, n = Fresh(dom)
  PROVE  /\ Created(dom, d, n) /\ d.kind[n] = kind /\ Opened(d, stack, n)
         /\ Exact(d)
<1>1. Created(dom, d, n) /\ d.kind[n] = kind
  BY ReadingNode, Creates
<1>2. /\ n \in Nodes /\ n \notin Living(dom) /\ Orphans(d) = Orphans(dom) \cup {n}
      /\ \A m \in Nodes \ {n} : d.kind[m] = dom.kind[m]
      /\ SameExcess(dom, Orphans(dom), d, Orphans(d))
  BY <1>1 DEF Created
<1>3. /\ \A m \in Orphans(d) : d.kind[m] = dom.kind[m] \/ m = n
      /\ \A m \in Nodes : m \in Orphans(d) <=> m = n \/ (m \in Orphans(dom) /\ m # Null)
      /\ n \in Nodes \cup {Null}
  BY <1>2, JointsAre DEF Orphans, Living, Joints
<1>4. Opened(d, stack, n)
  BY <1>2, <1>3, ReadingNode, OpenedWith
<1>5. Exact(d)
  BY <1>2, ReadingNode, ExactSame
<1>6. QED
  BY <1>1, <1>4, <1>5

(* The node recognised is no more, or has got a parent.                      *)
LEMMA OpenedWithout ==
  ASSUME NEW d, NEW s \in Seq(Joints), NEW c, Opened(d, s, c), NEW e,
         Remains(d, e), Orphans(e) = Orphans(d) \ {c}
  PROVE  Opened(e, s, Null)
<1>1. \A m \in Orphans(e) : e.kind[m] = d.kind[m] \/ m = Null
  BY DEF Remains, Orphans
<1>2. \A m \in Nodes : m \in Orphans(e) <=> m = Null \/ (m \in Orphans(d) /\ m # c)
  BY JointsAre DEF Joints
<1>3. Null \in Nodes \cup {Null}
  OBVIOUS
<1>4. QED
  BY <1>1, <1>2, <1>3, OpenedWith

LEMMA MovedOpened ==
  ASSUME NEW d, NEW s \in Seq(Joints), NEW c, Opened(d, s, c), NEW e, NEW u, Moved(d, e, u, c)
  PROVE  Whole(e) /\ Opened(e, s, Null) /\ (Exact(d) => Exact(e))
<1>1. /\ \A m \in Orphans(e) : e.kind[m] = d.kind[m] \/ m = Null
      /\ Orphans(e) = Orphans(d) \ {c}
  BY DEF Moved, SameNodes
<1>2. \A m \in Nodes : m \in Orphans(e) <=> m = Null \/ (m \in Orphans(d) /\ m # c)
  BY <1>1, JointsAre DEF Joints
<1>3. Null \in Nodes \cup {Null}
  OBVIOUS
<1>4. Opened(e, s, Null)
  BY <1>1, <1>2, <1>3, OpenedWith
<1>5. QED
  BY <1>4, ExactSame DEF Moved

LEMMA ReadLeafKeeps ==
  ASSUME DocInv, NEW form \in LeafKinds, ReadLeaf(form) PROVE Parsed'
<1>1. mode = "node" /\ Free(dom) # {}
  BY DEF ReadLeaf, InNode
<1>2. PICK d : d = Create(form, Null)
  OBVIOUS
<1>3. PICK n : n = Fresh(dom)
  OBVIOUS
<1>4. KindOf(form) \in Kinds /\ Null \in Names \cup {Null}
  BY ParserAssumption DEF KindOf, LeafForms, Kinds
<1>5. Created(dom, d, n) /\ Opened(d, stack, n) /\ Exact(d)
  BY <1>1, <1>2, <1>3, <1>4, NodeBegun DEF Create
<1>6. Whole(d) /\ n \in Orphans(d) /\ n \in Living(d) /\ n \notin Living(dom) /\ n \in Nodes
      /\ n # Null /\ SameLinks(dom, d) /\ \A m \in Nodes \ {n} : d.kind[m] = dom.kind[m]
  BY <1>5, JointsAre DEF Created, Joints
<1>7. CASE form = "declaration" /\ ~WellLocated(dom)
  <2>1. PICK e : e = DeleteNode(d, n)
    OBVIOUS
  <2>2. ReturnNull(e, "PARSING_DECLARATION", stack)
    BY <1>2, <1>3, <1>7, <2>1 DEF ReadLeaf
  <2>3. Whole(e) /\ Remains(d, e) /\ Orphans(e) = Orphans(d) \ {n} /\ Exact(e)
    BY <1>5, <1>6, <2>1, DeleteOrphan
  <2>4. Opened(e, stack, Null)
    BY <1>1, <1>5, <2>3, ReadingNode, OpenedWithout
  <2>5. "PARSING_DECLARATION" \in Errors /\ "PARSING_DECLARATION" # "SUCCESS"
    BY DEF Errors, LeafErrors
  <2>6. QED
    BY <1>1, <2>2, <2>3, <2>4, <2>5, ReadingNode, ReturnsNull
<1>8. CASE ~(form = "declaration" /\ ~WellLocated(dom))
  <2>1. PICK e : e = InsertEndChild(d, Top, n)
    OBVIOUS
  <2>2. Continue(e) /\ stack' = stack
    BY <1>2, <1>3, <1>8, <2>1 DEF ReadLeaf
  <2>3. PICK u : u = Top
    OBVIOUS
  <2>4. u \in Joints /\ Holds(d, u) /\ u # n /\ (u = Doc \/ d.parent[u] = Null)
    <3>1. TopReady(dom, u)
      BY <1>1, <2>3, ReadingNode
    <3>2. QED
      BY <1>6, <3>1, JointsAre DEF TopReady, Holds, SameLinks, Living
  <2>5. Moved(d, e, u, n)
    BY <1>6, <2>1, <2>3, <2>4, Attaches
  <2>6. Whole(e) /\ Opened(e, stack, Null) /\ (Exact(d) => Exact(e))
    BY <1>1, <1>5, <2>5, ReadingNode, MovedOpened
  <2>7. QED
    BY <1>1, <1>5, <2>2, <2>6, ReadingNode, Continues
<1>9. QED
  BY <1>7, <1>8
LEMMA ReadEndlessLeafKeeps ==
  ASSUME DocInv, NEW form \in LeafKinds, ReadEndlessLeaf(form) PROVE Parsed'
<1>1. mode = "node" /\ Free(dom) # {}
  BY DEF ReadEndlessLeaf, InNode
<1>2. PICK d : d = Create(form, Null)
  OBVIOUS
<1>3. PICK n : n = Fresh(dom)
  OBVIOUS
<1>4. KindOf(form) \in Kinds /\ Null \in Names \cup {Null}
  BY ParserAssumption DEF KindOf, LeafForms, Kinds
<1>5. Created(dom, d, n) /\ Opened(d, stack, n) /\ Exact(d)
  BY <1>1, <1>2, <1>3, <1>4, NodeBegun DEF Create
<1>6. Whole(d) /\ n \in Nodes
  BY <1>5 DEF Created
<1>7. PICK e \in Errors : Fail(d, e, n)
  <2>1. PICK e \in {ErrorOf(form)} \cup IF form = "text" THEN {error} ELSE {} :
          Fail(d, e, n)
    BY <1>2, <1>3 DEF ReadEndlessLeaf
  <2>2. ErrorOf(form) \in Errors
    BY ParserAssumption DEF ErrorOf, LeafForms, Kinds, Errors, LeafErrors
  <2>3. error \in Errors
    BY <1>1, ReadingNode
  <2>4. QED
    BY <2>1, <2>2, <2>3
<1>8. QED
  BY <1>1, <1>5, <1>6, <1>7, ReadingNode, Fails

LEMMA ReadTagNameKeeps ==
  ASSUME DocInv, NEW name \in Names, NEW type \in {"open", "closing"},
         ReadTagName(name, type)
  PROVE  Parsed'
<1>1. mode = "node" /\ Free(dom) # {}
  BY DEF ReadTagName, InNode
<1>2. PICK d : d = Create("element", name)
  OBVIOUS
<1>3. PICK n : n = Fresh(dom)
  OBVIOUS
<1>4. KindOf("element") = "element" /\ "element" \in Kinds /\ name \in Names \cup {Null}
  BY DEF KindOf, Kinds
<1>5. /\ Created(dom, d, n) /\ d.kind[n] = "element" /\ Opened(d, stack, n)
      /\ Exact(d)
  BY <1>1, <1>2, <1>3, <1>4, NodeBegun DEF Create
<1>6. Whole(d) /\ n \in Nodes
  BY <1>5 DEF Created
<1>7. /\ dom' = d /\ cur' = n /\ mode' = "tag" /\ error' = error /\ stack' = stack
     
  BY <1>2, <1>3 DEF ReadTagName
<1>8. Position'
  BY <1>1, <1>5, <1>6, <1>7, ReadingNode DEF Position, Reading, Modes, Error
<1>9. QED
  BY <1>1, <1>6, <1>7, <1>8, ReadingNode DEF Parsed

LEMMA ReadBadNameKeeps ==
  ASSUME DocInv, ReadBadName PROVE Parsed'
<1>1. mode = "node" /\ Free(dom) # {}
  BY DEF ReadBadName, InNode
<1>2. PICK d : d = Create("element", Null)
  OBVIOUS
<1>3. PICK n : n = Fresh(dom)
  OBVIOUS
<1>4. KindOf("element") = "element" /\ "element" \in Kinds /\ Null \in Names \cup {Null}
  BY DEF KindOf, Kinds
<1>5. Created(dom, d, n) /\ Opened(d, stack, n) /\ Exact(d)
  BY <1>1, <1>2, <1>3, <1>4, NodeBegun DEF Create
<1>6. Whole(d) /\ n \in Nodes
  BY <1>5 DEF Created
<1>7. Fail(d, error, n)
  BY <1>2, <1>3 DEF ReadBadName
<1>8. QED
  BY <1>1, <1>5, <1>6, <1>7, ReadingNode, Fails

LEMMA ReadEndOfFileKeeps ==
  ASSUME DocInv, ReadEndOfFile PROVE Parsed'
<1>1. mode = "node" /\ ReturnNull(dom, error, stack)
  BY DEF ReadEndOfFile, InNode
<1>2. QED
  BY <1>1, ReadingNode, ReturnsNull

LEMMA ReadAttributeKeeps ==
  ASSUME DocInv, NEW x \in AttrNames, ReadAttribute(x) PROVE Parsed'
<1>1. mode = "tag"
  BY DEF ReadAttribute, InTag
<1>2. PICK d : d = [dom EXCEPT !.attrs[cur] = Append(@, x), !.allocs["attribute"] = @ + 1]
  OBVIOUS
<1>3. /\ dom' = d /\ error' = error /\ stack' = stack /\ cur' = cur /\ mode' = mode
     
  BY <1>2 DEF ReadAttribute
<1>4. Attributed(dom, d)
  BY <1>1, <1>2, ReadingTag, AddsAttribute
<1>5. Whole(d) /\ d.kind = dom.kind /\ Orphans(d) = Orphans(dom)
  BY <1>4 DEF Attributed
<1>6. Exact(d)
  BY <1>1, <1>4, ReadingTag, ExactSame DEF Attributed
<1>7. Opened(d, stack, cur)
  BY <1>1, <1>5, ReadingTag DEF Opened
<1>8. Position'
  BY <1>1, <1>3, <1>5, <1>6, <1>7, ReadingTag DEF Position, Reading, Modes, Error
<1>9. QED
  BY <1>1, <1>3, <1>5, <1>8, ReadingTag DEF Parsed

LEMMA FailInTagKeeps ==
  ASSUME DocInv, FailInTag PROVE Parsed'
<1>1. mode = "tag"
  BY DEF FailInTag, InTag
<1>2. PICK e \in Errors : Fail(dom, e, cur)
  BY DEF FailInTag, Errors
<1>3. QED
  BY <1>1, <1>2, ReadingTag, Fails

LEMMA ReadSealedEndKeeps ==
  ASSUME DocInv, ReadSealedEnd PROVE Parsed'
<1>1. mode = "tag"
  BY DEF ReadSealedEnd, InTag
<1>2. PICK c : c = cur
  OBVIOUS
<1>3. PICK u : u = Top
  OBVIOUS
<1>4. PICK e : e = InsertEndChild(dom, u, c)
  OBVIOUS
<1>5. Continue(e) /\ stack' = stack
  BY <1>2, <1>3, <1>4 DEF ReadSealedEnd
<1>6. u \in Joints /\ Holds(dom, u) /\ u # c /\ (u = Doc \/ dom.parent[u] = Null)
  BY <1>1, <1>2, <1>3, ReadingTag DEF TopReady
<1>7. Moved(dom, e, u, c)
  BY <1>1, <1>2, <1>4, <1>6, ReadingTag, Attaches
<1>8. Whole(e) /\ Opened(e, stack, Null) /\ (Exact(dom) => Exact(e))
  BY <1>1, <1>2, <1>7, ReadingTag, MovedOpened
<1>9. QED
  BY <1>1, <1>5, <1>8, ReadingTag, Continues

LEMMA MismatchKeeps ==
  ASSUME NEW d, Whole(d), Exact(d), NEW s \in Seq(Joints), NEW n, Opened(d, s, n),
         n \in Orphans(d), Len(s) < MaxDepth, Mismatch(d, n, s)
  PROVE  Parsed'
<1>1. PICK e : e = DeleteNode(d, n)
  OBVIOUS
<1>2. Whole(e) /\ Remains(d, e) /\ Orphans(e) = Orphans(d) \ {n} /\ Exact(e)
  BY <1>1, DeleteOrphan
<1>3. Opened(e, s, Null)
  BY <1>2, OpenedWithout
<1>4. "MISMATCHED_ELEMENT" \in Errors /\ "MISMATCHED_ELEMENT" # "SUCCESS"
  BY DEF Errors
<1>5. ReturnNull(e, "MISMATCHED_ELEMENT", s)
  BY <1>1 DEF Mismatch
<1>6. QED
  BY <1>2, <1>3, <1>4, <1>5, ReturnsNull

LEMMA ReadOpeningEndKeeps ==
  ASSUME DocInv, ReadOpeningEnd PROVE Parsed'
<1>1. mode = "tag"
  BY DEF ReadOpeningEnd, InTag
<1>2. CASE Mismatch(dom, cur, stack)
  BY <1>1, <1>2, ReadingTag, MismatchKeeps
<1>3. CASE Fail(dom, "DEPTH_EXCEEDED", cur)
  <2>1. "DEPTH_EXCEEDED" \in Errors
    BY DEF Errors
  <2>2. QED
    BY <1>1, <1>3, <2>1, ReadingTag, Fails
<1>4. CASE Len(stack) + 1 # MaxDepth /\ stack' = Append(stack, cur) /\ Continue(dom)
  <2>1. PICK s : s = Append(stack, cur)
    OBVIOUS
  <2>2. Opened(dom, s, Null) /\ s \in Seq(Joints) /\ Len(s) = Len(stack) + 1
    BY <1>1, <2>1, ReadingTag, OpenedMore
  <2>3. Len(s) < MaxDepth
    BY <1>1, <1>4, <2>2, ReadingTag, LenProperties, ParserAssumption
  <2>4. QED
    BY <1>1, <1>4, <2>1, <2>2, <2>3, ReadingTag, Continues
<1>5. QED
  BY <1>2, <1>3, <1>4 DEF ReadOpeningEnd
LEMMA ReadClosingEndKeeps ==
  ASSUME DocInv, ReadClosingEnd PROVE Parsed'
<1>1. mode = "tag"
  BY DEF ReadClosingEnd, InTag
<1>2. PICK d : d = DeleteAlone(SetTracked(dom, cur), cur)
  OBVIOUS
<1>3. Deleted(dom, d, cur)
  BY <1>1, <1>2, ReadingTag, DeleteTracked
<1>4. /\ Whole(d) /\ Remains(dom, d) /\ Orphans(d) = Orphans(dom) \ {cur}
      /\ Exact(d)
  BY <1>1, <1>3, ReadingTag, ExactSame DEF Deleted
<1>5. Opened(d, stack, Null)
  BY <1>1, <1>4, ReadingTag, OpenedWithout
<1>6. CASE Top = Doc
  <2>1. EndLoad(d, error)
    BY <1>2, <1>6 DEF ReadClosingEnd
  <2>2. Orphans(d) = {}
    BY <1>1, <1>5, <1>6, ReadingTag, TopIs, OpenedDocument DEF Top
  <2>3. QED
    BY <1>1, <1>4, <2>1, <2>2, ReadingTag, EndsLoad
<1>7. CASE Top # Doc
  <2>1. PICK s : s = Front(stack)
    OBVIOUS
  <2>2. PICK n \in {Null, Last(stack)} : n = Top
    BY DEF Top
  <2>3. Len(stack) > 1
    <3>1. stack \in Seq(Joints) /\ Len(stack) > 0
      BY <1>1, <1>5, ReadingTag DEF Opened
    <3>2. PICK l : l = Len(stack)
      OBVIOUS
    <3>3. l \in Nat /\ l # 1 /\ l > 0
      BY <1>5, <1>7, <3>1, <3>2, TopIs DEF Top
    <3>4. l > 1
      BY ONLY <3>3
    <3>5. QED
      BY <3>2, <3>4
  <2>4. n \in Orphans(d) /\ n \in Nodes /\ n \in Living(d) /\ n = Last(stack)
    BY <1>1, <1>5, <1>7, <2>2, ReadingTag, TopIs DEF Top, Orphans
  <2>5. /\ \A m \in Orphans(d) : d.kind[m] = d.kind[m]
        /\ \A m \in Nodes : m \in Orphans(d) <=> m = n \/ (m \in Orphans(d) /\ m # Last(stack))
    BY <2>4
  <2>6. Opened(d, s, n)
    BY <1>1, <1>5, <2>1, <2>3, <2>5, ReadingTag, OpenedLess
  <2>7. s \in Seq(Joints) /\ Len(s) < MaxDepth
    BY <1>1, <2>1, <2>3, ReadingTag, FrontIs, LenProperties, ParserAssumption
  <2>8. CASE dom.name[cur] # dom.name[Top]
    <3>1. Mismatch(d, n, s)
      BY <1>2, <1>7, <2>1, <2>2, <2>8 DEF ReadClosingEnd
    <3>2. QED
      BY <1>1, <1>4, <2>4, <2>6, <2>7, <3>1, ReadingTag, MismatchKeeps
  <2>9. CASE dom.name[cur] = dom.name[Top]
    <3>1. PICK u : u = Last(s)
      OBVIOUS
    <3>2. PICK e : e = InsertEndChild(d, u, n)
      OBVIOUS
    <3>3. Continue(e) /\ stack' = s
      BY <1>2, <1>7, <2>1, <2>2, <2>9, <3>1, <3>2 DEF ReadClosingEnd
    <3>4. u \in Joints /\ Holds(d, u) /\ u # n /\ (u = Doc \/ d.parent[u] = Null)
      BY <2>6, <2>7, <3>1, TopIs DEF Orphans
    <3>5. Moved(d, e, u, n)
      BY <1>4, <2>4, <3>2, <3>4, Attaches
    <3>6. Whole(e) /\ Opened(e, s, Null) /\ (Exact(d) => Exact(e))
      BY <2>6, <2>7, <3>5, MovedOpened
    <3>7. QED
      BY <1>1, <1>4, <2>7, <3>3, <3>6, ReadingTag, Continues
  <2>10. QED
    BY <2>8, <2>9
<1>8. QED
  BY <1>6, <1>7

LEMMA UnwindKeepsWhole ==
  ASSUME DocInv, Unwind PROVE Parsed'
<1>1. mode = "fail" /\ Reading
  BY DEF Unwind, Reading
<1>2. /\ Whole(dom) /\ stack \in Seq(Joints) /\ Len(stack) < MaxDepth /\ cur \in Nodes
      /\ Opened(dom, stack, cur) /\ error \in Errors /\ Exact(dom)
  BY <1>1 DEF DocInv, Position, Ranges
<1>3. cur \in Orphans(dom)
  BY <1>2 DEF Opened
<1>4. PICK e : e = IF Error THEN error ELSE "PARSING"
  OBVIOUS
<1>5. e \in Errors /\ e # "SUCCESS"
  BY <1>2, <1>4 DEF Error, Errors
<1>6. PICK d : d = DeleteNode(dom, cur)
  OBVIOUS
<1>7. ReturnNull(d, e, stack)
  BY <1>4, <1>6 DEF Unwind
<1>8. Whole(d) /\ Remains(dom, d) /\ Orphans(d) = Orphans(dom) \ {cur} /\ Exact(d)
  BY <1>2, <1>3, <1>6, DeleteOrphan
<1>9. Opened(d, stack, Null)
  BY <1>2, <1>8, OpenedWithout
<1>10. QED
  BY <1>2, <1>5, <1>7, <1>8, <1>9, ReturnsNull

(* Between two files.                                                       *)
LEMMA Cleared ==
  ASSUME DocInv, mode \in {"idle", "loaded"}, NEW d, d = Clear(dom)
  PROVE  /\ Whole(d) /\ Orphans(d) = {} /\ Living(d) = {} /\ Exact(d)
         /\ stack = <<>> /\ cur = Null
<1>1. /\ Whole(dom) /\ stack = <<>> /\ cur = Null
      /\ Exact(dom)
  BY DEF DocInv, Position, Ranges, Reading
<1>2. /\ Whole(d) /\ Orphans(d) = {} /\ Living(d) = {}
      /\ SameExcess(dom, Orphans(dom), d, Orphans(d))
  BY <1>1, ClearEmpties
<1>3. QED
  BY <1>1, <1>2, ExactSame

LEMMA BeginLoadKeeps ==
  ASSUME DocInv, NEW from \in {"file", "memory"}, BeginLoad(from) PROVE Parsed'
<1>1. mode \in {"idle", "loaded"}
  BY DEF BeginLoad
<1>2. PICK d : d = Clear(dom)
  OBVIOUS
<1>3. /\ dom' = d /\ error' = "SUCCESS" /\ stack' = <<Doc>> /\ mode' = "node"
      /\ cur' = cur
  BY <1>2 DEF BeginLoad
<1>4. /\ Whole(d) /\ Orphans(d) = {} /\ Exact(d)
      /\ cur = Null
  BY <1>1, <1>2, Cleared
<1>5. PICK s : s = <<Doc>>
  OBVIOUS
<1>6. s \in Seq(Joints) /\ Len(s) = 1 /\ s[1] = Doc
  BY <1>5 DEF Joints
<1>7. Opened(d, s, Null)
  <2>1. 2..1 = {} /\ \A i \in 1..1 : i = 1
    OBVIOUS
  <2>2. \A m \in Nodes : m # Null /\ Doc # Null
    BY JointsAre DEF Joints
  <2>3. Doc # Null
    BY JointsAre DEF Joints
  <2>4. QED
    BY <1>4, <1>6, <2>1, <2>2, <2>3 DEF Opened
<1>8. "SUCCESS" \in Errors /\ Len(s) < MaxDepth
  BY <1>6, ParserAssumption DEF Errors
<1>9. Position'
  BY <1>3, <1>4, <1>5, <1>6, <1>7, <1>8 DEF Position, Reading, Modes, Error
<1>10. QED
  BY <1>3, <1>4, <1>8, <1>9 DEF Parsed

LEMMA RefuseLoadKeeps ==
  ASSUME DocInv, NEW from \in {"file", "memory"}, RefuseLoad(from) PROVE Parsed'
<1>1. mode \in {"idle", "loaded"}
  BY DEF RefuseLoad
<1>2. PICK d : d = Clear(dom)
  OBVIOUS
<1>3. /\ Whole(d) /\ Orphans(d) = {} /\ Living(d) = {} /\ Exact(d)
      /\ stack = <<>> /\ cur = Null
  BY <1>1, <1>2, Cleared
<1>4. error' \in Errors /\ mode' = "loaded" /\ stack' = stack /\ cur' = cur
  BY DEF RefuseLoad, Errors
<1>5. dom' = ClearPools(d) \/ dom' = d
  BY <1>2 DEF RefuseLoad
<1>6. Whole(dom') /\ Orphans(dom') = {} /\ Exact(dom')
  BY <1>3, <1>5, ClearPoolsWhole
<1>7. <<>> \in Seq(Joints) /\ Len(<<>>) = 0 /\ 0 < MaxDepth
  BY ParserAssumption
<1>8. Position'
  BY <1>3, <1>4, <1>6, <1>7 DEF Position, Reading, Modes
<1>9. QED
  BY <1>4, <1>6, <1>8 DEF Parsed
-----------------------------------------------------------------------------
(* The changes made to the tree.                                            *)
Edited(d, e) == Whole(e) /\ SameExcess(d, Orphans(d), e, Orphans(e))

LEMMA EditKeeps ==
  ASSUME DocInv, NEW d, Edited(dom, d), Edit(d) PROVE DocInv'
<1>1. /\ mode \in {"idle", "loaded"} /\ mode' = "idle" /\ dom' = d /\ edits < MaxEdits
      /\ edits' = edits + 1 /\ source' = "file" /\ closing' = "open"
      /\ error' = error /\ stack' = stack /\ cur' = cur /\ loads' = loads
  BY DEF Edit, Still
<1>2. Whole(d) /\ (Exact(dom) => Exact(d))
  BY ExactSame DEF Edited
<1>3. stack = <<>> /\ cur = Null /\ Len(stack) < MaxDepth /\ Exact(dom)
      /\ stack \in Seq(Joints)
  BY <1>1 DEF DocInv, Position, Reading
<1>4. Position'
  BY <1>1, <1>2, <1>3 DEF Position, Reading, Modes
<1>5. Ranges'
  <2>1. edits + 1 \in 0..MaxEdits
    BY <1>1, EditAssumption DEF DocInv, Ranges
  <2>2. QED
    BY <1>1, <2>1 DEF DocInv, Ranges, ClosingTypes
<1>6. QED
  BY <1>1, <1>2, <1>4, <1>5 DEF DocInv

LEMMA MovesEdit ==
  ASSUME NEW d, NEW e, NEW u, NEW c, Moved(d, e, u, c) PROVE Edited(d, e)
BY DEF Moved, Edited

LEMMA EditedTwice ==
  ASSUME NEW d, NEW e, NEW f, Edited(d, e), Edited(e, f) PROVE Edited(d, f)
BY DEF Edited, SameExcess

LEMMA HoldersAre ==
  /\ Alive = Living(dom)
  /\ \A n \in Containers : n \in Joints /\ Holds(dom, n) /\ (n = Doc \/ n \in Living(dom))
  /\ \A n \in Elements : n \in Nodes /\ n \in Containers /\ n \in Living(dom)
BY JointsAre DEF Alive, Living, Containers, Elements, Holds, Joints

(* What lies under a node is under no other one that may hold it.            *)
LEMMA FreeToMove ==
  ASSUME NEW d, NEW c \in Living(d), NEW u, u \notin Subtree(d, c)
  PROVE  \E T \in SUBSET Nodes : c \in T /\ ChildrenOf(d, T) \subseteq T /\ u \notin T
<1>1. c \in Nodes /\ c \in Joints
  BY DEF Living, Joints
<1>2. PICK T : T = Subtree(d, c)
  OBVIOUS
<1>3. Under(d, c, T)
  BY <1>1, <1>2, SubtreeUnder
<1>4. T \in SUBSET Nodes
  BY <1>1, <1>3 DEF Under
<1>5. c \in T /\ ChildrenOf(d, T) \subseteq T
  BY <1>3 DEF Under
<1>6. QED
  BY <1>2, <1>4, <1>5

LEMMA NewNodeKeeps ==
  ASSUME DocInv, NEW kind \in Kinds, NewNode(kind) PROVE DocInv'
<1>1. PICK name \in NameFor(kind) : Edit(CreateUnlinkedNode(dom, kind, name))
  BY DEF NewNode
<1>2. name \in Names \cup {Null} /\ Free(dom) # {} /\ Whole(dom)
  BY <1>1 DEF NameFor, NewNode, DocInv
<1>3. PICK d : d = CreateUnlinkedNode(dom, kind, name)
  OBVIOUS
<1>4. Created(dom, d, Fresh(dom))
  BY <1>2, <1>3, Creates
<1>5. QED
  BY <1>1, <1>3, <1>4, EditKeeps DEF Created, Edited

(* A fresh node n goes under u.                                              *)
LEMMA InsertsFresh ==
  ASSUME NEW d, NEW e, NEW n, Created(d, e, n), NEW u \in Nodes, u \in Living(d), Holds(d, u)
  PROVE  /\ Edited(d, InsertEndChild(e, u, n)) /\ Edited(d, InsertFirstChild(e, u, n))
<1>1. /\ Whole(e) /\ n \in Nodes /\ n \in Living(e) /\ u # n /\ e.kind[u] = d.kind[u]
      /\ ChildrenOf(e, {n}) = {} /\ Edited(d, e)
  BY DEF Created, Edited
<1>2. PICK T \in SUBSET Nodes : T = {n}
  BY <1>1
<1>3. u \in Joints /\ Holds(e, u) /\ n \in T /\ ChildrenOf(e, T) \subseteq T /\ u \notin T
  BY <1>1, <1>2, JointsAre DEF Joints, Holds
<1>4. Moved(e, InsertEndChild(e, u, n), u, n)
  BY <1>1, <1>3, InsertEndChildMoves
<1>5. Moved(e, InsertFirstChild(e, u, n), u, n)
  BY <1>1, <1>3, InsertFirstChildMoves
<1>6. QED
  BY <1>1, <1>4, <1>5, MovesEdit, EditedTwice

LEMMA InsertNewKeeps ==
  ASSUME DocInv, NEW kind \in Kinds, NEW n \in Elements, InsertNew(n, kind) PROVE DocInv'
<1>1. PICK name \in NameFor(kind) :
        Edit(InsertEndChild(CreateUnlinkedNode(dom, kind, name), n, Fresh(dom)))
  BY DEF InsertNew
<1>2. name \in Names \cup {Null} /\ Free(dom) # {} /\ Whole(dom)
  BY <1>1 DEF NameFor, InsertNew, DocInv
<1>3. PICK d : d = CreateUnlinkedNode(dom, kind, name)
  OBVIOUS
<1>4. PICK m : m = Fresh(dom)
  OBVIOUS
<1>5. Created(dom, d, m)
  BY <1>2, <1>3, <1>4, Creates
<1>6. n \in Nodes /\ n \in Living(dom) /\ Holds(dom, n)
  BY HoldersAre
<1>7. Edited(dom, InsertEndChild(d, n, m))
  BY <1>5, <1>6, InsertsFresh
<1>8. QED
  BY <1>1, <1>3, <1>4, <1>7, EditKeeps

LEMMA SetTextKeeps ==
  ASSUME DocInv, NEW n \in Elements, SetText(n) PROVE DocInv'
<1>1. PICK d : d = CreateUnlinkedNode(dom, "text", Null)
  OBVIOUS
<1>2. PICK m : m = Fresh(dom)
  OBVIOUS
<1>3. Edit(InsertFirstChild(d, n, m)) /\ Free(dom) # {} /\ Whole(dom)
  BY <1>1, <1>2 DEF SetText, DocInv
<1>4. "text" \in Kinds /\ Null \in Names \cup {Null}
  BY DEF Kinds
<1>5. Created(dom, d, m)
  BY <1>1, <1>2, <1>3, <1>4, Creates
<1>6. n \in Nodes /\ n \in Living(dom) /\ Holds(dom, n)
  BY HoldersAre
<1>7. Edited(dom, InsertFirstChild(d, n, m))
  BY <1>5, <1>6, InsertsFresh
<1>8. QED
  BY <1>3, <1>7, EditKeeps

LEMMA InsertLastKeeps ==
  ASSUME DocInv, NEW n \in Containers, NEW c \in Alive, InsertLast(n, c) PROVE DocInv'
<1>1. Whole(dom) /\ Edit(InsertEndChild(dom, n, c)) /\ n \notin Subtree(dom, c)
  BY DEF InsertLast, MayHold, DocInv
<1>2. c \in Living(dom) /\ n \in Joints /\ Holds(dom, n)
  BY HoldersAre
<1>3. PICK T \in SUBSET Nodes : c \in T /\ ChildrenOf(dom, T) \subseteq T /\ n \notin T
  BY <1>1, <1>2, FreeToMove
<1>4. Moved(dom, InsertEndChild(dom, n, c), n, c)
  BY <1>1, <1>2, <1>3, InsertEndChildMoves
<1>5. QED
  BY <1>1, <1>4, MovesEdit, EditKeeps

LEMMA InsertFirstKeeps ==
  ASSUME DocInv, NEW n \in Containers, NEW c \in Alive, InsertFirst(n, c) PROVE DocInv'
<1>1. Whole(dom) /\ Edit(InsertFirstChild(dom, n, c)) /\ n \notin Subtree(dom, c)
  BY DEF InsertFirst, MayHold, DocInv
<1>2. c \in Living(dom) /\ n \in Joints /\ Holds(dom, n)
  BY HoldersAre
<1>3. PICK T \in SUBSET Nodes : c \in T /\ ChildrenOf(dom, T) \subseteq T /\ n \notin T
  BY <1>1, <1>2, FreeToMove
<1>4. Moved(dom, InsertFirstChild(dom, n, c), n, c)
  BY <1>1, <1>2, <1>3, InsertFirstChildMoves
<1>5. QED
  BY <1>1, <1>4, MovesEdit, EditKeeps

LEMMA InsertAfterKeeps ==
  ASSUME DocInv, NEW b \in Alive, NEW c \in Alive, InsertAfter(b, c) PROVE DocInv'
<1>1. PICK u : u = dom.parent[b]
  OBVIOUS
<1>2. /\ Whole(dom) /\ Edit(InsertAfterChild(dom, u, b, c)) /\ u \notin Subtree(dom, c)
      /\ u # Null /\ ~InsertAfterFaults(dom, b, c)
  BY <1>1 DEF InsertAfter, MayHold, DocInv
<1>3. c \in Living(dom) /\ b \in Nodes
  BY HoldersAre DEF Living
<1>4. u \in Joints /\ Holds(dom, u)
  BY <1>1, <1>2, <1>3, JointsAre DEF Whole, Booked, Shape, Holding, Holds, Joints
<1>5. PICK T \in SUBSET Nodes : c \in T /\ ChildrenOf(dom, T) \subseteq T /\ u \notin T
  BY <1>2, <1>3, FreeToMove
<1>6. Moved(dom, InsertAfterChild(dom, u, b, c), u, c)
  BY <1>1, <1>2, <1>3, <1>4, <1>5, InsertAfterChildMoves
<1>7. QED
  BY <1>2, <1>6, MovesEdit, EditKeeps

LEMMA DeleteKeeps ==
  ASSUME DocInv, NEW n \in Alive, Delete(n) PROVE DocInv'
<1>1. Whole(dom) /\ Edit(DeleteNode(dom, n)) /\ n \in Living(dom)
  BY HoldersAre DEF Delete, DocInv
<1>2. PICK d : d = DeleteNode(dom, n)
  OBVIOUS
<1>3. Deleted(dom, d, n)
  BY <1>1, <1>2, DeleteNodeDeletes
<1>4. QED
  BY <1>1, <1>2, <1>3, EditKeeps DEF Deleted, Edited

LEMMA DeleteAllUnderKeeps ==
  ASSUME DocInv, NEW n \in Containers, DeleteAllUnder(n) PROVE DocInv'
<1>1. Whole(dom) /\ Edit(DeleteChildren(dom, n)) /\ n \in Joints /\ (n # Doc => n \in Living(dom))
  BY HoldersAre DEF DeleteAllUnder, DocInv
<1>2. PICK d : d = DeleteChildren(dom, n)
  OBVIOUS
<1>3. Whole(d) /\ SameExcess(dom, Orphans(dom), d, Orphans(d))
  BY <1>1, <1>2, DeleteChildrenDeletes
<1>4. QED
  BY <1>1, <1>2, <1>3, EditKeeps DEF Edited

LEMMA FindOrCreateAttributeKeeps ==
  ASSUME DocInv, NEW n \in Elements, NEW x \in AttrNames, FindOrCreateAttribute(n, x)
  PROVE  DocInv'
<1>1. PICK d : d = [dom EXCEPT !.attrs[n] = Append(@, x), !.allocs["attribute"] = @ + 1]
  OBVIOUS
<1>2. Whole(dom) /\ Edit(d) /\ n \in Living(dom)
  BY <1>1, HoldersAre DEF FindOrCreateAttribute, DocInv
<1>3. Attributed(dom, d)
  BY <1>1, <1>2, AddsAttribute
<1>4. QED
  BY <1>2, <1>3, EditKeeps DEF Attributed, Edited

LEMMA DeleteAttributeKeeps ==
  ASSUME DocInv, NEW n \in Elements, NEW x \in AttrNames, DeleteAttribute(n, x)
  PROVE  DocInv'
<1>1. PICK i \in DOMAIN dom.attrs[n] :
        Edit([dom EXCEPT !.attrs[n] = RemoveAt(@, i), !.allocs["attribute"] = @ - 1])
  BY DEF DeleteAttribute
<1>2. PICK d : d = [dom EXCEPT !.attrs[n] = RemoveAt(@, i), !.allocs["attribute"] = @ - 1]
  OBVIOUS
<1>3. Whole(dom) /\ Edit(d) /\ n \in Living(dom)
  BY <1>1, <1>2, HoldersAre DEF DocInv
<1>4. Attributed(dom, d)
  BY <1>2, <1>3, RemovesAttribute
<1>5. QED
  BY <1>3, <1>4, EditKeeps DEF Attributed, Edited
LEMMA ClearDocumentKeeps ==
  ASSUME DocInv, ClearDocument PROVE DocInv'
<1>1. PICK d : d = Clear(dom)
  OBVIOUS
<1>2. /\ mode \in {"idle", "loaded"} /\ mode' = "idle" /\ dom' = d /\ error' = "SUCCESS"
      /\ edits < MaxEdits /\ edits' = edits + 1 /\ stack' = stack /\ cur' = cur
      /\ closing' = closing /\ source' = source /\ loads' = loads
  BY <1>1 DEF ClearDocument
<1>3. Whole(d) /\ Exact(d) /\ stack = <<>> /\ cur = Null
  BY <1>1, <1>2, Cleared
<1>4. Position'
  BY <1>2, <1>3 DEF DocInv, Position, Reading, Modes
<1>5. Ranges'
  <2>1. edits + 1 \in 0..MaxEdits
    BY <1>2, EditAssumption DEF DocInv, Ranges
  <2>2. QED
    BY <1>2, <2>1 DEF DocInv, Ranges, Errors
<1>6. QED
  BY <1>2, <1>3, <1>4, <1>5 DEF DocInv

(* Printing and reading a text change the mode only.                         *)
LEMMA ModeKeeps ==
  ASSUME DocInv, ~Reading, mode' \in {"idle", "print", "value", "crashed"},
         UNCHANGED <<dom, error, stack, cur, closing, source, loads, edits>>
  PROVE  DocInv'
<1>1. /\ dom' = dom /\ error' = error /\ stack' = stack /\ cur' = cur
      /\ closing' = closing /\ source' = source /\ loads' = loads
      /\ edits' = edits
  OBVIOUS
<1>2. mode # "fail" /\ mode # "tag" /\ stack = <<>>
  BY DEF DocInv, Position, Reading
<1>3. Position'
  BY <1>1, <1>2 DEF DocInv, Position, Reading, Modes
<1>4. Ranges'
  BY <1>1 DEF DocInv, Ranges
<1>5. QED
  BY <1>1, <1>3, <1>4 DEF DocInv

LEMMA EditStepKeeps ==
  ASSUME DocInv, EditStep PROVE DocInv'
<1>1. ASSUME NEW b \in Alive, NEW c \in Alive, InsertAfterCrash(b, c) PROVE DocInv'
  <2>1. /\ ~Reading /\ mode' = "crashed"
        /\ UNCHANGED <<dom, error, stack, cur, closing, source, loads, edits>>
    BY <1>1 DEF InsertAfterCrash, Still, Reading
  <2>2. QED
    BY <2>1, ModeKeeps
<1>2. QED
  BY <1>1, NewNodeKeeps, InsertNewKeeps, InsertLastKeeps, InsertFirstKeeps, InsertAfterKeeps,
     DeleteKeeps, DeleteAllUnderKeeps, SetTextKeeps, FindOrCreateAttributeKeeps,
     DeleteAttributeKeeps, ClearDocumentKeeps DEF EditStep

LEMMA ParseStepParses ==
  ASSUME DocInv, ParserStep PROVE Parsed'
BY BeginLoadKeeps, RefuseLoadKeeps, ReadLeafKeeps, ReadEndlessLeafKeeps, ReadTagNameKeeps,
   ReadBadNameKeeps, ReadEndOfFileKeeps, ReadAttributeKeeps, FailInTagKeeps,
   ReadSealedEndKeeps, ReadOpeningEndKeeps, ReadClosingEndKeeps, UnwindKeepsWhole
   DEF ParserStep, ParseStep

(* What a step of the parser does to everything else.                       *)
LEMMA ParserStepKeeps ==
  ASSUME DocInv, ParserStep, edits' = edits PROVE DocInv'
<1>1. Parsed'
  BY ParseStepParses
<1>2. Len(Lengths) \in Nat
  BY ParserAssumption, LenProperties
<1>3. /\ closing \in ClosingTypes /\ source \in {"file", "memory"}
      /\ loads \in 0..Len(Lengths) /\ edits \in 0..MaxEdits
  BY DEF DocInv, Ranges
<1>4. loads < Len(Lengths) => loads + 1 \in 0..Len(Lengths)
  BY <1>2, <1>3
<1> DEFINE F == /\ closing' \in ClosingTypes /\ source' \in {"file", "memory"}
                /\ loads' \in 0..Len(Lengths)
<1>5. ASSUME NEW from \in {"file", "memory"}, BeginLoad(from) \/ RefuseLoad(from) PROVE F
  BY <1>3, <1>4, <1>5 DEF BeginLoad, RefuseLoad
<1>6. ASSUME UNCHANGED <<source, loads>>, closing' \in ClosingTypes PROVE F
  BY <1>3, <1>6
<1>7. closing \in ClosingTypes /\ "open" \in ClosingTypes /\ "closed" \in ClosingTypes
      /\ "closing" \in ClosingTypes
  BY <1>3 DEF ClosingTypes
<1> HIDE DEF F
<1>8. ASSUME NEW form \in LeafKinds, ReadLeaf(form) PROVE F
  BY <1>6, <1>7, <1>8 DEF ReadLeaf, InNode
<1>9. ASSUME NEW form \in LeafKinds, ReadEndlessLeaf(form) PROVE F
  BY <1>6, <1>7, <1>9 DEF ReadEndlessLeaf, InNode
<1>10. ASSUME NEW name \in Names, NEW type \in {"open", "closing"}, ReadTagName(name, type)
       PROVE  F
  BY <1>6, <1>7, <1>10 DEF ReadTagName, InNode
<1>11. ASSUME ReadBadName PROVE F
  BY <1>6, <1>7, <1>11 DEF ReadBadName, InNode
<1>12. ASSUME ReadEndOfFile PROVE F
  BY <1>6, <1>7, <1>12 DEF ReadEndOfFile, InNode
<1>13. ASSUME NEW x \in AttrNames, ReadAttribute(x) PROVE F
  BY <1>6, <1>7, <1>13 DEF ReadAttribute, InTag
<1>14. ASSUME FailInTag PROVE F
  BY <1>6, <1>7, <1>14 DEF FailInTag, InTag
<1>15. ASSUME ReadSealedEnd PROVE F
  BY <1>6, <1>7, <1>15 DEF ReadSealedEnd, InTag
<1>16. ASSUME ReadOpeningEnd PROVE F
  BY <1>6, <1>7, <1>16 DEF ReadOpeningEnd, InTag
<1>17. ASSUME ReadClosingEnd PROVE F
  BY <1>6, <1>7, <1>17 DEF ReadClosingEnd, InTag
<1>18. ASSUME Unwind PROVE F
  BY <1>6, <1>7, <1>18 DEF Unwind
<1>19. F
  BY <1>5, <1>8, <1>9, <1>10, <1>11, <1>12, <1>13, <1>14, <1>15, <1>16, <1>17, <1>18
     DEF ParserStep, ParseStep
<1>20. QED
  BY <1>1, <1>3, <1>19 DEF F, Parsed, DocInv, Ranges

LEMMA DocInvInit == Init => DocInv
<1> SUFFICES ASSUME Init PROVE DocInv
  OBVIOUS
<1>1. PICK d : d = EmptyTree
  OBVIOUS
<1>2. /\ dom = d /\ error = "SUCCESS" /\ stack = <<>> /\ cur = Null /\ closing = "open"
      /\ mode = "idle" /\ source = "file" /\ loads = 0 /\ edits = 0
  BY <1>1 DEF Init, ParserInit
<1>3. PICK s : s = <<>>
  OBVIOUS
<1>4. s \in Seq(Nodes) /\ s \in Seq(AttrNames) /\ s \in Seq(Joints) /\ Len(s) = 0
      /\ DOMAIN s = {} /\ s \in [1..0 -> Nodes]
  BY <1>3
<1>5. /\ Fields(d) /\ d.allocs = NoAllocs /\ d.untracked = NoAllocs /\ d.unlinked = s
      /\ \A n \in Joints : /\ d.parent[n] = Null /\ d.first[n] = Null /\ d.last[n] = Null
      /\ \A n \in Nodes : d.kind[n] = "free" /\ d.attrs[n] = s
  BY <1>1, <1>3 DEF EmptyTree, Fields, NoPointer, Joints
<1>6. Typed(d)
  BY <1>1, <1>4, <1>3 DEF EmptyTree, Typed, NoPointer, NoAllocs, Pointers
<1>7. d \in Trees
  BY <1>5, <1>6, TreeMeans
<1>8. Chained(d)
  <2>1. ASSUME NEW n \in Joints PROVE Chain(d, n, s, 0)
    <3>1. 1..0 = {} /\ \A m \in Nodes : m \in Joints /\ n # Null
      BY JointsAre DEF Joints
    <3>2. QED
      BY <1>5, <3>1, JointsAre DEF Chain
  <2>2. PICK k \in Nat : k = 0
    OBVIOUS
  <2>3. \A n \in Joints : Chain(d, n, s, k) /\ s \in [1..k -> Nodes]
    BY <1>4, <2>1, <2>2
  <2>4. QED
    BY <2>2, <2>3 DEF Chained
<1>9. Shape(d)
  <2>1. \A n \in Nodes : d.parent[n] = Null /\ n \in Joints
    BY <1>5 DEF Joints
  <2>2. Holding(d)
    BY <2>1 DEF Holding
  <2>3. Acyclic(d)
    <3>1. ASSUME NEW S \in SUBSET Nodes, S # {} PROVE \E m \in S : d.parent[m] \notin S
      <4>1. PICK m \in S : m \in Nodes
        BY <3>1
      <4>2. d.parent[m] \notin S
        BY <2>1, <4>1, JointsAre DEF Joints
      <4>3. QED
        BY <4>2
    <3>2. QED
      BY <3>1 DEF Acyclic
  <2>4. QED
    BY <1>3, <1>5, <1>7, <1>8, <2>2, <2>3 DEF Shape, Bare
<1>10. Living(d) = {} /\ Orphans(d) = {}
  BY <1>5 DEF Living, Orphans
<1>11. Listed(d, {})
  <2>1. 1..0 = {}
    OBVIOUS
  <2>2. QED
    BY <1>4, <1>5, <2>1 DEF Listed, Once, Has
<1>12. \A x : OfPool(d, {}, x) = {}
  BY DEF OfPool
<1>13. \A x \in Pools : d.allocs[x] = 0 /\ d.untracked[x] = 0
  BY <1>5 DEF NoAllocs
<1>14. Attributes(d, Nodes) = {}
  BY <1>4, <1>5 DEF Attributes
<1>15. Counted(d)
  BY <1>10, <1>12, <1>13, <1>14, PoolsAre, FS_EmptySet DEF Counted
<1>16. \A x \in Pools : Excess(d, Orphans(d), x) = 0
  BY <1>10, <1>12, <1>13, FS_EmptySet DEF Excess
<1>17. Whole(d) /\ Exact(d)
  BY <1>9, <1>10, <1>11, <1>15, <1>16 DEF Whole, Booked, Exact
<1>18. Position
  BY <1>2, <1>3, <1>4, <1>17, ParserAssumption DEF Position, Reading, Modes
<1>19. Ranges
  <2>1. Len(Lengths) \in Nat
    BY ParserAssumption, LenProperties
  <2>2. 0 \in 0..Len(Lengths) /\ 0 \in 0..MaxEdits
    BY <2>1, EditAssumption
  <2>3. QED
    BY <1>2, <2>2 DEF Ranges, Errors, ClosingTypes
<1>20. QED
  BY <1>2, <1>17, <1>18, <1>19 DEF DocInv

LEMMA DocInvNext == DocInv /\ [Next]_vars => DocInv'
<1> SUFFICES ASSUME DocInv, [Next]_vars PROVE DocInv'
  OBVIOUS
<1>1. CASE ParserStep /\ UNCHANGED <<printerVars, textVars, edits>>
  BY <1>1, ParserStepKeeps
<1>2. CASE EditStep
  BY <1>2, EditStepKeeps
<1>3. ASSUME NEW c \in BOOLEAN, BeginPrint(c) PROVE DocInv'
  <2>1. /\ ~Reading /\ mode' = "print"
        /\ UNCHANGED <<dom, error, stack, cur, closing, source, loads, edits>>
    BY <1>3 DEF BeginPrint, Still, Reading
  <2>2. QED
    BY <2>1, ModeKeeps
<1>4. CASE EndPrint
  <2>1. /\ ~Reading /\ mode' = "idle"
        /\ UNCHANGED <<dom, error, stack, cur, closing, source, loads, edits>>
    BY <1>4 DEF EndPrint, Reading
  <2>2. QED
    BY <2>1, ModeKeeps
<1>5. CASE BeginValue
  <2>1. /\ ~Reading /\ mode' = "value"
        /\ UNCHANGED <<dom, error, stack, cur, closing, source, loads, edits>>
    BY <1>5 DEF BeginValue, Reading
  <2>2. QED
    BY <2>1, ModeKeeps
<1>6. CASE UNCHANGED <<parserVars, edits>>
  BY <1>6 DEF parserVars, DocInv, Position, Ranges, Reading, Error
<1>7. CASE PrintMore \/ ValueMore \/ UNCHANGED vars
  <2>1. UNCHANGED <<parserVars, edits>>
    BY <1>7 DEF PrintMore, ValueMore, vars
  <2>2. QED
    BY <1>6, <2>1
<1>8. QED
  BY <1>1, <1>2, <1>3, <1>4, <1>5, <1>7 DEF Next

(* The inductive invariant: between any two steps of a parse, and of a change *)
(* to the tree, its pointers agree, what ParseDeep is reading is what is in   *)
(* no tree, and the pools have counted every node.                            *)
THEOREM DocInvAlways == Spec => []DocInv
<1>1. QED
  BY DocInvInit, DocInvNext, PTL DEF Spec
-----------------------------------------------------------------------------
(* The properties.                                                          *)
LEMMA DocInvMeans ==
  ASSUME DocInv
  PROVE  /\ Shape(dom) /\ Counted(dom) /\ Listed(dom, Orphans(dom)) /\ dom \in Trees
         /\ Alive = Living(dom) /\ Range(dom.unlinked) = Orphans(dom)
         /\ Cardinality(Orphans(dom)) = Len(dom.unlinked) /\ dom.unlinked \in Seq(Nodes)
<1>1. Shape(dom) /\ Counted(dom) /\ Listed(dom, Orphans(dom)) /\ dom \in Trees
  BY DEF DocInv, Whole, Booked, Shape
<1>2. Orphans(dom) \in SUBSET Nodes
  BY DEF Orphans, Living
<1>3. dom.unlinked \in Seq(Nodes)
  BY <1>1, TreeMeans DEF Typed
<1>4. QED
  BY <1>1, <1>2, <1>3, ListedCount, HoldersAre

LEMMA PoolsExact == DocInv => PoolsAreExact
<1> SUFFICES ASSUME DocInv PROVE PoolsAreExact
  OBVIOUS
<1>1. ASSUME NEW pool \in NodePools PROVE dom.allocs[pool] = InPool(Alive, pool)
  BY DocInvMeans DEF Counted, InPool
<1>2. dom.allocs["attribute"] = Cardinality(Attributes(dom, Alive))
  <2>1. \A n \in Nodes : n \notin Living(dom) => dom.attrs[n] = <<>>
    BY DocInvMeans DEF Shape, Bare, Living
  <2>2. \A n \in Nodes : n \notin Living(dom) => {n} \X DOMAIN dom.attrs[n] = {}
    BY <2>1
  <2>3. Living(dom) \subseteq Nodes
    BY DEF Living
  <2>4. Attributes(dom, Living(dom)) = Attributes(dom, Nodes)
    BY <2>2, <2>3 DEF Attributes
  <2>5. QED
    BY <2>4, DocInvMeans DEF Counted
<1>3. ASSUME NEW pool \in NodePools
      PROVE  dom.untracked[pool] = InPool(Range(dom.unlinked), pool)
  <2>1. Exact(dom) /\ pool \in Pools /\ dom \in Trees /\ Orphans(dom) \in SUBSET Nodes
    BY <1>3, PoolsAre, DocInvMeans DEF DocInv, Position, Orphans, Living
  <2>2. dom.untracked[pool] \in Nat
    BY <2>1, TreeMeans DEF Typed
  <2>3. Cardinality(OfPool(dom, Orphans(dom), pool)) \in Nat
    BY <2>1, OfPoolLess
  <2>4. QED
    BY <2>1, <2>2, <2>3, DocInvMeans DEF Exact, Excess, InPool
<1>4. QED
  BY <1>1, <1>2, <1>3 DEF PoolsAreExact, NodePools

(* The pools count every node and attribute that is allocated, and the nodes *)
(* not tracked are those of the unlinked list, also after a failed load.     *)
THEOREM PoolsAreAlwaysExact == Spec => []PoolsAreExact
BY DocInvAlways, PoolsExact, PTL

(* However deep a file is nested, ParseDeep calls itself no more often.      *)
THEOREM DepthIsAlwaysLimited == Spec => []DepthIsLimited
<1>1. DocInv => DepthIsLimited
  BY DEF DocInv, Position, DepthIsLimited
<1>2. QED
  BY <1>1, DocInvAlways, PTL

LEMMA ErrorKept ==
  DocInv /\ [Next]_vars =>
    (Error /\ mode \in {"node", "tag", "fail"} => error' = error)
<1> SUFFICES ASSUME DocInv, [Next]_vars, Error, mode \in {"node", "tag", "fail"}
             PROVE  error' = error
  OBVIOUS
<1>1. mode = "fail"
  BY DEF DocInv, Position
<1>2. CASE Unwind
  BY <1>2 DEF Unwind, ReturnNull, EndLoad
<1>3. CASE ParserStep /\ ~Unwind
  BY <1>1, <1>3 DEF ParserStep, ParseStep, BeginLoad, RefuseLoad, ReadLeaf, ReadEndlessLeaf,
     ReadTagName, ReadBadName, ReadEndOfFile, ReadAttribute, FailInTag, ReadSealedEnd,
     ReadOpeningEnd, ReadClosingEnd, InNode, InTag
<1>4. CASE EditStep
  BY <1>1, <1>4 DEF EditStep, NewNode, InsertNew, InsertLast, InsertFirst, InsertAfter,
     InsertAfterCrash, Delete, DeleteAllUnder, SetText, FindOrCreateAttribute,
     DeleteAttribute, ClearDocument, Edit, Still
<1>5. CASE UNCHANGED parserVars
  BY <1>5 DEF parserVars
<1>6. QED
  BY <1>1, <1>2, <1>3, <1>4, <1>5
     DEF Next, BeginPrint, Still, PrintMore, EndPrint, BeginValue, ValueMore, vars

(* Of all that goes wrong while ParseDeep's calls return, the first error is  *)
(* what the document reports.                                               *)
THEOREM FirstErrorIsAlwaysKept == Spec => FirstErrorIsKept
<1>1. DocInv /\ [Next]_vars =>
        [Error /\ mode \in {"node", "tag", "fail"} => error' = error]_vars
  BY ErrorKept
<1>2. QED
  BY <1>1, DocInvAlways, PTL DEF Spec, FirstErrorIsKept

-----------------------------------------------------------------------------
(* Children follows a chain to its end.                                     *)
Prefix(s, h) == [i \in 1..h |-> s[i]]

LEMMA PrefixIs ==
  ASSUME NEW k \in Nat, NEW s \in [1..k -> Nodes], NEW h \in 0..k
  PROVE  /\ Prefix(s, h) \in Seq(Nodes) /\ Len(Prefix(s, h)) = h
         /\ Prefix(s, h) = <<>> <=> h = 0
         /\ h > 0 => Last(Prefix(s, h)) = s[h]
         /\ h < k => Append(Prefix(s, h), s[h + 1]) = Prefix(s, h + 1)
<1>1. PICK g : g = Prefix(s, h)
  OBVIOUS
<1>2. g \in [1..h -> Nodes] /\ \A i \in 1..h : g[i] = s[i]
  BY <1>1 DEF Prefix
<1>3. h \in Nat
  OBVIOUS
<1>4. g \in Seq(Nodes) /\ Len(g) = h
  BY ONLY <1>2, <1>3
<1>5. g = <<>> <=> h = 0
  BY <1>4, EmptySeq
<1>6. h > 0 => Last(g) = s[h]
  BY <1>2, <1>3, <1>4 DEF Last
<1>7. ASSUME h < k PROVE Append(g, s[h + 1]) = Prefix(s, h + 1)
  <2>1. PICK a : a = Append(g, s[h + 1])
    OBVIOUS
  <2>2. s[h + 1] \in Nodes
    BY <1>3, <1>7
  <2>3. /\ a \in Seq(Nodes) /\ Len(a) = h + 1 /\ a[h + 1] = s[h + 1]
        /\ \A i \in 1..h : a[i] = g[i]
    BY <1>4, <2>1, <2>2, AppendProperties
  <2>4. \A i \in 1..(h + 1) : a[i] = s[i]
    <3>1. \A i \in 1..(h + 1) : i = h + 1 \/ i \in 1..h
      BY <1>3
    <3>2. QED
      BY <1>2, <2>3, <3>1
  <2>5. a = [i \in 1..(h + 1) |-> a[i]]
    BY <2>3, LenProperties
  <2>6. QED
    BY <2>1, <2>4, <2>5 DEF Prefix
<1>8. QED
  BY <1>1, <1>4, <1>5, <1>6, <1>7

LEMMA ChainLength ==
  ASSUME NEW k \in Nat, NEW s \in [1..k -> Nodes], \A i, j \in 1..k : s[i] = s[j] => i = j
  PROVE  k <= MaxNodes
<1>1. 1 \in Int /\ k \in Int /\ MaxNodes \in Nat /\ MaxNodes \in Int
  BY TreeAssumption
<1>2. Cardinality(1..k) = IF 1 > k THEN 0 ELSE k - 1 + 1
  BY <1>1, FS_Interval
<1>3. Cardinality(Nodes) = IF 1 > MaxNodes THEN 0 ELSE MaxNodes - 1 + 1
  BY <1>1, FS_Interval DEF Nodes
<1>4. s \in Injection(1..k, Nodes)
  BY DEF Injection, IsInjective
<1>5. Cardinality(1..k) <= Cardinality(Nodes)
  BY <1>4, JointsAre, FS_Injection
<1>6. QED
  BY <1>1, <1>2, <1>3, <1>5

(* s is what is met from begin on.                                          *)
Line(begin, step, s, k) ==
  /\ begin = IF k = 0 THEN Null ELSE s[1]
  /\ \A i \in 1..k : step[s[i]] = IF i = k THEN Null ELSE s[i + 1]

LEMMA FollowIs ==
  ASSUME NEW begin, NEW step, NEW k \in Nat, NEW s \in [1..k -> Nodes],
         Line(begin, step, s, k), k <= MaxNodes
  PROVE  Follow(begin, step) = s
<1>1. MaxNodes \in Nat
  BY TreeAssumption
<1>2. PICK w : Turns("next", step, begin, <<>>, w, MaxNodes) /\ Follow(begin, step) = w[MaxNodes]
  <2> DEFINE w == CHOOSE met : met =
                   [j \in 0..MaxNodes |->
                      IF j = 0 THEN <<>> ELSE WithNext(begin, step, met[j - 1])]
  <2>1. \A v : Turns("next", step, begin, <<>>, v, MaxNodes) <=>
                 v = [j \in 0..MaxNodes |-> IF j = 0 THEN <<>> ELSE WithNext(begin, step, v[j - 1])]
    BY DEF Turns, Turn
  <2>2. \E v : Turns("next", step, begin, <<>>, v, MaxNodes)
    BY <1>1, TurnsExist
  <2>3. Turns("next", step, begin, <<>>, w, MaxNodes)
    <3>1. \E v : v = [j \in 0..MaxNodes |-> IF j = 0 THEN <<>> ELSE WithNext(begin, step, v[j - 1])]
      BY <2>1, <2>2
    <3>2. QED
      BY <2>1, <3>1, Zenon
  <2>4. Follow(begin, step) = w[MaxNodes]
    BY DEF Follow
  <2> HIDE DEF w
  <2>5. QED
    BY <2>3, <2>4
<1>3. w[0] = <<>> /\ \A j \in 1..MaxNodes : w[j] = WithNext(begin, step, w[j - 1])
  <2>1. w[0] = <<>> /\ \A j \in 1..MaxNodes : w[j] = Turn("next", step, begin, w[j - 1])
    BY <1>1, <1>2, TurnsMean
  <2>2. QED
    BY <2>1 DEF Turn
<1> DEFINE Upto(j) == IF j <= k THEN j ELSE k
           K == {j \in Nat : j <= MaxNodes => w[j] = Prefix(s, Upto(j))}
<1>4. 0 \in K
  <2>1. 0 \in 0..k /\ Upto(0) = 0
    OBVIOUS
  <2>2. Prefix(s, 0) = <<>>
    BY <2>1, PrefixIs
  <2>3. QED
    BY <1>3, <2>1, <2>2
<1>5. ASSUME NEW j \in Nat, j \in K PROVE j + 1 \in K
  <2> SUFFICES ASSUME j + 1 <= MaxNodes PROVE w[j + 1] = Prefix(s, Upto(j + 1))
    OBVIOUS
  <2>1. PICK h \in 0..k : h = Upto(j)
    OBVIOUS
  <2>2. w[j] = Prefix(s, h)
    <3>1. j <= MaxNodes
      BY <1>1
    <3>2. w[j] = Prefix(s, Upto(j))
      BY <1>5, <3>1
    <3>3. QED
      BY <2>1, <3>2
  <2>3. /\ Prefix(s, h) = <<>> <=> h = 0
        /\ h > 0 => Last(Prefix(s, h)) = s[h]
        /\ h < k => Append(Prefix(s, h), s[h + 1]) = Prefix(s, h + 1)
    BY PrefixIs
  <2>4. w[j + 1] = WithNext(begin, step, Prefix(s, h))
    <3>1. j + 1 \in 1..MaxNodes /\ (j + 1) - 1 = j
      OBVIOUS
    <3>2. w[j + 1] = WithNext(begin, step, w[(j + 1) - 1])
      BY <1>3, <3>1
    <3>3. QED
      BY <2>2, <3>1, <3>2
  <2>5. CASE h = k
    <3>1. IF Prefix(s, h) = <<>> THEN begin = Null ELSE step[Last(Prefix(s, h))] = Null
      <4>1. CASE k = 0
        <5>1. Prefix(s, h) = <<>> /\ begin = Null
          BY <2>5, <2>3, <4>1 DEF Line
        <5>2. QED
          BY <5>1
      <4>2. CASE k > 0
        <5>1. k \in 1..k /\ step[s[k]] = Null
          BY <4>2 DEF Line
        <5>2. Prefix(s, h) # <<>> /\ Last(Prefix(s, h)) = s[k]
          BY <2>5, <2>3, <4>2
        <5>3. QED
          BY <5>1, <5>2
      <4>3. QED
        BY <4>1, <4>2
    <3>2. WithNext(begin, step, Prefix(s, h)) = Prefix(s, h)
      BY <3>1 DEF WithNext
    <3>3. Upto(j + 1) = h
      BY <2>1, <2>5
    <3>4. QED
      BY <2>4, <3>2, <3>3
  <2>6. CASE h < k
    <3>1. s[h + 1] \in Nodes /\ s[h + 1] # Null
      BY <2>6, JointsAre DEF Joints
    <3>2. IF Prefix(s, h) = <<>> THEN begin = s[h + 1]
          ELSE step[Last(Prefix(s, h))] = s[h + 1]
      <4>1. CASE h = 0
        <5>1. Prefix(s, h) = <<>> /\ begin = s[h + 1]
          BY <2>6, <2>3, <4>1 DEF Line
        <5>2. QED
          BY <5>1
      <4>2. CASE h > 0
        <5>1. h \in 1..k /\ h # k
          BY <2>6, <4>2
        <5>2. step[s[h]] = s[h + 1]
          BY <5>1 DEF Line
        <5>3. Prefix(s, h) # <<>> /\ Last(Prefix(s, h)) = s[h]
          BY <2>3, <4>2
        <5>4. QED
          BY <5>2, <5>3
      <4>3. QED
        BY <4>1, <4>2
    <3>3. WithNext(begin, step, Prefix(s, h)) = Append(Prefix(s, h), s[h + 1])
      BY <3>1, <3>2 DEF WithNext
    <3>4. Upto(j + 1) = h + 1
      BY <2>1, <2>6
    <3>5. QED
      BY <2>4, <2>6, <2>3, <3>3, <3>4
  <2>7. QED
    BY <2>5, <2>6
<1>6. MaxNodes \in K
  <2> HIDE DEF K
  <2>1. QED
    BY <1>1, <1>4, <1>5, AllNaturals
<1>7. Upto(MaxNodes) = k
  BY <1>1
<1>8. Prefix(s, k) = s
  BY DEF Prefix
<1>9. QED
  BY <1>1, <1>2, <1>6, <1>7, <1>8

LEMMA ChildrenAre ==
  ASSUME NEW d, NEW n \in Joints, NEW k \in Nat, NEW s \in [1..k -> Nodes], Chain(d, n, s, k)
  PROVE  Children(d, n) = s
<1>1. k <= MaxNodes
  BY ChainLength DEF Chain
<1>2. Line(d.first[n], d.next, s, k)
  BY DEF Chain, Line
<1>3. Follow(d.first[n], d.next) = s
  BY <1>1, <1>2, FollowIs
<1>4. QED
  BY <1>3 DEF Children
(* What TreeIsLinked says of the children of n.                             *)
ChildrenLinked(n) ==
  LET c == Children(dom, n) IN
  /\ Range(c) = {m \in Alive : dom.parent[m] = n}
  /\ Cardinality(Range(c)) = Len(c)
  /\ dom.last[n] = IF c = <<>> THEN Null ELSE Last(c)
  /\ \A i \in DOMAIN c : dom.prev[c[i]] = IF i = 1 THEN Null ELSE c[i - 1]

LEMMA LinkedChildren ==
  ASSUME DocInv, NEW n \in Containers PROVE ChildrenLinked(n)
<1>1. n \in Joints /\ Shape(dom) /\ Alive = Living(dom)
  BY HoldersAre, DocInvMeans
<1>2. PICK k \in Nat : \E s \in [1..k -> Nodes] : Chain(dom, n, s, k)
  BY <1>1 DEF Shape, Chained
<1>3. PICK s \in [1..k -> Nodes] : Chain(dom, n, s, k)
  BY <1>2
<1>4. PICK c : c = Children(dom, n)
  OBVIOUS
<1>5. c = s
  BY <1>1, <1>3, <1>4, ChildrenAre
<1>6. k \in 0..k /\ c = Prefix(s, k)
  BY <1>5 DEF Prefix
<1>7. /\ c \in Seq(Nodes) /\ Len(c) = k /\ (c = <<>> <=> k = 0)
      /\ k > 0 => Last(c) = s[k]
  BY <1>6, PrefixIs
<1>8. DOMAIN c = 1..k
  BY <1>5
<1>9. \A m \in Nodes : dom.parent[m] = n => m \in Alive
  BY <1>1, JointsAre DEF Shape, Holding, Living, Joints
<1>10. Range(c) = {m \in Alive : dom.parent[m] = n}
  <2>1. \A m : m \in Range(c) <=> \E i \in 1..k : s[i] = m
    BY <1>5, <1>8 DEF Range
  <2>2. \A m : m \in Range(c) => m \in Nodes
    BY <2>1
  <2>3. \A m \in Alive : m \in Nodes
    BY DEF Alive
  <2>4. \A m \in Nodes : dom.parent[m] = n <=> m \in Range(c)
    BY <1>3, <2>1 DEF Chain
  <2>5. QED
    BY <1>9, <2>2, <2>3, <2>4
<1>11. Cardinality(Range(c)) = k
  <2>1. PICK S : S = Range(c)
    OBVIOUS
  <2>2. \A m : m \in S <=> \E i \in 1..k : s[i] = m
    BY <1>5, <1>8, <2>1 DEF Range
  <2>3. s \in [1..k -> S] /\ \A m \in S : \E i \in 1..k : s[i] = m
    BY <2>2
  <2>4. \A i, j \in 1..k : s[i] = s[j] => i = j
    BY <1>3 DEF Chain
  <2>5. s \in Injection(1..k, S) /\ s \in Surjection(1..k, S)
    BY <2>3, <2>4 DEF Injection, IsInjective, Surjection
  <2>6. 1 \in Int /\ k \in Int
    OBVIOUS
  <2>7. IsFiniteSet(1..k) /\ Cardinality(1..k) = IF 1 > k THEN 0 ELSE k - 1 + 1
    BY <2>6, FS_Interval
  <2>8. Cardinality(S) = Cardinality(1..k)
    BY <2>5, <2>7, FS_Surjection
  <2>9. QED
    BY <2>1, <2>7, <2>8
<1>12. dom.last[n] = IF c = <<>> THEN Null ELSE Last(c)
  BY <1>3, <1>7 DEF Chain
<1>13. \A i \in 1..k : dom.prev[c[i]] = IF i = 1 THEN Null ELSE c[i - 1]
  BY <1>3, <1>5 DEF Chain
<1>14. QED
  BY <1>4, <1>7, <1>8, <1>10, <1>11, <1>12, <1>13 DEF ChildrenLinked

LEMMA LinkedTree == DocInv => TreeIsLinked
<1> SUFFICES ASSUME DocInv PROVE TreeIsLinked
  OBVIOUS
<1>1. /\ Shape(dom) /\ Alive = Living(dom) /\ Range(dom.unlinked) = Orphans(dom)
      /\ Cardinality(Orphans(dom)) = Len(dom.unlinked) /\ dom.unlinked \in Seq(Nodes)
      /\ dom \in Trees
  BY DocInvMeans
<1>2. TypeOK
  BY <1>1 DEF TypeOK, DocInv, Position, Ranges, Joints
<1>3. \A n \in Containers : ChildrenLinked(n)
  BY LinkedChildren
<1>4. \A n \in Alive : dom.parent[n] \in Containers \cup {Null}
  <2>1. ASSUME NEW n \in Alive, dom.parent[n] # Null, dom.parent[n] # Doc
        PROVE  dom.parent[n] \in Nodes /\ dom.kind[dom.parent[n]] = "element"
    BY <1>1, <2>1 DEF Alive, Shape, Holding, Holds
  <2>2. QED
    BY <2>1 DEF Containers, Alive
<1>5. Orphans(dom) = {n \in Alive : Alone(dom, n)}
  BY <1>1 DEF Orphans, Alone
<1>6. mode = "loaded" => dom.unlinked = <<>>
  <2>1. mode = "loaded" => Orphans(dom) = {}
    BY DEF DocInv, Position
  <2>2. mode = "loaded" => Len(dom.unlinked) = 0
    BY <1>1, <2>1, FS_EmptySet
  <2>3. QED
    BY <1>1, <2>2, EmptySeq
<1>7. QED
  BY <1>1, <1>2, <1>3, <1>4, <1>5, <1>6 DEF TreeIsLinked, ChildrenLinked

(* The pointers of the tree agree at every step: a node's children, followed *)
(* from _firstChild over _next, are the nodes whose _parent it is, and what   *)
(* is in no tree is in _unlinked, nothing once a file has been read.         *)
THEOREM TreeIsAlwaysLinked == Spec => []TreeIsLinked
BY DocInvAlways, LinkedTree, PTL
-----------------------------------------------------------------------------
(* s[i], or the null pointer behind the end.                                *)
Upon(s, k, i) == IF i <= k THEN s[i] ELSE Null

(* A search that starts at s[i] ends at j.                                  *)
FoundAt(s, k, P, i, j) ==
  /\ j \in i..(k + 1) /\ \A l \in 1..k : i <= l /\ l < j => s[l] \notin P
  /\ j <= k => s[j] \in P

SearchEnds(d, step, n, name, s, k, P, i) ==
  \E j : FoundAt(s, k, P, i, j) /\ NextElementFrom(d, step, n, name) = Upon(s, k, j)

LEMMA SearchFinds ==
  ASSUME NEW d, NEW step, NEW name, NEW begin, NEW k \in Nat, NEW s \in [1..k -> Nodes],
         Line(begin, step, s, k), k <= MaxNodes, NEW i \in 1..(k + 1),
         NEW n, n = Upon(s, k, i), NEW P, P = {m \in Nodes : IsElement(d, m, name)}
  PROVE  SearchEnds(d, step, n, name, s, k, P, i)
<1>1. MaxNodes \in Nat
  BY TreeAssumption
<1>2. PICK w : Turns("search", d, <<step, name>>, n, w, MaxNodes)
               /\ NextElementFrom(d, step, n, name) = w[MaxNodes]
  <2> DEFINE w == CHOOSE to : to =
                   [j \in 0..MaxNodes |->
                      IF j = 0 THEN n ELSE Onwards(d, step, name, to[j - 1])]
  <2>1. \A v : Turns("search", d, <<step, name>>, n, v, MaxNodes) <=>
                 v = [j \in 0..MaxNodes |->
                        IF j = 0 THEN n ELSE Onwards(d, step, name, v[j - 1])]
    BY DEF Turns, Turn
  <2>2. \E v : Turns("search", d, <<step, name>>, n, v, MaxNodes)
    BY <1>1, TurnsExist
  <2>3. Turns("search", d, <<step, name>>, n, w, MaxNodes)
    <3>1. \E v : v = [j \in 0..MaxNodes |->
                        IF j = 0 THEN n ELSE Onwards(d, step, name, v[j - 1])]
      BY <2>1, <2>2
    <3>2. QED
      BY <2>1, <3>1, Zenon
  <2>4. NextElementFrom(d, step, n, name) = w[MaxNodes]
    BY DEF NextElementFrom
  <2> HIDE DEF w
  <2>5. QED
    BY <2>3, <2>4
<1>3. w[0] = n /\ \A j \in 1..MaxNodes : w[j] = Onwards(d, step, name, w[j - 1])
  <2>1. /\ w[0] = n
        /\ \A j \in 1..MaxNodes : w[j] = Turn("search", d, <<step, name>>, w[j - 1])
    BY <1>1, <1>2, TurnsMean
  <2>2. \A x : Turn("search", d, <<step, name>>, x) = Onwards(d, step, name, x)
    BY DEF Turn
  <2>3. QED
    BY <2>1, <2>2
<1>4. \A l \in 1..k : s[l] \in Nodes /\ s[l] # Null
  BY JointsAre DEF Joints
<1> DEFINE Not(j) == \A l \in 1..k : i <= l /\ l < j => s[l] \notin P
           At1(h, j) == /\ j \in i..(k + 1) /\ w[h] = Upon(s, k, j) /\ Not(j)
                        /\ (j <= k /\ s[j] \in P) \/ j = k + 1 \/ j = i + h
           K == {h \in Nat : h <= MaxNodes => \E j \in Nat : At1(h, j)}
<1>5. 0 \in K
  <2>1. At1(0, i)
    BY <1>3
  <2>2. QED
    BY <2>1
<1>6. ASSUME NEW h \in Nat, h \in K PROVE h + 1 \in K
  <2> SUFFICES ASSUME h + 1 <= MaxNodes PROVE \E j \in Nat : At1(h + 1, j)
    OBVIOUS
  <2>1. PICK j \in Nat : At1(h, j)
    BY <1>1, <1>6
  <2>2. w[h + 1] = Onwards(d, step, name, w[h])
    <3>1. h + 1 \in 1..MaxNodes /\ (h + 1) - 1 = h
      BY <1>1
    <3>2. QED
      BY <1>3, <3>1
  <2>3. CASE j = k + 1
    <3>1. w[h] = Null
      BY <2>1, <2>3 DEF Upon
    <3>2. w[h + 1] = w[h]
      BY <2>2, <3>1 DEF Onwards
    <3>3. At1(h + 1, j)
      BY <2>1, <2>3, <3>2
    <3>4. QED
      BY <3>3
  <2>4. CASE j # k + 1
    <3>1. j \in 1..k /\ w[h] = s[j] /\ s[j] \in Nodes /\ s[j] # Null
      BY <1>4, <2>1, <2>4 DEF Upon
    <3>2. CASE s[j] \in P
      <4>1. w[h + 1] = w[h]
        BY <2>2, <3>1, <3>2 DEF Onwards
      <4>2. At1(h + 1, j)
        BY <2>1, <3>1, <3>2, <4>1
      <4>3. QED
        BY <4>2
    <3>3. CASE s[j] \notin P
      <4>1. w[h + 1] = step[s[j]]
        BY <2>2, <3>1, <3>3 DEF Onwards
      <4>2. step[s[j]] = Upon(s, k, j + 1)
        BY <3>1 DEF Line, Upon
      <4>3. Not(j + 1)
        BY <2>1, <3>1, <3>3
      <4>4. j = i + h /\ j + 1 = i + (h + 1) /\ j + 1 \in i..(k + 1)
        BY <2>1, <2>4, <3>1, <3>3
      <4>5. At1(h + 1, j + 1)
        BY <4>1, <4>2, <4>3, <4>4
      <4>6. QED
        BY <4>5
    <3>4. QED
      BY <3>2, <3>3
  <2>5. QED
    BY <2>3, <2>4
<1>7. MaxNodes \in K
  <2> HIDE DEF K
  <2>1. QED
    BY <1>1, <1>5, <1>6, AllNaturals
<1>8. PICK j \in Nat : At1(MaxNodes, j)
  BY <1>1, <1>7
<1>9. j \in i..(k + 1) /\ ((j <= k /\ s[j] \in P) \/ j = k + 1)
  BY <1>1, <1>8
<1>10. FoundAt(s, k, P, i, j)
  BY <1>8, <1>9 DEF FoundAt
<1>11. QED
  BY <1>2, <1>8, <1>10 DEF SearchEnds

-----------------------------------------------------------------------------
(* qs are those of s that are in P, at the places x.                         *)
Sifted(s, k, P, qs, h, x) ==
  /\ h \in Nat /\ x \in [1..h -> 1..k] /\ qs \in [1..h -> Nodes]
  /\ \A i, j \in 1..h : i < j => x[i] < x[j]
  /\ \A j \in 1..h : qs[j] = s[x[j]]
  /\ \A i \in 1..k : s[i] \in P <=> \E j \in 1..h : x[j] = i

(* A loop over searches meets them.                                         *)
LEMMA LoopMeets ==
  ASSUME NEW d, NEW step, NEW name, NEW begin, NEW k \in Nat, NEW s \in [1..k -> Nodes],
         Line(begin, step, s, k), k <= MaxNodes,
         \A i, j \in 1..k : s[i] = s[j] => i = j,
         NEW P, P = {m \in Nodes : IsElement(d, m, name)},
         NEW qs, NEW h, NEW x, Sifted(s, k, P, qs, h, x),
         NEW first, first = NextElementFrom(d, step, begin, name),
         NEW on, \A c \in Nodes : on[c] = NextElementFrom(d, step, step[c], name)
  PROVE  Follow(first, on) = qs
<1>1. /\ h \in Nat /\ x \in [1..h -> 1..k] /\ qs \in [1..h -> Nodes]
      /\ \A i, j \in 1..h : i < j => x[i] < x[j]
      /\ \A j \in 1..h : qs[j] = s[x[j]]
      /\ \A i \in 1..k : s[i] \in P <=> \E j \in 1..h : x[j] = i
  BY DEF Sifted
(* What a search from behind the place of qs[m] finds is qs[m + 1].            *)
<1>2. ASSUME NEW m \in 0..h, NEW i \in 1..(k + 1), NEW j \in i..(k + 1), FoundAt(s, k, P, i, j),
             \A l \in 1..h : i <= x[l] <=> m < l
      PROVE  Upon(s, k, j) = IF m = h THEN Null ELSE qs[m + 1]
  <2>1. /\ \A l \in 1..k : i <= l /\ l < j => s[l] \notin P
        /\ j <= k => s[j] \in P
    BY <1>2 DEF FoundAt
  <2>2. CASE j = k + 1
    <3>1. ASSUME m # h PROVE FALSE
      <4>1. m + 1 \in 1..h /\ m < m + 1
        BY <1>1, <3>1
      <4>2. i <= x[m + 1] /\ x[m + 1] \in 1..k /\ x[m + 1] < j
        BY <1>1, <1>2, <2>2, <4>1
      <4>3. s[x[m + 1]] \in P
        BY <1>1, <4>1, <4>2
      <4>4. QED
        BY <2>1, <4>2, <4>3
    <3>2. QED
      BY <2>2, <3>1 DEF Upon
  <2>3. CASE j # k + 1
    <3>1. j \in 1..k /\ s[j] \in P
      BY <2>1, <2>3
    <3>2. PICK l \in 1..h : x[l] = j
      BY <1>1, <3>1
    <3>3. m < l
      BY <1>2, <3>2
    <3>4. m + 1 \in 1..h /\ m # h
      BY <1>1, <3>2, <3>3
    <3>5. i <= x[m + 1] /\ x[m + 1] \in 1..k
      BY <1>1, <1>2, <3>4
    <3>6. s[x[m + 1]] \in P
      BY <1>1, <3>4, <3>5
    <3>7. ~(x[m + 1] < j)
      BY <2>1, <3>5, <3>6
    <3>8. ~(m + 1 < l)
      BY <1>1, <3>2, <3>4, <3>7
    <3>9. l = m + 1
      BY <1>1, <3>3, <3>8
    <3>10. QED
      BY <1>1, <3>1, <3>2, <3>4, <3>9 DEF Upon
  <2>4. QED
    BY <2>2, <2>3
<1>3. first = IF h = 0 THEN Null ELSE qs[1]
  <2>0. PICK i \in 1..(k + 1) : i = 1
    OBVIOUS
  <2>1. begin = Upon(s, k, i)
    BY <2>0 DEF Line, Upon
  <2>2. PICK j : FoundAt(s, k, P, i, j) /\ first = Upon(s, k, j)
    <3>1. SearchEnds(d, step, begin, name, s, k, P, i)
      BY <2>1, SearchFinds
    <3>2. QED
      BY <3>1 DEF SearchEnds
  <2>3. j \in i..(k + 1)
    BY <2>2 DEF FoundAt
  <2>4. 0 \in 0..h /\ \A l \in 1..h : i <= x[l] <=> 0 < l
    BY <1>1, <2>0
  <2>5. Upon(s, k, j) = IF 0 = h THEN Null ELSE qs[0 + 1]
    BY <1>2, <2>2, <2>3, <2>4
  <2>6. QED
    BY <2>2, <2>5
<1>4. ASSUME NEW m \in 1..h PROVE on[qs[m]] = IF m = h THEN Null ELSE qs[m + 1]
  <2>1. x[m] \in 1..k /\ qs[m] \in Nodes /\ qs[m] = s[x[m]] /\ m \in 0..h
    BY <1>1
  <2>2. PICK i \in 1..(k + 1) : i = x[m] + 1
    BY <2>1
  <2>3. PICK n : n = step[qs[m]] /\ n = Upon(s, k, i)
    BY <2>1, <2>2 DEF Line, Upon
  <2>4. PICK j : FoundAt(s, k, P, i, j)
                 /\ NextElementFrom(d, step, step[qs[m]], name) = Upon(s, k, j)
    <3>1. SearchEnds(d, step, n, name, s, k, P, i)
      BY <2>3, SearchFinds
    <3>2. QED
      BY <2>3, <3>1 DEF SearchEnds
  <2>5. j \in i..(k + 1)
    BY <2>4 DEF FoundAt
  <2>6. \A l \in 1..h : i <= x[l] <=> m < l
    <3> SUFFICES ASSUME NEW l \in 1..h PROVE i <= x[l] <=> m < l
      OBVIOUS
    <3>1. x[l] \in 1..k /\ (m < l => x[m] < x[l]) /\ (l < m => x[l] < x[m])
      BY <1>1
    <3>2. l = m \/ l < m \/ m < l
      BY <1>1
    <3>3. QED
      BY <1>1, <2>1, <2>2, <3>1, <3>2
  <2>7. Upon(s, k, j) = IF m = h THEN Null ELSE qs[m + 1]
    BY <1>2, <2>1, <2>3, <2>4, <2>5, <2>6
  <2>8. QED
    BY <2>1, <2>4, <2>7
<1>5. Line(first, on, qs, h)
  BY <1>3, <1>4 DEF Line
<1>6. h <= MaxNodes
  <2>1. \A i, j \in 1..h : qs[i] = qs[j] => i = j
    <3> SUFFICES ASSUME NEW i \in 1..h, NEW j \in 1..h, qs[i] = qs[j] PROVE i = j
      OBVIOUS
    <3>1. x[i] = x[j]
      BY <1>1
    <3>2. ~(i < j) /\ ~(j < i)
      BY <1>1, <3>1
    <3>3. QED
      BY <1>1, <3>2
  <2>2. QED
    BY <1>1, <2>1, ChainLength
<1>7. QED
  BY <1>1, <1>5, <1>6, FollowIs

SiftsTo(s, k, P, qs) == \E h, x : Sifted(s, k, P, qs, h, x)

LEMMA SiftIs ==
  ASSUME NEW k \in Nat, NEW s \in [1..k -> Nodes], NEW P,
         NEW ss, ss = [i \in 1..k |-> IF s[i] \in P THEN <<s[i]>> ELSE <<>>]
  PROVE  SiftsTo(s, k, P, FlattenSeq(ss))
<1>1. \A i \in 1..k : ss[i] = IF s[i] \in P THEN <<s[i]>> ELSE <<>>
  OBVIOUS
<1>2. ss \in Seq(Seq(Nodes)) /\ Len(ss) = k
  <2>1. \A i \in 1..k : ss[i] \in Seq(Nodes)
    BY <1>1
  <2>2. ss \in [1..k -> Seq(Nodes)]
    BY <2>1
  <2>3. QED
    BY ONLY <2>2, k \in Nat
<1>3. PICK g \in [0..k -> Seq(Nodes)] : Flat(ss, k, g) /\ FlattenSeq(ss) = g[k]
  BY <1>2, FlattenSeqIs
<1>4. g[0] = <<>> /\ \A m \in 1..k : g[m] = g[m - 1] \o ss[m]
  BY <1>3 DEF Flat
<1> DEFINE T == {m \in Nat : m \in 0..k => SiftsTo(s, m, P, g[m])}
<1>5. 0 \in T
  <2>1. PICK e : e = <<>>
    OBVIOUS
  <2>2. e \in [1..0 -> 1..0] /\ e \in [1..0 -> Nodes]
    BY <2>1
  <2>3. Sifted(s, 0, P, e, 0, e)
    BY <2>2 DEF Sifted
  <2>4. QED
    BY <1>4, <2>1, <2>3 DEF SiftsTo
<1>6. ASSUME NEW m \in Nat, m \in T PROVE m + 1 \in T
  <2> SUFFICES ASSUME m + 1 \in 0..k PROVE SiftsTo(s, m + 1, P, g[m + 1])
    OBVIOUS
  <2>1. m \in 0..k /\ m + 1 \in 1..k /\ (m + 1) - 1 = m
    OBVIOUS
  <2>2. PICK h, x : Sifted(s, m, P, g[m], h, x)
    BY <1>6, <2>1 DEF SiftsTo
  <2>3. PICK qs \in Seq(Nodes) : qs = g[m]
    BY <1>3, <2>1
  <2>4. /\ h \in Nat /\ x \in [1..h -> 1..m] /\ qs \in [1..h -> Nodes]
        /\ \A i, j \in 1..h : i < j => x[i] < x[j]
        /\ \A j \in 1..h : qs[j] = s[x[j]]
        /\ \A i \in 1..m : s[i] \in P <=> \E j \in 1..h : x[j] = i
    BY <2>2, <2>3 DEF Sifted
  <2>5. g[m + 1] = qs \o ss[m + 1]
    BY <1>4, <2>1, <2>3
  <2>6. \A i \in 1..(m + 1) : i \in 1..m \/ i = m + 1
    OBVIOUS
  <2>7. CASE s[m + 1] \notin P
    <3>1. g[m + 1] = qs
      BY <1>1, <2>1, <2>3, <2>5, <2>7, ConcatEmptySeq
    <3>2. x \in [1..h -> 1..(m + 1)]
      BY <2>4
    <3>3. \A i \in 1..(m + 1) : s[i] \in P <=> \E j \in 1..h : x[j] = i
      BY <2>4, <2>6, <2>7
    <3>4. Sifted(s, m + 1, P, qs, h, x)
      BY <2>4, <3>2, <3>3 DEF Sifted
    <3>5. QED
      BY <3>1, <3>4 DEF SiftsTo
  <2>8. CASE s[m + 1] \in P
    <3>1. PICK v \in Nodes : v = s[m + 1]
      BY <2>1
    <3>2. g[m + 1] = Append(qs, v)
      <4>1. g[m + 1] = qs \o <<v>>
        BY <1>1, <2>1, <2>5, <2>8, <3>1
      <4>2. QED
        BY <2>3, <3>1, <4>1, AppendIsConcat
    <3>3. PICK r : r = Append(qs, v)
      OBVIOUS
    <3>4. Len(qs) = h
      BY <2>3, <2>4, LenProperties
    <3>5. /\ r \in Seq(Nodes) /\ Len(r) = h + 1 /\ r[h + 1] = v
          /\ \A j \in 1..h : r[j] = qs[j]
      BY <2>3, <3>1, <3>3, <3>4, AppendProperties
    <3>6. PICK y : y = [j \in 1..(h + 1) |-> IF j = h + 1 THEN m + 1 ELSE x[j]]
      OBVIOUS
    <3>7. y[h + 1] = m + 1 /\ \A j \in 1..h : y[j] = x[j] /\ x[j] \in 1..m
      BY <2>4, <3>6
    <3>8. \A j \in 1..(h + 1) : j \in 1..h \/ j = h + 1
      BY <2>4
    <3>9. y \in [1..(h + 1) -> 1..(m + 1)]
      BY <2>4, <3>6
    <3>10. r \in [1..(h + 1) -> Nodes]
      <4>1. r \in [1..Len(r) -> Nodes]
        BY <3>5, LenProperties
      <4>2. QED
        BY <3>5, <4>1
    <3>11. \A i, j \in 1..(h + 1) : i < j => y[i] < y[j]
      <4> SUFFICES ASSUME NEW i \in 1..(h + 1), NEW j \in 1..(h + 1), i < j PROVE y[i] < y[j]
        OBVIOUS
      <4>1. i \in 1..h
        BY <2>4
      <4>2. CASE j \in 1..h
        <5>1. y[i] = x[i] /\ y[j] = x[j]
          BY <3>7, <4>1, <4>2
        <5>2. x[i] < x[j]
          BY <2>4, <4>1, <4>2
        <5>3. QED
          BY <5>1, <5>2
      <4>3. CASE j = h + 1
        <5>1. y[i] \in 1..m /\ y[j] = m + 1
          BY <3>7, <4>1, <4>3
        <5>2. QED
          BY <5>1
      <4>4. QED
        BY <3>8, <4>2, <4>3
    <3>12. \A j \in 1..(h + 1) : r[j] = s[y[j]]
      BY <2>4, <3>1, <3>5, <3>7, <3>8
    <3>13. \A i \in 1..(m + 1) : s[i] \in P <=> \E j \in 1..(h + 1) : y[j] = i
      <4> SUFFICES ASSUME NEW i \in 1..(m + 1) PROVE s[i] \in P <=> \E j \in 1..(h + 1) : y[j] = i
        OBVIOUS
      <4>1. h + 1 \in 1..(h + 1) /\ \A j \in 1..h : j \in 1..(h + 1)
        BY <2>4
      <4>2. CASE i = m + 1
        BY <2>8, <3>7, <4>1, <4>2
      <4>3. CASE i \in 1..m
        <5>1. i # m + 1
          BY <4>3
        <5>2. \A j \in 1..(h + 1) : y[j] = i => j \in 1..h
          BY <3>7, <3>8, <5>1
        <5>3. QED
          BY <2>4, <3>7, <4>1, <4>3, <5>2
      <4>4. QED
        BY <2>6, <4>2, <4>3
    <3>14. h + 1 \in Nat
      BY <2>4
    <3>15. Sifted(s, m + 1, P, r, h + 1, y)
      BY <3>9, <3>10, <3>11, <3>12, <3>13, <3>14 DEF Sifted
    <3>16. QED
      BY <3>2, <3>3, <3>15 DEF SiftsTo
  <2>9. QED
    BY <2>7, <2>8
<1>7. Nat \subseteq T
  <2> HIDE DEF T
  <2> QED
    BY <1>5, <1>6, AllNaturals
<1>8. QED
  BY <1>3, <1>7

Backwards(s, k) == [i \in 1..k |-> s[(k - i) + 1]]

LEMMA SiftBackwards ==
  ASSUME NEW k \in Nat, NEW s \in [1..k -> Nodes], NEW P, NEW qs, NEW h, NEW x,
         Sifted(s, k, P, qs, h, x)
  PROVE  SiftsTo(Backwards(s, k), k, P, Backwards(qs, h))
<1>1. /\ h \in Nat /\ x \in [1..h -> 1..k] /\ qs \in [1..h -> Nodes]
      /\ \A i, j \in 1..h : i < j => x[i] < x[j]
      /\ \A j \in 1..h : qs[j] = s[x[j]]
      /\ \A i \in 1..k : s[i] \in P <=> \E j \in 1..h : x[j] = i
  BY DEF Sifted
<1>2. PICK r, u, y : /\ r = Backwards(s, k) /\ u = Backwards(qs, h)
                     /\ y = [j \in 1..h |-> (k - x[(h - j) + 1]) + 1]
  OBVIOUS
<1>3. \A j \in 1..h : (h - j) + 1 \in 1..h /\ x[(h - j) + 1] \in 1..k
  BY <1>1
<1>4. \A i \in 1..k : (k - i) + 1 \in 1..k /\ r[i] = s[(k - i) + 1]
  BY <1>2 DEF Backwards
<1>5. \A j \in 1..h : u[j] = qs[(h - j) + 1] /\ y[j] = (k - x[(h - j) + 1]) + 1
  BY <1>2 DEF Backwards
<1>6. y \in [1..h -> 1..k]
  <2>1. \A j \in 1..h : (k - x[(h - j) + 1]) + 1 \in 1..k
    BY <1>3
  <2>2. QED
    BY <1>2, <2>1
<1>7. u \in [1..h -> Nodes]
  BY <1>1, <1>2, <1>3 DEF Backwards
<1>8. \A i, j \in 1..h : i < j => y[i] < y[j]
  <2> SUFFICES ASSUME NEW i \in 1..h, NEW j \in 1..h, i < j PROVE y[i] < y[j]
    OBVIOUS
  <2>1. PICK a \in 1..h, b \in 1..h : a = (h - j) + 1 /\ b = (h - i) + 1
    BY <1>3
  <2>2. a < b
    BY <1>1, <2>1
  <2>3. x[a] < x[b] /\ x[a] \in 1..k /\ x[b] \in 1..k
    BY <1>1, <2>2
  <2>4. y[i] = (k - x[b]) + 1 /\ y[j] = (k - x[a]) + 1
    BY <1>5, <2>1
  <2>5. QED
    BY <2>3, <2>4
<1>9. \A j \in 1..h : u[j] = r[y[j]]
  <2> SUFFICES ASSUME NEW j \in 1..h PROVE u[j] = r[y[j]]
    OBVIOUS
  <2>1. PICK a \in 1..h : a = (h - j) + 1
    BY <1>3
  <2>2. PICK b \in 1..k : b = x[a]
    BY <1>1
  <2>3. u[j] = s[b] /\ y[j] = (k - b) + 1 /\ y[j] \in 1..k
    BY <1>1, <1>5, <1>6, <2>1, <2>2
  <2>4. (k - y[j]) + 1 = b
    BY <2>3
  <2>5. QED
    BY <1>4, <2>3, <2>4
<1>10. \A i \in 1..k : r[i] \in P <=> \E j \in 1..h : y[j] = i
  <2> SUFFICES ASSUME NEW i \in 1..k PROVE r[i] \in P <=> \E j \in 1..h : y[j] = i
    OBVIOUS
  <2>1. PICK l \in 1..k : l = (k - i) + 1
    BY <1>4
  <2>2. r[i] = s[l]
    BY <1>4, <2>1
  <2>3. ASSUME NEW j \in 1..h, x[j] = l PROVE \E c \in 1..h : y[c] = i
    <3>1. PICK c \in 1..h : c = (h - j) + 1
      BY <1>3
    <3>2. (h - c) + 1 = j
      BY <1>1, <3>1
    <3>3. y[c] = (k - l) + 1
      BY <1>5, <2>3, <3>2
    <3>4. y[c] = i
      BY <2>1, <3>3
    <3>5. QED
      BY <3>4
  <2>4. ASSUME NEW c \in 1..h, y[c] = i PROVE \E j \in 1..h : x[j] = l
    <3>1. PICK j \in 1..h : j = (h - c) + 1
      BY <1>3
    <3>2. i = (k - x[j]) + 1 /\ x[j] \in 1..k
      BY <1>1, <1>5, <2>4, <3>1
    <3>3. x[j] = l
      BY <2>1, <3>2
    <3>4. QED
      BY <3>3
  <2>5. s[l] \in P <=> \E j \in 1..h : x[j] = l
    BY <1>1
  <2>6. QED
    BY <2>2, <2>3, <2>4, <2>5
<1>11. Sifted(r, k, P, u, h, y)
  BY <1>1, <1>6, <1>7, <1>8, <1>9, <1>10 DEF Sifted
<1>12. QED
  BY <1>2, <1>11 DEF SiftsTo

(* What the searches under n, for a name, meet.                             *)
Meets(d, n, name) ==
  LET s == Children(d, n)
      named == FlattenSeq([i \in DOMAIN s |->
                 IF IsElement(d, s[i], name) THEN <<s[i]>> ELSE <<>>])
      forth == [c \in Nodes |-> NextSiblingElement(d, c, name)]
      back == [c \in Nodes |-> PreviousSiblingElement(d, c, name)]
  IN /\ Follow(FirstChildElement(d, n, name), forth) = named
     /\ Follow(LastChildElement(d, n, name), back) = Reverse(named)

LEMMA SearchesMeet ==
  ASSUME NEW d, Shape(d), NEW n \in Joints, NEW name PROVE Meets(d, n, name)
<1>1. PICK k \in Nat : \E s \in [1..k -> Nodes] : Chain(d, n, s, k)
  BY DEF Shape, Chained
<1>2. PICK s \in [1..k -> Nodes] : Chain(d, n, s, k)
  BY <1>1
<1>3. Children(d, n) = s /\ DOMAIN s = 1..k
  BY <1>2, ChildrenAre
<1>4. /\ d.first[n] = IF k = 0 THEN Null ELSE s[1]
      /\ d.last[n] = IF k = 0 THEN Null ELSE s[k]
      /\ \A i, j \in 1..k : s[i] = s[j] => i = j
      /\ \A i \in 1..k : /\ d.prev[s[i]] = IF i = 1 THEN Null ELSE s[i - 1]
                         /\ d.next[s[i]] = IF i = k THEN Null ELSE s[i + 1]
  BY <1>2 DEF Chain
<1>5. k <= MaxNodes
  BY <1>4, ChainLength
<1>6. PICK P : P = {m \in Nodes : IsElement(d, m, name)}
  OBVIOUS
<1>7. PICK ss : ss = [i \in 1..k |-> IF s[i] \in P THEN <<s[i]>> ELSE <<>>]
  OBVIOUS
<1>8. ss = [i \in DOMAIN s |-> IF IsElement(d, s[i], name) THEN <<s[i]>> ELSE <<>>]
  <2>1. \A i \in 1..k : s[i] \in P <=> IsElement(d, s[i], name)
    BY <1>6
  <2>2. QED
    BY <1>3, <1>7, <2>1
<1>9. PICK qs : qs = FlattenSeq(ss)
  OBVIOUS
<1>10. SiftsTo(s, k, P, qs)
  BY <1>7, <1>9, SiftIs
<1>11. PICK h, x : Sifted(s, k, P, qs, h, x)
  BY <1>10 DEF SiftsTo
<1>12. PICK forth, back : /\ forth = [c \in Nodes |-> NextSiblingElement(d, c, name)]
                          /\ back = [c \in Nodes |-> PreviousSiblingElement(d, c, name)]
  OBVIOUS
<1>13. \A c \in Nodes : /\ forth[c] = NextElementFrom(d, d.next, d.next[c], name)
                        /\ back[c] = NextElementFrom(d, d.prev, d.prev[c], name)
  BY <1>12 DEF NextSiblingElement, PreviousSiblingElement
<1>14. Follow(FirstChildElement(d, n, name), forth) = qs
  <2>1. PICK begin, step, first :
           /\ begin = d.first[n] /\ step = d.next
           /\ first = FirstChildElement(d, n, name)
    OBVIOUS
  <2>2. Line(begin, step, s, k)
    BY <1>4, <2>1 DEF Line
  <2>3. first = NextElementFrom(d, step, begin, name)
    BY <2>1 DEF FirstChildElement
  <2>4. \A c \in Nodes : forth[c] = NextElementFrom(d, step, step[c], name)
    BY <1>13, <2>1
  <2>5. Follow(first, forth) = qs
    BY <1>4, <1>5, <1>6, <1>11, <2>2, <2>3, <2>4, LoopMeets
  <2>6. QED
    BY <2>1, <2>5
<1>15. PICK r, u : r = Backwards(s, k) /\ u = Backwards(qs, h)
  OBVIOUS
<1>16. \A i \in 1..k : (k - i) + 1 \in 1..k /\ r[i] = s[(k - i) + 1]
  BY <1>15 DEF Backwards
<1>17. r \in [1..k -> Nodes]
  BY <1>15, <1>16 DEF Backwards
<1>18. Follow(LastChildElement(d, n, name), back) = u
  <2>1. PICK begin, step, first :
           /\ begin = d.last[n] /\ step = d.prev
           /\ first = LastChildElement(d, n, name)
    OBVIOUS
  <2>2. Line(begin, step, r, k)
    <3>1. begin = IF k = 0 THEN Null ELSE r[1]
      <4>1. k # 0 => 1 \in 1..k /\ (k - 1) + 1 = k
        OBVIOUS
      <4>2. QED
        BY <1>4, <1>16, <2>1, <4>1
    <3>2. ASSUME NEW i \in 1..k PROVE step[r[i]] = IF i = k THEN Null ELSE r[i + 1]
      <4>1. PICK j \in 1..k : j = (k - i) + 1
        BY <1>16
      <4>2. step[r[i]] = IF j = 1 THEN Null ELSE s[j - 1]
        BY <1>4, <1>16, <2>1, <4>1
      <4>3. j = 1 <=> i = k
        BY <4>1
      <4>4. i # k => i + 1 \in 1..k /\ (k - (i + 1)) + 1 = j - 1
        BY <4>1
      <4>5. QED
        BY <1>16, <4>2, <4>3, <4>4
    <3>3. QED
      BY <3>1, <3>2 DEF Line
  <2>3. first = NextElementFrom(d, step, begin, name)
    BY <2>1 DEF LastChildElement
  <2>4. \A c \in Nodes : back[c] = NextElementFrom(d, step, step[c], name)
    BY <1>13, <2>1
  <2>5. PICK y, o : Sifted(r, k, P, u, o, y)
    <3>1. SiftsTo(r, k, P, u)
      BY <1>11, <1>15, SiftBackwards
    <3>2. QED
      BY <3>1 DEF SiftsTo
  <2>6. \A i, j \in 1..k : r[i] = r[j] => i = j
    <3> SUFFICES ASSUME NEW i \in 1..k, NEW j \in 1..k, r[i] = r[j] PROVE i = j
      OBVIOUS
    <3>1. (k - i) + 1 = (k - j) + 1
      BY <1>4, <1>16
    <3>2. QED
      BY <3>1
  <2>7. Follow(first, back) = u
    BY <1>5, <1>6, <1>17, <2>2, <2>3, <2>4, <2>5, <2>6, LoopMeets
  <2>8. QED
    BY <2>1, <2>7
<1>19. u = Reverse(qs)
  <2>1. h \in Nat /\ qs \in [1..h -> Nodes]
    BY <1>11 DEF Sifted
  <2>2. Len(qs) = h
    BY ONLY <2>1
  <2>3. QED
    BY <1>15, <2>2 DEF Reverse, Backwards
<1>20. QED
  BY <1>3, <1>8, <1>9, <1>12, <1>14, <1>18, <1>19 DEF Meets

(* At every step, whatever is in the tree, RssParser's loops over the         *)
(* children of a name meet each of them once and in order, and the loops       *)
(* backwards meet them the other way around.                                *)
THEOREM SearchesAlwaysMeetEachChild == Spec => []SearchesMeetEachChild
<1>1. DocInv => SearchesMeetEachChild
  <2> SUFFICES ASSUME DocInv, NEW n \in Containers, NEW name \in Names
               PROVE  Meets(dom, n, name)
    BY DEF SearchesMeetEachChild, Meets
  <2>1. n \in Joints /\ Shape(dom)
    BY HoldersAre, DocInvMeans
  <2>2. QED
    BY <2>1, SearchesMeet
<1>2. QED
  BY <1>1, DocInvAlways, PTL
-----------------------------------------------------------------------------
(* What nodes are written as.                                               *)
LEMMA KidsAre ==
  ASSUME NEW d, Shape(d), NEW n \in Joints
  PROVE  /\ Children(d, n) \in Seq(Nodes)
         /\ \A i \in DOMAIN Children(d, n) :
              Children(d, n)[i] \in Nodes /\ d.parent[Children(d, n)[i]] = n
<1>1. PICK k \in Nat : \E s \in [1..k -> Nodes] : Chain(d, n, s, k)
  BY DEF Shape, Chained
<1>2. PICK s \in [1..k -> Nodes] : Chain(d, n, s, k)
  BY <1>1
<1>3. Children(d, n) = s
  BY <1>2, ChildrenAre
<1>4. s \in Seq(Nodes)
  BY ONLY k \in Nat, s \in [1..k -> Nodes]
<1>5. \A i \in DOMAIN s : s[i] \in Nodes /\ d.parent[s[i]] = n
  BY <1>2 DEF Chain
<1>6. QED
  BY <1>3, <1>4, <1>5

(* Of some nodes, one has none of the others below it.                       *)
LEMMA Lowest ==
  ASSUME NEW d, Acyclic(d), NEW S \in SUBSET Nodes, S # {}
  PROVE  \E m \in S : \A c \in S : d.parent[c] # m
<1> SUFFICES ASSUME \A m \in S : \E c \in S : d.parent[c] = m PROVE FALSE
  OBVIOUS
<1>1. PICK f : f = [m \in S |-> CHOOSE c \in S : d.parent[c] = m]
  OBVIOUS
<1>2. \A m \in S : f[m] \in S /\ d.parent[f[m]] = m
  BY <1>1
<1>3. f \in [S -> S] /\ \A m, n \in S : f[m] = f[n] => m = n
  <2>1. f \in [S -> S]
    BY <1>1, <1>2
  <2>2. QED
    BY <1>2, <2>1
<1>4. IsFiniteSet(S)
  BY JointsAre, FS_Subset
<1>5. PICK m \in S : d.parent[m] \notin S
  BY DEF Acyclic
<1>6. PICK T : T = S \ {m}
  OBVIOUS
<1>7. \A n \in S : f[n] # m
  BY <1>2, <1>5
<1>8. f \in [S -> T]
  BY <1>2, <1>3, <1>6, <1>7
<1>9. f \in Injection(S, T)
  BY <1>3, <1>8 DEF Injection, IsInjective
<1>10. IsFiniteSet(T) /\ Cardinality(S) <= Cardinality(T)
  <2>1. IsFiniteSet(T)
    BY <1>4, <1>6, FS_Subset
  <2>2. QED
    BY <1>9, <2>1, FS_Injection
<1>11. Cardinality(T) = Cardinality(S) - 1 /\ Cardinality(S) \in Nat
  BY <1>4, <1>6, FS_RemoveElement, FS_CardinalityType
<1>12. QED
  BY <1>10, <1>11

(* What item says of the nodes of S.                                        *)
ItemsOn(d, before, behind, item, S) ==
  \A n \in S : item[n] = (before[n] \o Inner(d, item, n)) \o behind[n]

(* The nodes of S are in both trees, with all that is below them.            *)
Common(d, e, S) ==
  /\ Shape(d) /\ Shape(e) /\ S \in SUBSET Nodes /\ ChildrenOf(d, S) \subseteq S
  /\ \A n \in S : Children(e, n) = Children(d, n)

SameInside(d, e, n, item, others) ==
  /\ Shape(d) /\ n \in Joints /\ Children(e, n) = Children(d, n)
  /\ \A m \in ChildrenOf(d, {n}) : item[m] = others[m]

LEMMA InnerSame ==
  ASSUME NEW d, NEW e, NEW n, NEW item, NEW others, SameInside(d, e, n, item, others)
  PROVE  Inner(d, item, n) = Inner(e, others, n)
<1> USE DEF SameInside
<1>1. PICK c : c = Children(d, n)
  OBVIOUS
<1>2. \A i \in DOMAIN c : c[i] \in Nodes /\ d.parent[c[i]] = n
  BY <1>1, KidsAre
<1>3. \A i \in DOMAIN c : item[c[i]] = others[c[i]]
  BY <1>2 DEF ChildrenOf
<1>4. [i \in DOMAIN c |-> item[c[i]]] = [i \in DOMAIN c |-> others[c[i]]]
  BY <1>3
<1>5. QED
  BY <1>1, <1>4 DEF Inner

LEMMA ItemsAgree ==
  ASSUME NEW d, NEW e, NEW S, Common(d, e, S), NEW before, NEW behind, NEW item,
         ItemsOn(d, before, behind, item, S), NEW front, NEW back, NEW others,
         ItemsOn(e, front, back, others, S),
         \A n \in S : front[n] = before[n] /\ back[n] = behind[n]
  PROVE  \A n \in S : item[n] = others[n]
<1> DEFINE T == {n \in S : item[n] # others[n]}
<1> SUFFICES ASSUME T # {} PROVE FALSE
  OBVIOUS
<1>1. Shape(d) /\ Acyclic(d) /\ T \in SUBSET Nodes
  BY DEF Common, Shape
<1>2. PICK m \in T : \A c \in T : d.parent[c] # m
  <2> HIDE DEF T
  <2> QED
    BY <1>1, Lowest
<1>3. m \in S /\ m \in Nodes /\ m \in Joints
  BY <1>1 DEF Joints
<1>4. \A c \in ChildrenOf(d, {m}) : c \in S /\ item[c] = others[c]
  BY <1>2, <1>3 DEF Common, ChildrenOf
<1>5. Inner(d, item, m) = Inner(e, others, m)
  <2>1. SameInside(d, e, m, item, others)
    BY <1>1, <1>3, <1>4 DEF Common, SameInside
  <2>2. QED
    BY <2>1, InnerSame
<1>6. item[m] = others[m]
  BY <1>3, <1>5 DEF ItemsOn
<1>7. QED
  BY <1>2, <1>6

LEMMA InnerType ==
  ASSUME NEW d, Shape(d), NEW n \in Joints, NEW V, NEW item \in [Nodes -> Seq(V)]
  PROVE  Inner(d, item, n) \in Seq(V)
<1>1. PICK c : c = Children(d, n)
  OBVIOUS
<1>2. c \in Seq(Nodes) /\ \A i \in DOMAIN c : c[i] \in Nodes
  BY <1>1, KidsAre
<1>3. PICK k \in Nat : k = Len(c) /\ DOMAIN c = 1..k
  BY <1>2, LenProperties
<1>4. PICK ss : ss = [i \in DOMAIN c |-> item[c[i]]]
  OBVIOUS
<1>5. ss \in [1..k -> Seq(V)]
  BY <1>2, <1>3, <1>4
<1>6. ss \in Seq(Seq(V))
  BY ONLY <1>5, k \in Nat
<1>7. FlattenSeq(ss) \in Seq(V)
  BY <1>6, FlattenSeqType
<1>8. QED
  BY <1>1, <1>4, <1>7 DEF Inner

(* Items of a part of the tree that has k nodes.                            *)
ItemsOf(d, before, behind, V, k) ==
  \E S \in SUBSET Nodes : \E item \in [Nodes -> Seq(V)] :
    /\ Cardinality(S) = k /\ ChildrenOf(d, S) \subseteq S
    /\ ItemsOn(d, before, behind, item, S)

LEMMA ItemsOfMore ==
  ASSUME NEW d, Shape(d), NEW V, NEW before \in [Nodes -> Seq(V)],
         NEW behind \in [Nodes -> Seq(V)], NEW k \in Nat, k < Cardinality(Nodes),
         ItemsOf(d, before, behind, V, k)
  PROVE  ItemsOf(d, before, behind, V, k + 1)
<1>1. PICK S \in SUBSET Nodes : \E item \in [Nodes -> Seq(V)] :
             /\ Cardinality(S) = k /\ ChildrenOf(d, S) \subseteq S
             /\ ItemsOn(d, before, behind, item, S)
  BY DEF ItemsOf
<1>2. PICK item \in [Nodes -> Seq(V)] :
             /\ Cardinality(S) = k /\ ChildrenOf(d, S) \subseteq S
             /\ ItemsOn(d, before, behind, item, S)
  BY <1>1
<1>3. PICK R : R = Nodes \ S
  OBVIOUS
<1>4. R \in SUBSET Nodes /\ R # {}
  <2>1. S # Nodes
    BY <1>2
  <2>2. QED
    BY <1>3, <2>1
<1>5. Acyclic(d)
  BY DEF Shape
<1>6. PICK m \in R : \A c \in R : d.parent[c] # m
  BY <1>4, <1>5, Lowest
<1>7. m \in Nodes /\ m \in Joints /\ m \notin S
  BY <1>3, <1>4 DEF Joints
<1>8. ChildrenOf(d, {m}) \subseteq S
  BY <1>3, <1>6 DEF ChildrenOf
<1>9. PICK x : x = (before[m] \o Inner(d, item, m)) \o behind[m]
  OBVIOUS
<1>10. x \in Seq(V)
  <2>1. PICK a \in Seq(V), b \in Seq(V), c \in Seq(V) :
           a = before[m] /\ b = Inner(d, item, m) /\ c = behind[m]
    BY <1>7, InnerType
  <2>2. a \o b \in Seq(V)
    BY ConcatProperties
  <2>3. (a \o b) \o c \in Seq(V)
    BY <2>2, ConcatProperties
  <2>4. QED
    BY <1>9, <2>1, <2>3
<1>11. PICK others : others = [n \in Nodes |-> IF n = m THEN x ELSE item[n]]
  OBVIOUS
<1>12. others[m] = x /\ \A n \in S : others[n] = item[n]
  BY <1>7, <1>11
<1>13. others \in [Nodes -> Seq(V)]
  BY <1>10, <1>11
<1>14. ASSUME NEW n \in Joints, ChildrenOf(d, {n}) \subseteq S
       PROVE  Inner(d, item, n) = Inner(d, others, n)
  <2>1. SameInside(d, d, n, item, others)
    BY <1>12, <1>14 DEF SameInside
  <2>2. QED
    BY <2>1, InnerSame
<1>15. PICK T : T = S \cup {m}
  OBVIOUS
<1>16. ItemsOn(d, before, behind, others, T)
  <2> SUFFICES ASSUME NEW n \in T
               PROVE  others[n] = (before[n] \o Inner(d, others, n)) \o behind[n]
    BY DEF ItemsOn
  <2>1. Inner(d, item, n) = Inner(d, others, n)
    <3>1. n \in Joints
      BY <1>7, <1>15 DEF Joints
    <3>2. ChildrenOf(d, {n}) \subseteq S
      BY <1>2, <1>8, <1>15 DEF ChildrenOf
    <3>3. QED
      BY <1>14, <3>1, <3>2
  <2>2. CASE n = m
    BY <1>9, <1>12, <2>1, <2>2
  <2>3. CASE n \in S
    BY <1>2, <1>12, <2>1, <2>3 DEF ItemsOn
  <2>4. QED
    BY <1>15, <2>2, <2>3
<1>17. T \in SUBSET Nodes /\ ChildrenOf(d, T) \subseteq T
  BY <1>2, <1>7, <1>8, <1>15 DEF ChildrenOf
<1>18. Cardinality(T) = k + 1
  <2>1. IsFiniteSet(S)
    BY JointsAre, FS_Subset
  <2>2. QED
    BY <1>2, <1>7, <1>15, <2>1, FS_AddElement
<1>19. QED
  BY <1>13, <1>16, <1>17, <1>18 DEF ItemsOf

LEMMA ItemsExist ==
  ASSUME NEW d, Shape(d), NEW V, NEW before \in [Nodes -> Seq(V)],
         NEW behind \in [Nodes -> Seq(V)]
  PROVE  \E item \in [Nodes -> Seq(V)] : ItemsOn(d, before, behind, item, Nodes)
<1> DEFINE T == {k \in Nat : k <= Cardinality(Nodes) => ItemsOf(d, before, behind, V, k)}
<1>1. IsFiniteSet(Nodes) /\ Cardinality(Nodes) \in Nat
  BY JointsAre, FS_CardinalityType
<1>2. 0 \in T
  <2>1. PICK item : item = [n \in Nodes |-> <<>>]
    OBVIOUS
  <2>2. PICK e : e = <<>>
    OBVIOUS
  <2>3. e \in Seq(V)
    BY <2>2, EmptySeq
  <2>4. item \in [Nodes -> Seq(V)]
    BY <2>1, <2>2, <2>3
  <2>5. PICK S : S = {}
    OBVIOUS
  <2>6. S \in SUBSET Nodes /\ Cardinality(S) = 0 /\ ChildrenOf(d, S) \subseteq S
    BY <2>5, FS_EmptySet DEF ChildrenOf
  <2>7. ItemsOn(d, before, behind, item, S)
    BY <2>5 DEF ItemsOn
  <2>8. ItemsOf(d, before, behind, V, 0)
    BY <2>4, <2>6, <2>7 DEF ItemsOf
  <2>9. QED
    BY <2>8
<1>3. ASSUME NEW k \in Nat, k \in T PROVE k + 1 \in T
  <2> SUFFICES ASSUME k + 1 <= Cardinality(Nodes) PROVE ItemsOf(d, before, behind, V, k + 1)
    OBVIOUS
  <2>1. k < Cardinality(Nodes)
    BY <1>1
  <2>2. ItemsOf(d, before, behind, V, k)
    BY <1>1, <1>3, <2>1
  <2>3. QED
    BY <2>1, <2>2, ItemsOfMore
<1>4. Nat \subseteq T
  <2> HIDE DEF T
  <2> QED
    BY <1>2, <1>3, AllNaturals
<1>5. ItemsOf(d, before, behind, V, Cardinality(Nodes))
  <2>1. Cardinality(Nodes) \in T
    BY <1>1, <1>4
  <2>2. QED
    BY <1>1, <2>1
<1>6. PICK S \in SUBSET Nodes : \E item \in [Nodes -> Seq(V)] :
             /\ Cardinality(S) = Cardinality(Nodes)
             /\ ItemsOn(d, before, behind, item, S)
  BY <1>5 DEF ItemsOf
<1>7. S = Nodes
  BY <1>1, <1>6, FS_Subset
<1>8. QED
  BY <1>6, <1>7

(* The function that Unfold computes.                                       *)
IsItems(d, before, behind, item) ==
  item = [n \in Nodes |-> before[n] \o Inner(d, item, n) \o behind[n]]
Items(d, before, behind) == CHOOSE item : IsItems(d, before, behind, item)

LEMMA ItemsMean ==
  ASSUME NEW d, NEW before, NEW behind, NEW item
  PROVE  IsItems(d, before, behind, item) <=>
           item = [n \in Nodes |-> item[n]] /\ ItemsOn(d, before, behind, item, Nodes)
<1> DEFINE r == [n \in Nodes |-> before[n] \o Inner(d, item, n) \o behind[n]]
<1>1. ASSUME item = r
      PROVE  item = [n \in Nodes |-> item[n]] /\ ItemsOn(d, before, behind, item, Nodes)
  <2>1. \A n \in Nodes : r[n] = (before[n] \o Inner(d, item, n)) \o behind[n]
    OBVIOUS
  <2>2. r = [n \in Nodes |-> r[n]]
    OBVIOUS
  <2> HIDE DEF r
  <2>3. QED
    BY <1>1, <2>1, <2>2 DEF ItemsOn
<1>2. ASSUME item = [n \in Nodes |-> item[n]], ItemsOn(d, before, behind, item, Nodes)
      PROVE  item = r
  <2>1. \A n \in Nodes : item[n] = before[n] \o Inner(d, item, n) \o behind[n]
    BY <1>2 DEF ItemsOn
  <2>2. [n \in Nodes |-> item[n]] = r
    BY <2>1
  <2> HIDE DEF r
  <2>3. QED
    BY <1>2, <2>2
<1>3. QED
  BY <1>1, <1>2 DEF IsItems

LEMMA UnfoldIs ==
  ASSUME NEW d, Shape(d), NEW V, NEW before \in [Nodes -> Seq(V)],
         NEW behind \in [Nodes -> Seq(V)], NEW item, item = Items(d, before, behind)
  PROVE  /\ item \in [Nodes -> Seq(V)] /\ ItemsOn(d, before, behind, item, Nodes)
         /\ Unfold(d, before, behind) = Inner(d, item, Doc)
<1>1. PICK it \in [Nodes -> Seq(V)] : ItemsOn(d, before, behind, it, Nodes)
  BY ItemsExist
<1>2. IsItems(d, before, behind, it)
  BY <1>1, ItemsMean
<1>3. IsItems(d, before, behind, item)
  BY <1>2, Zenon DEF Items
<1>4. item = [n \in Nodes |-> item[n]] /\ ItemsOn(d, before, behind, item, Nodes)
  BY <1>3, ItemsMean
<1>5. \A n \in Nodes : item[n] = it[n]
  <2>1. \A n \in Nodes : Children(d, n) = Children(d, n)
    OBVIOUS
  <2>2. PICK N : N = Nodes
    OBVIOUS
  <2>3. Common(d, d, N)
    BY <2>2 DEF Common, ChildrenOf
  <2>4. ItemsOn(d, before, behind, item, N) /\ ItemsOn(d, before, behind, it, N)
    BY <1>1, <1>4, <2>2
  <2>5. \A n \in N : before[n] = before[n] /\ behind[n] = behind[n]
    OBVIOUS
  <2>6. \A n \in N : item[n] = it[n]
    BY <2>3, <2>4, <2>5, ItemsAgree
  <2>7. QED
    BY <2>2, <2>6
<1>6. item \in [Nodes -> Seq(V)]
  BY <1>1, <1>4, <1>5
<1>7. Unfold(d, before, behind) = Inner(d, Items(d, before, behind), Doc)
  BY Zenon DEF Unfold, Items, IsItems
<1>8. QED
  BY <1>4, <1>6, <1>7
-----------------------------------------------------------------------------
(* The pieces of a file, how deep they are nested, and which of them are    *)
(* complete at the level of the document.                                   *)
Forms == Kinds \cup {"free", "cdata", "start", "end", "sealed", "junk"}
Pieces == [form : Forms, name : Names \cup {Null}, attrs : Seq(AttrNames)]

Rise(y) == IF y.form = "start" THEN 1 ELSE IF y.form = "end" THEN -1 ELSE 0
CountTo(z, k, form) == Cardinality({i \in 1..k : z[i].form = form})
Level(z, k) == CountTo(z, k, "start") - CountTo(z, k, "end")

Leads(z) ==
  \A i, j \in 1..Len(z) :
    i < j /\ z[j].form = "declaration" => z[i].form = "declaration"

(* b is what is complete of z, which leaves l elements open.                 *)
Sound(z, b, l) ==
  /\ z \in Seq(Pieces) /\ b \in Seq(Pieces) /\ l \in Nat
  /\ Len(b) <= Len(z) /\ \A i \in 1..Len(b) : b[i] = z[i]
  /\ Level(z, Len(b)) = 0 /\ Level(z, Len(z)) = l
  /\ \A k \in (Len(b) + 1)..Len(z) : Level(z, k) >= 1
  /\ Leads(z)

LEMMA CountNext ==
  ASSUME NEW z, NEW form, NEW k \in Nat
  PROVE  /\ CountTo(z, k, form) \in Nat
         /\ CountTo(z, k + 1, form) =
              CountTo(z, k, form) + IF z[k + 1].form = form THEN 1 ELSE 0
<1>1. PICK S : S = {i \in 1..k : z[i].form = form}
  OBVIOUS
<1>2. IsFiniteSet(S)
  <2>1. IsFiniteSet(1..k) /\ S \subseteq 1..k
    BY <1>1, FS_Interval
  <2>2. QED
    BY <2>1, FS_Subset
<1>3. Cardinality(S) \in Nat
  BY <1>2, FS_CardinalityType
<1>4. PICK T : T = {i \in 1..(k + 1) : z[i].form = form}
  OBVIOUS
<1>5. k + 1 \notin S /\ T = IF z[k + 1].form = form THEN S \cup {k + 1} ELSE S
  BY <1>1, <1>4
<1>6. Cardinality(T) = Cardinality(S) + IF z[k + 1].form = form THEN 1 ELSE 0
  <2>1. Cardinality(S \cup {k + 1}) = Cardinality(S) + 1
    BY <1>2, <1>5, FS_AddElement
  <2>2. QED
    BY <1>3, <1>5, <2>1
<1>7. QED
  BY <1>1, <1>3, <1>4, <1>6 DEF CountTo

LEMMA CountNone ==
  ASSUME NEW z, NEW form PROVE CountTo(z, 0, form) = 0
<1>1. {i \in 1..0 : z[i].form = form} = {}
  OBVIOUS
<1>2. QED
  BY <1>1, FS_EmptySet DEF CountTo

LEMMA LevelNext ==
  ASSUME NEW z, NEW k \in Nat
  PROVE  Level(z, k) \in Int /\ Level(z, k + 1) = Level(z, k) + Rise(z[k + 1])
<1>1. PICK a, b : a = CountTo(z, k, "start") /\ b = CountTo(z, k, "end")
  OBVIOUS
<1>2. a \in Nat /\ b \in Nat
  BY <1>1, CountNext
<1>3. CountTo(z, k + 1, "start") = a + IF z[k + 1].form = "start" THEN 1 ELSE 0
  BY <1>1, CountNext
<1>4. CountTo(z, k + 1, "end") = b + IF z[k + 1].form = "end" THEN 1 ELSE 0
  BY <1>1, CountNext
<1>5. QED
  BY <1>1, <1>2, <1>3, <1>4 DEF Level, Rise

LEMMA LevelSame ==
  ASSUME NEW z, NEW w, NEW k \in Nat, \A i \in 1..k : w[i] = z[i]
  PROVE  Level(w, k) = Level(z, k)
<1>1. \A form : {i \in 1..k : w[i].form = form} = {i \in 1..k : z[i].form = form}
  OBVIOUS
<1>2. QED
  BY <1>1 DEF Level, CountTo

LEMMA SoundEmpty ==
  ASSUME NEW z, z = <<>> PROVE Sound(z, z, 0)
<1>1. z \in Seq(Pieces) /\ Len(z) = 0
  BY EmptySeq
<1>2. Level(z, 0) = 0
  BY CountNone DEF Level
<1>3. QED
  BY <1>1, <1>2 DEF Sound, Leads

LEMMA SoundMore ==
  ASSUME NEW z, NEW b, NEW l, Sound(z, b, l), NEW y \in Pieces, l + Rise(y) >= 0,
         y.form = "declaration" => \A i \in 1..Len(z) : z[i].form = "declaration",
         NEW w, w = Append(z, y), NEW c, c = IF l + Rise(y) = 0 THEN w ELSE b
  PROVE  Sound(w, c, l + Rise(y))
<1>1. PICK k \in Nat : k = Len(z)
  BY LenProperties DEF Sound
<1>2. /\ w \in Seq(Pieces) /\ Len(w) = k + 1 /\ w[k + 1] = y
      /\ \A i \in 1..k : w[i] = z[i]
  BY <1>1, AppendProperties DEF Sound
<1>3. Level(z, k) = l /\ Level(w, k) = l
  <2>1. Level(w, k) = Level(z, k)
    BY <1>2, LevelSame
  <2>2. QED
    BY <1>1, <2>1 DEF Sound
<1>4. Level(w, k + 1) = l + Rise(y) /\ l + Rise(y) \in Nat
  <2>1. Level(w, k + 1) = Level(w, k) + Rise(w[k + 1])
    BY LevelNext
  <2>2. l \in Nat /\ Rise(y) \in Int
    BY DEF Sound, Rise
  <2>3. QED
    BY <1>2, <1>3, <2>1, <2>2
<1>5. Leads(w)
  <2> SUFFICES ASSUME NEW i \in 1..(k + 1), NEW j \in 1..(k + 1), i < j,
                      w[j].form = "declaration"
               PROVE  w[i].form = "declaration"
    BY <1>2 DEF Leads
  <2>1. i \in 1..k
    OBVIOUS
  <2>2. CASE j \in 1..k
    <3>1. z[j].form = "declaration"
      BY <1>2, <2>2
    <3>2. z[i].form = "declaration"
      BY <1>1, <2>1, <2>2, <3>1 DEF Sound, Leads
    <3>3. QED
      BY <1>2, <2>1, <3>2
  <2>3. CASE j = k + 1
    <3>1. y.form = "declaration"
      BY <1>2, <2>3
    <3>2. z[i].form = "declaration"
      BY <1>1, <2>1, <3>1
    <3>3. QED
      BY <1>2, <2>1, <3>2
  <2>4. j \in 1..k \/ j = k + 1
    OBVIOUS
  <2>5. QED
    BY <2>2, <2>3, <2>4
<1>6. CASE l + Rise(y) = 0
  BY <1>2, <1>4, <1>5, <1>6 DEF Sound
<1>7. CASE l + Rise(y) # 0
  <2>1. PICK m \in Nat : m = Len(b) /\ m <= k
    BY <1>1, LenProperties DEF Sound
  <2>2. c = b
    BY <1>7
  <2>3. \A i \in 1..m : b[i] = w[i]
    BY <1>1, <1>2, <2>1 DEF Sound
  <2>4. Level(w, m) = 0
    <3>1. \A i \in 1..m : w[i] = z[i]
      BY <1>2, <2>1
    <3>2. QED
      BY <2>1, <3>1, LevelSame DEF Sound
  <2>5. ASSUME NEW j \in (m + 1)..(k + 1) PROVE Level(w, j) >= 1
    <3>1. CASE j \in (m + 1)..k
      <4>1. \A i \in 1..j : w[i] = z[i]
        BY <1>2, <3>1
      <4>2. Level(w, j) = Level(z, j)
        <5>1. j \in Nat
          OBVIOUS
        <5>2. QED
          BY <4>1, <5>1, LevelSame
      <4>3. QED
        BY <1>1, <2>1, <3>1, <4>2 DEF Sound
    <3>2. CASE j = k + 1
      BY <1>4, <1>7, <3>2
    <3>3. QED
      BY <3>1, <3>2
  <2>6. QED
    BY <1>2, <1>4, <1>5, <2>1, <2>2, <2>3, <2>4, <2>5 DEF Sound
<1>8. QED
  BY <1>6, <1>7

LEMMA LevelIs ==
  ASSUME NEW z \in Seq(Pieces), NEW k \in 0..Len(z)
  PROVE  Balanced(SubSeq(z, 1, k)) <=> Level(z, k) = 0
<1>1. PICK s : s = SubSeq(z, 1, k)
  OBVIOUS
<1>2. k \in Nat /\ Len(z) \in Nat /\ k <= Len(z)
  BY LenProperties
<1>3. DOMAIN s = 1..k /\ \A i \in 1..k : s[i] = z[i]
  BY <1>1, <1>2
<1>4. \A form : Count(s, form) = CountTo(z, k, form)
  <2> SUFFICES ASSUME NEW form PROVE Count(s, form) = CountTo(z, k, form)
    OBVIOUS
  <2>1. {i \in DOMAIN s : s[i].form = form} = {i \in 1..k : z[i].form = form}
    BY <1>3
  <2>2. QED
    BY <2>1 DEF Count, CountTo
<1>5. CountTo(z, k, "start") \in Nat /\ CountTo(z, k, "end") \in Nat
  BY <1>2, CountNext
<1>6. QED
  BY <1>1, <1>4, <1>5 DEF Balanced, Level

LEMMA SoundMeans ==
  ASSUME NEW z, NEW b, NEW l, Sound(z, b, l)
  PROVE  LongestBalanced(z) = b /\ Leads(b) /\ b \in Seq(Pieces) /\ (l = 0 => b = z)
<1>1. PICK n \in Nat : n = Len(z)
  BY LenProperties DEF Sound
<1>2. PICK m \in Nat : m = Len(b) /\ m <= n
  BY <1>1, LenProperties DEF Sound
<1>3. z \in Seq(Pieces) /\ b \in Seq(Pieces) /\ \A i \in 1..m : b[i] = z[i]
  BY <1>2 DEF Sound
<1>4. Level(z, m) = 0 /\ \A j \in (m + 1)..n : Level(z, j) # 0
  BY <1>1, <1>2 DEF Sound
<1> DEFINE Ends(k) == /\ Balanced(SubSeq(z, 1, k))
                      /\ \A j \in (k + 1)..Len(z) : ~Balanced(SubSeq(z, 1, j))
<1>5. Ends(m)
  BY <1>1, <1>2, <1>3, <1>4, LevelIs
<1>6. ASSUME NEW k \in 0..n, Ends(k) PROVE k = m
  <2>1. ~(k < m)
    <3> SUFFICES ASSUME k < m PROVE FALSE
      OBVIOUS
    <3>1. m \in (k + 1)..Len(z)
      BY <1>1, <1>2
    <3>2. QED
      BY <1>5, <1>6, <3>1
  <2>2. ~(m < k)
    <3> SUFFICES ASSUME m < k PROVE FALSE
      OBVIOUS
    <3>1. k \in (m + 1)..Len(z)
      BY <1>1, <1>2
    <3>2. QED
      BY <1>5, <1>6, <3>1
  <2>3. QED
    BY <1>2, <2>1, <2>2
<1>7. PICK k : k = CHOOSE j \in 0..n : Ends(j)
  OBVIOUS
<1>8. k = m
  <2>1. \E j \in 0..n : Ends(j)
    BY <1>2, <1>5
  <2>2. k \in 0..n /\ Ends(k)
    <3> HIDE DEF Ends
    <3> QED
      BY <1>7, <2>1
  <2>3. QED
    BY <1>6, <2>2
<1>9. SubSeq(z, 1, m) = b
  <2>1. PICK s : s = SubSeq(z, 1, m)
    OBVIOUS
  <2>2. s \in Seq(Pieces) /\ Len(s) = m /\ \A i \in 1..m : s[i] = z[i]
    BY <1>1, <1>2, <1>3, <2>1
  <2>3. \A i \in 1..m : s[i] = b[i]
    BY <1>3, <2>2
  <2>4. s = b
    BY <1>2, <1>3, <2>2, <2>3, SeqEqual
  <2>5. QED
    BY <2>1, <2>4
<1>10. LongestBalanced(z) = b
  BY <1>1, <1>7, <1>8, <1>9 DEF LongestBalanced
<1>11. Leads(b)
  BY <1>1, <1>2, <1>3 DEF Sound, Leads
<1>12. l = 0 => b = z
  <2> SUFFICES ASSUME l = 0 PROVE b = z
    OBVIOUS
  <2>1. m = n
    <3> SUFFICES ASSUME m # n PROVE FALSE
      OBVIOUS
    <3>1. n \in (m + 1)..n
      BY <1>2
    <3>2. Level(z, n) # 0
      BY <1>4, <3>1
    <3>3. QED
      BY <1>1, <3>2 DEF Sound
  <2>2. QED
    BY <1>1, <1>2, <1>3, <2>1, SeqEqual
<1>13. QED
  BY <1>3, <1>10, <1>11, <1>12
-----------------------------------------------------------------------------
(* What the tree that is being read would be written as: the children of a  *)
(* node, the part of an element that has been read, and that of all whose    *)
(* children are being read.                                                 *)
Heads(d) == [n \in Nodes |-> StartOf(d, n)]
Tails(d) == [n \in Nodes |-> EndOf(d, n)]
Item(d) == Items(d, Heads(d), Tails(d))
Body(d, n) == Inner(d, Item(d), n)
HeadOf(d, n) == IF n = Doc THEN <<>> ELSE StartOf(d, n)
Part(d, n) == HeadOf(d, n) \o Body(d, n)
Opening(d, s) == FlattenSeq([i \in DOMAIN s |-> Part(d, s[i])])

LEMMA HeadsAre ==
  ASSUME NEW d, Shape(d)
  PROVE  /\ Heads(d) \in [Nodes -> Seq(Pieces)] /\ Tails(d) \in [Nodes -> Seq(Pieces)]
         /\ \A n \in Joints : HeadOf(d, n) \in Seq(Pieces)
<1>1. Typed(d)
  BY TreeMeans DEF Shape
<1>2. ASSUME NEW x \in Pieces PROVE <<x>> \in Seq(Pieces)
  BY <1>2
<1>3. <<>> \in Seq(Pieces) /\ <<>> \in Seq(AttrNames)
  BY EmptySeq
<1>4. ASSUME NEW n \in Nodes PROVE StartOf(d, n) \in Seq(Pieces) /\ EndOf(d, n) \in Seq(Pieces)
  <2>1. /\ d.kind[n] \in Kinds \cup {"free"} /\ d.name[n] \in Names \cup {Null}
        /\ d.attrs[n] \in Seq(AttrNames)
    BY <1>1 DEF Typed
  <2>2. /\ Piece("start", d.name[n], d.attrs[n]) \in Pieces /\ EndPiece(d.name[n]) \in Pieces
        /\ Mark(d.kind[n]) \in Pieces
    BY <1>3, <2>1 DEF Piece, EndPiece, Mark, Pieces, Forms
  <2>3. QED
    BY <1>2, <1>3, <2>2 DEF StartOf, EndOf
<1>5. QED
  BY <1>3, <1>4 DEF Heads, Tails, HeadOf, Joints

LEMMA ItemIs ==
  ASSUME NEW d, Shape(d)
  PROVE  /\ Item(d) \in [Nodes -> Seq(Pieces)]
         /\ ItemsOn(d, Heads(d), Tails(d), Item(d), Nodes)
         /\ Serial(d) = Body(d, Doc)
<1>1. PICK before \in [Nodes -> Seq(Pieces)], behind \in [Nodes -> Seq(Pieces)] :
        before = Heads(d) /\ behind = Tails(d)
  BY HeadsAre
<1>2. PICK item : item = Items(d, before, behind)
  OBVIOUS
<1>3. /\ item \in [Nodes -> Seq(Pieces)] /\ ItemsOn(d, before, behind, item, Nodes)
      /\ Unfold(d, before, behind) = Inner(d, item, Doc)
  BY <1>2, UnfoldIs
<1>4. Serial(d) = Unfold(d, Heads(d), Tails(d))
  BY DEF Serial, Heads, Tails
<1>5. QED
  BY <1>1, <1>2, <1>3, <1>4 DEF Item, Body

LEMMA PartType ==
  ASSUME NEW d, Shape(d), NEW n \in Joints
  PROVE  Body(d, n) \in Seq(Pieces) /\ Part(d, n) \in Seq(Pieces)
<1>1. Body(d, n) \in Seq(Pieces)
  BY ItemIs, InnerType DEF Body
<1>2. PICK a \in Seq(Pieces), b \in Seq(Pieces) : a = HeadOf(d, n) /\ b = Body(d, n)
  BY <1>1, HeadsAre
<1>3. a \o b \in Seq(Pieces)
  BY ConcatProperties
<1>4. QED
  BY <1>2, <1>3 DEF Part

(* What a node is written as, if it has no child, and if it is an element.   *)
NoChild(d, n) == ChildrenOf(d, {n}) = {}

LEMMA ItemAlone ==
  ASSUME NEW d, Shape(d), NEW n \in Joints, NoChild(d, n)
  PROVE  Body(d, n) = <<>>
<1>1. PICK c : c = Children(d, n)
  OBVIOUS
<1>2. c \in Seq(Nodes) /\ \A i \in DOMAIN c : c[i] \in Nodes /\ d.parent[c[i]] = n
  BY <1>1, KidsAre
<1>3. DOMAIN c = {}
  BY <1>2 DEF NoChild, ChildrenOf
<1>4. [i \in DOMAIN c |-> Item(d)[c[i]]] = <<>>
  <2>1. PICK f : f = [i \in DOMAIN c |-> Item(d)[c[i]]]
    OBVIOUS
  <2>2. Len(c) = 0 /\ c = <<>>
    BY <1>2, <1>3, EmptySeq, LenProperties
  <2>3. f = c
    BY <1>3, <2>1, <2>2
  <2>4. QED
    BY <2>1, <2>2, <2>3
<1>5. QED
  BY <1>1, <1>4, FlattenSeqEmpty DEF Body, Inner

LEMMA ItemParts ==
  ASSUME NEW d, Shape(d), NEW n \in Nodes
  PROVE  Item(d)[n] = Then(Part(d, n), EndOf(d, n))
<1>1. Item(d)[n] = (Heads(d)[n] \o Inner(d, Item(d), n)) \o Tails(d)[n]
  BY ItemIs DEF ItemsOn
<1>2. Heads(d)[n] = StartOf(d, n) /\ Tails(d)[n] = EndOf(d, n) /\ n # Doc
  BY JointsAre DEF Heads, Tails
<1>3. QED
  BY <1>1, <1>2 DEF Part, HeadOf, Body, Then

(* Trees that differ in nodes that are no other nodes' children.            *)
Apart(d, e, R) ==
  /\ Shape(d) /\ Shape(e) /\ R \in SUBSET Joints
  /\ \A m \in R : m \in Nodes => d.parent[m] \in R \cup {Null}
  /\ \A n \in Joints \ R : Children(e, n) = Children(d, n)
  /\ \A n \in Nodes \ R :
       e.kind[n] = d.kind[n] /\ e.name[n] = d.name[n] /\ e.attrs[n] = d.attrs[n]

LEMMA ApartItems ==
  ASSUME NEW d, NEW e, NEW R, Apart(d, e, R)
  PROVE  /\ \A n \in Nodes \ R : Item(e)[n] = Item(d)[n]
         /\ \A n \in Joints \ R : Part(e, n) = Part(d, n)
         /\ Doc \notin R => Serial(e) = Serial(d)
<1> USE DEF Apart
<1>1. PICK S : S = Nodes \ R
  OBVIOUS
<1>2. S \in SUBSET Nodes /\ S \subseteq Joints \ R /\ Null \notin Joints
  BY <1>1, JointsAre DEF Joints
<1>3. ASSUME NEW n \in Joints \ R PROVE ChildrenOf(d, {n}) \subseteq S
  <2> SUFFICES ASSUME NEW m \in Nodes, d.parent[m] = n PROVE m \notin R
    BY <1>1 DEF ChildrenOf
  <2>1. QED
    BY <1>2
<1>4. Common(d, e, S)
  <2>1. ChildrenOf(d, S) \subseteq S
    BY <1>2, <1>3 DEF ChildrenOf
  <2>2. \A n \in S : Children(e, n) = Children(d, n)
    BY <1>2
  <2>3. QED
    BY <1>2, <2>1, <2>2 DEF Common
<1>5. PICK before, behind, front, back :
        before = Heads(d) /\ behind = Tails(d) /\ front = Heads(e) /\ back = Tails(e)
  OBVIOUS
<1>6. \A n \in S : front[n] = before[n] /\ back[n] = behind[n]
  BY <1>1, <1>5 DEF Heads, Tails, StartOf, EndOf
<1>7. PICK item, others : item = Item(d) /\ others = Item(e)
  OBVIOUS
<1>8. ItemsOn(d, before, behind, item, S) /\ ItemsOn(e, front, back, others, S)
  <2>1. ItemsOn(d, before, behind, item, Nodes)
    BY <1>5, <1>7, ItemIs
  <2>2. ItemsOn(e, front, back, others, Nodes)
    BY <1>5, <1>7, ItemIs
  <2>3. QED
    BY <1>2, <2>1, <2>2 DEF ItemsOn
<1>9. \A n \in S : item[n] = others[n]
  BY <1>4, <1>6, <1>8, ItemsAgree
<1>10. ASSUME NEW n \in Joints \ R PROVE Body(e, n) = Body(d, n)
  <2>1. SameInside(d, e, n, item, others)
    BY <1>3, <1>9 DEF SameInside
  <2>2. QED
    BY <1>7, <2>1, InnerSame DEF Body
<1>11. ASSUME NEW n \in Joints \ R PROVE HeadOf(e, n) = HeadOf(d, n)
  BY DEF HeadOf, StartOf, Joints
<1>12. Doc \in Joints
  BY DEF Joints
<1>13. QED
  BY <1>1, <1>7, <1>9, <1>10, <1>11, <1>12, ItemIs DEF Part
-----------------------------------------------------------------------------
LEMMA OpeningType ==
  ASSUME NEW d, Shape(d), NEW s \in Seq(Joints) PROVE Opening(d, s) \in Seq(Pieces)
<1>1. PICK k \in Nat : k = Len(s) /\ DOMAIN s = 1..k
  BY LenProperties
<1>2. PICK ss : ss = [i \in 1..k |-> Part(d, s[i])]
  OBVIOUS
<1>3. ss \in [1..k -> Seq(Pieces)]
  BY <1>1, <1>2, PartType
<1>4. ss \in Seq(Seq(Pieces))
  BY ONLY <1>3, k \in Nat
<1>5. QED
  BY <1>1, <1>2, <1>4, FlattenSeqType DEF Opening

LEMMA OpeningPush ==
  ASSUME NEW d, Shape(d), NEW s \in Seq(Joints), NEW n \in Joints
  PROVE  Opening(d, Append(s, n)) = Then(Opening(d, s), Part(d, n))
<1>1. PICK k \in Nat : k = Len(s) /\ DOMAIN s = 1..k
  BY LenProperties
<1>2. PICK ss : ss = [i \in 1..k |-> Part(d, s[i])]
  OBVIOUS
<1>3. ss \in [1..k -> Seq(Pieces)]
  BY <1>1, <1>2, PartType
<1>4. ss \in Seq(Seq(Pieces)) /\ Len(ss) = k
  BY ONLY <1>3, k \in Nat
<1>5. PICK x \in Seq(Pieces) : x = Part(d, n)
  BY PartType
<1>6. PICK t : t = Append(s, n)
  OBVIOUS
<1>7. DOMAIN t = 1..(k + 1) /\ t[k + 1] = n /\ \A i \in 1..k : t[i] = s[i]
  BY <1>1, <1>6, AppendProperties
<1>8. [i \in DOMAIN t |-> Part(d, t[i])] = Append(ss, x)
  <2>1. PICK f : f = [i \in 1..(k + 1) |-> Part(d, t[i])]
    OBVIOUS
  <2>2. PICK g : g = Append(ss, x)
    OBVIOUS
  <2>3. g \in Seq(Seq(Pieces)) /\ Len(g) = k + 1 /\ g[k + 1] = x /\ \A i \in 1..k : g[i] = ss[i]
    BY <1>4, <2>2, AppendProperties
  <2>4. g = [i \in 1..(k + 1) |-> g[i]]
    BY <2>3
  <2>5. \A i \in 1..(k + 1) : f[i] = g[i]
    <3>1. \A i \in 1..k : f[i] = g[i]
      BY <1>2, <1>7, <2>1, <2>3
    <3>2. f[k + 1] = g[k + 1]
      BY <1>5, <1>7, <2>1, <2>3
    <3>3. \A i \in 1..(k + 1) : i \in 1..k \/ i = k + 1
      OBVIOUS
    <3>4. QED
      BY <3>1, <3>2, <3>3
  <2>6. f = g
    BY <2>1, <2>4, <2>5
  <2>7. QED
    BY <1>7, <2>1, <2>2, <2>6
<1>9. FlattenSeq(Append(ss, x)) = FlattenSeq(ss) \o x
  BY <1>4, FlattenSeqAppend
<1>10. QED
  BY <1>1, <1>2, <1>5, <1>6, <1>8, <1>9 DEF Opening, Then

LEMMA OpeningSame ==
  ASSUME NEW d, NEW e, NEW s, \A i \in DOMAIN s : Part(e, s[i]) = Part(d, s[i])
  PROVE  Opening(e, s) = Opening(d, s)
<1>1. [i \in DOMAIN s |-> Part(e, s[i])] = [i \in DOMAIN s |-> Part(d, s[i])]
  OBVIOUS
<1>2. QED
  BY <1>1 DEF Opening

LEMMA OpeningDocument ==
  ASSUME NEW d, Shape(d), NEW s \in Seq(Joints), Len(s) = 1, s[1] = Doc
  PROVE  Opening(d, s) = Serial(d)
<1>1. Doc \in Joints
  BY DEF Joints
<1>2. PICK x \in Seq(Pieces) : x = Body(d, Doc)
  BY <1>1, PartType
<1>3. Part(d, Doc) = x
  BY <1>2, ConcatEmptySeq DEF Part, HeadOf
<1>4. [i \in DOMAIN s |-> Part(d, s[i])] = <<x>>
  <2>1. DOMAIN s = 1..1
    BY LenProperties
  <2>2. \A i \in 1..1 : i = 1
    OBVIOUS
  <2>3. PICK f : f = [i \in 1..1 |-> Part(d, s[i])]
    OBVIOUS
  <2>4. f[1] = x
    BY <1>3, <2>3
  <2>5. f = <<x>>
    BY <2>2, <2>3, <2>4
  <2>6. QED
    BY <2>1, <2>3, <2>5
<1>5. QED
  BY <1>2, <1>4, FlattenSeqOne, ItemIs DEF Opening
-----------------------------------------------------------------------------
(* What the operations of a parse change of that.                            *)
LEMMA LinksChildren ==
  ASSUME NEW d, NEW e, SameLinks(d, e), NEW n PROVE Children(e, n) = Children(d, n)
BY DEF SameLinks, Children

LEMMA CreateApart ==
  ASSUME NEW d, Whole(d), Free(d) # {}, NEW kind \in Kinds, NEW name \in Names \cup {Null},
         NEW e, e = CreateUnlinkedNode(d, kind, name), NEW n, n = Fresh(d),
         NEW R, R = {n}
  PROVE  /\ Apart(d, e, R) /\ Shape(e) /\ NoChild(e, n)
         /\ n \in Nodes /\ e.kind[n] = kind /\ e.name[n] = name /\ e.attrs[n] = <<>>
<1>1. Created(d, e, n) /\ e.kind[n] = kind
  BY Creates
<1>2. Shape(d) /\ Shape(e) /\ n \in Nodes /\ d.kind[n] = "free" /\ d \in Trees
  BY <1>1, FreshIsFree DEF Created, Whole, Booked, Shape
<1>3. e.name = [d.name EXCEPT ![n] = name] /\ e.attrs = d.attrs
  BY <1>2, CreateName
<1>4. e.attrs = d.attrs
  BY <1>3
<1>5. Typed(d)
  BY <1>2, TreeMeans
<1>6. e.name[n] = name /\ e.attrs[n] = <<>> /\ \A m \in Nodes \ {n} : e.name[m] = d.name[m]
  BY <1>2, <1>3, <1>4, <1>5 DEF Typed, Shape, Bare
<1>7. d.parent[n] = Null
  BY <1>2 DEF Shape, Holding
<1>8. \A m \in Joints \ R : Children(e, m) = Children(d, m)
  BY <1>1, LinksChildren DEF Created
<1>9. \A m \in Nodes \ R : e.kind[m] = d.kind[m] /\ e.name[m] = d.name[m] /\ e.attrs[m] = d.attrs[m]
  BY <1>1, <1>4, <1>6 DEF Created
<1>10. Apart(d, e, R)
  BY <1>2, <1>7, <1>8, <1>9 DEF Apart, Joints
<1>11. QED
  BY <1>1, <1>2, <1>6, <1>10 DEF Created, NoChild

LEMMA AttributesApart ==
  ASSUME NEW d, Shape(d), NEW e, Shape(e), NEW n \in Orphans(d), NEW s, NEW k,
         AttributesSet(d, e, n, s, k), NEW R, R = {n}
  PROVE  Apart(d, e, R)
<1>1. n \in Nodes /\ d.parent[n] = Null
  BY DEF Orphans, Living
<1>2. \A m \in Joints \ R : Children(e, m) = Children(d, m)
  BY LinksChildren DEF AttributesSet
<1>3. QED
  BY <1>1, <1>2 DEF Apart, AttributesSet, Joints

LEMMA CutApart ==
  ASSUME NEW d, Shape(d), NEW e, Shape(e), NEW n \in Orphans(d), Cut(d, e, n),
         NEW R, R = Subtree(d, n)
  PROVE  Apart(d, e, R) /\ \A m \in R : m = n \/ (m \in Nodes /\ d.parent[m] # Null)
<1>1. n \in Nodes /\ n \in Joints /\ d.parent[n] = Null /\ Null \notin Joints /\ Nodes \subseteq Joints
  BY JointsAre DEF Orphans, Living, Joints
<1>2. Under(d, n, R)
  BY <1>1, SubtreeUnder
<1>3. /\ R \in SUBSET Nodes /\ ChildrenOf(d, R) \subseteq R
      /\ \A m \in R : m = n \/ d.parent[m] \in R
  BY <1>1, <1>2 DEF Under
<1>4. PICK U : U = {}
  OBVIOUS
<1>5. Emptied(d, e, R, U)
  BY <1>4 DEF Cut
<1>6. ASSUME NEW m \in Joints \ R PROVE Children(e, m) = Children(d, m)
  <2>1. PICK k \in Nat : \E s \in [1..k -> Nodes] : Chain(d, m, s, k)
    BY DEF Shape, Chained
  <2>2. PICK s \in [1..k -> Nodes] : Chain(d, m, s, k)
    BY <2>1
  <2>3. \A j \in Nodes : e.parent[j] = m <=> d.parent[j] = m
    <3> SUFFICES ASSUME NEW j \in Nodes PROVE e.parent[j] = m <=> d.parent[j] = m
      OBVIOUS
    <3>1. e.parent[j] = IF j \in R THEN Null ELSE d.parent[j]
      BY <1>1, <1>5 DEF Emptied
    <3>2. j \in R => d.parent[j] # m
      BY <1>1, <1>3, <1>6
    <3>3. QED
      BY <1>1, <1>6, <3>1, <3>2
  <2>4. ASSUME NEW i \in 1..k PROVE e.prev[s[i]] = d.prev[s[i]] /\ e.next[s[i]] = d.next[s[i]]
    <3>1. PICK j \in Nodes : j = s[i]
      OBVIOUS
    <3>2. d.parent[j] = m /\ j \in Joints
      BY <1>1, <2>2, <3>1 DEF Chain
    <3>3. j \notin R
      BY <1>1, <1>3, <1>6, <3>2
    <3>4. QED
      BY <1>5, <3>1, <3>2, <3>3 DEF Emptied
  <2>5. e.first[m] = d.first[m] /\ e.last[m] = d.last[m]
    BY <1>4, <1>5, <1>6 DEF Emptied
  <2>6. ChainKept(d, e, m, s, k)
    BY <2>3, <2>4, <2>5 DEF ChainKept
  <2>7. Chain(e, m, s, k)
    BY <2>2, <2>6, ChainFrame
  <2>8. QED
    BY <2>2, <2>7, ChildrenAre
<1>7. \A m \in Nodes \ R : e.kind[m] = d.kind[m] /\ e.name[m] = d.name[m] /\ e.attrs[m] = d.attrs[m]
  BY <1>5 DEF Emptied, Stripped
<1>8. \A m \in R : d.parent[m] \in R \cup {Null}
  BY <1>1, <1>3
<1>9. \A m \in R : m = n \/ (m \in Nodes /\ d.parent[m] # Null)
  BY <1>1, <1>3
<1>10. QED
  BY <1>1, <1>3, <1>6, <1>7, <1>8, <1>9 DEF Apart

LEMMA LastChildren ==
  ASSUME NEW f, NEW e, NEW u \in Joints, NEW c \in Nodes, f.parent[c] # u,
         NEW k \in Nat, NEW s \in [1..k -> Nodes], Chain(f, u, s, k),
         NEW b, b = f.last[u], Linked(f, e, u, b, c, Null)
  PROVE  Children(e, u) = Append(s, c)
<1>1. PICK t : t = [i \in 1..(k + 1) |-> IF i = k + 1 THEN c ELSE s[i]]
  OBVIOUS
<1>2. t[k + 1] = c /\ (\A i \in 1..k : t[i] = s[i] /\ t[i] # c) /\ t \in [1..(k + 1) -> Nodes]
  <2>1. \A i \in 1..k : t[i] = s[i] /\ s[i] \in Nodes
    BY <1>1
  <2>2. \A i \in 1..k : s[i] # c
    BY DEF Chain
  <2>3. QED
    BY <1>1, <2>1, <2>2
<1>3. \A i, j \in 1..k : s[i] = s[j] => i = j
  BY DEF Chain
<1>4. \A i, j \in 1..(k + 1) : t[i] = t[j] => i = j
  <2> SUFFICES ASSUME NEW i \in 1..(k + 1), NEW j \in 1..(k + 1), t[i] = t[j] PROVE i = j
    OBVIOUS
  <2>1. /\ i \in 1..k \/ i = k + 1
        /\ j \in 1..k \/ j = k + 1
    OBVIOUS
  <2>2. QED
    BY <1>2, <1>3, <2>1
<1>5. k + 1 <= MaxNodes /\ k + 1 \in Nat
  <2>1. PICK l \in Nat : l = k + 1
    OBVIOUS
  <2>2. t \in [1..l -> Nodes] /\ \A i, j \in 1..l : t[i] = t[j] => i = j
    BY <1>2, <1>4, <2>1
  <2>3. l <= MaxNodes
    BY <2>2, ChainLength
  <2>4. QED
    BY <2>1, <2>3
<1>6. Nodes \subseteq Joints /\ Null \notin Nodes /\ Null \notin Joints
  BY JointsAre DEF Joints
<1>7. b = IF k = 0 THEN Null ELSE s[k]
  BY DEF Chain
<1>8. e.first[u] = t[1]
  <2>1. e.first[u] = IF b = Null THEN c ELSE f.first[u]
    BY DEF Linked
  <2>2. CASE k = 0
    BY <1>2, <1>7, <2>1, <2>2
  <2>3. CASE k # 0
    <3>1. 1 \in 1..k /\ k \in 1..k
      BY <2>3
    <3>2. b # Null /\ f.first[u] = s[1]
      BY <1>6, <1>7, <2>3, <3>1 DEF Chain
    <3>3. QED
      BY <1>2, <2>1, <3>1, <3>2
  <2>4. QED
    BY <2>2, <2>3
<1>9. ASSUME NEW i \in 1..(k + 1)
      PROVE  e.next[t[i]] = IF i = k + 1 THEN Null ELSE t[i + 1]
  <2>1. PICK m \in Nodes : m = t[i]
    BY <1>2
  <2>2. e.next[m] = IF m = b THEN c ELSE IF m = c THEN Null ELSE f.next[m]
    BY <1>6 DEF Linked
  <2>3. CASE i = k + 1
    <3>1. m = c /\ m # b
      <4>1. m = c
        <5>1. t[k + 1] = c
          BY <1>2
        <5>2. QED
          BY <2>1, <2>3, <5>1
      <4>2. CASE k = 0
        BY <1>6, <1>7, <4>1, <4>2
      <4>3. CASE k # 0
        <5>1. k \in 1..k
          BY <4>3
        <5>2. QED
          BY <1>2, <1>7, <4>1, <4>3, <5>1
      <4>4. QED
        BY <4>1, <4>2, <4>3
    <3>2. QED
      BY <2>1, <2>2, <2>3, <3>1
  <2>4. CASE i # k + 1
    <3>1. i \in 1..k /\ k \in 1..k /\ k # 0
      BY <2>4
    <3>2. m = s[i] /\ m # c
      BY <1>2, <2>1, <3>1
    <3>3. m = b <=> i = k
      BY <1>3, <1>7, <3>1, <3>2
    <3>4. CASE i = k
      BY <1>2, <2>1, <2>2, <2>4, <3>3, <3>4
    <3>5. CASE i # k
      <4>1. i + 1 \in 1..k
        BY <3>1, <3>5
      <4>2. f.next[m] = s[i + 1]
        BY <3>1, <3>2, <3>5 DEF Chain
      <4>3. t[i + 1] = s[i + 1]
        BY <1>2, <4>1
      <4>4. QED
        BY <2>1, <2>2, <2>4, <3>2, <3>3, <3>5, <4>2, <4>3
    <3>6. QED
      BY <3>4, <3>5
  <2>5. QED
    BY <2>3, <2>4
<1>10. Line(e.first[u], e.next, t, k + 1)
  BY <1>5, <1>8, <1>9 DEF Line
<1>11. Children(e, u) = t
  <2>1. Follow(e.first[u], e.next) = t
    BY <1>2, <1>5, <1>10, FollowIs
  <2>2. QED
    BY <2>1 DEF Children
<1>12. t = Append(s, c)
  <2>1. s \in Seq(Nodes) /\ Len(s) = k
    BY ONLY k \in Nat, s \in [1..k -> Nodes]
  <2>2. PICK r : r = Append(s, c)
    OBVIOUS
  <2>3. /\ r \in Seq(Nodes) /\ Len(r) = k + 1 /\ r[k + 1] = c /\ \A i \in 1..k : r[i] = s[i]
    BY <2>1, <2>2, AppendProperties
  <2>4. t \in Seq(Nodes) /\ Len(t) = k + 1
    <3>1. PICK l \in Nat : l = k + 1
      BY <1>5
    <3>2. t \in [1..l -> Nodes]
      BY <1>2, <3>1
    <3>3. t \in Seq(Nodes) /\ Len(t) = l
      BY ONLY l \in Nat, <3>2
    <3>4. QED
      BY <3>1, <3>3
  <2>5. \A i \in 1..(k + 1) : t[i] = r[i]
    <3>1. \A i \in 1..(k + 1) : i \in 1..k \/ i = k + 1
      OBVIOUS
    <3>2. QED
      BY <1>2, <2>3, <3>1
  <2>6. t = r
    BY <2>3, <2>4, <2>5, SeqEqual
  <2>7. QED
    BY <2>2, <2>6
<1>13. QED
  BY <1>11, <1>12

LEMMA AttachApart ==
  ASSUME NEW d, Whole(d), NEW c \in Orphans(d), NEW u \in Joints, Holds(d, u), u # c,
         u = Doc \/ d.parent[u] = Null, NEW e, e = InsertEndChild(d, u, c), NEW R, R = {u}
  PROVE  /\ Apart(d, e, R) /\ HeadOf(e, u) = HeadOf(d, u)
         /\ Children(e, u) = Append(Children(d, u), c)
<1>1. /\ c \in Nodes /\ Booked(d, Orphans(d)) /\ Shape(d) /\ d \in Trees /\ d.parent[c] = Null
      /\ Orphans(d) \in SUBSET Nodes /\ c \in Living(d)
  BY DEF Whole, Booked, Shape, Living, Orphans
<1>2. PICK f : f = SetTracked(MarkInUse(d, c), c)
  OBVIOUS
<1>3. /\ Shape(f) /\ SameLinks(d, f) /\ SameNodes(d, f)
  <2>1. PICK g : g = MarkInUse(d, c)
    OBVIOUS
  <2>2. /\ g \in Trees /\ SameLinks(d, g) /\ SameNodes(d, g)
        /\ g.allocs = d.allocs /\ g.untracked = d.untracked /\ Listed(g, Orphans(d) \ {c})
    BY <1>1, <2>1, MarkInUseFields DEF Booked
  <2>3. f = SetTracked(g, c)
    BY <1>2, <2>1
  <2>4. QED
    BY <1>1, <2>2, <2>3, Tracked
<1>4. PICK b : b = f.last[u]
  OBVIOUS
<1>5. e = LinkBetween(f, u, b, c, Null)
  BY <1>1, <1>2, <1>4 DEF InsertEndChild, InsertChildPreamble, Alone
<1>6. PICK k \in Nat : \E s \in [1..k -> Nodes] : Chain(f, u, s, k)
  BY <1>3 DEF Shape, Chained
<1>7. PICK s \in [1..k -> Nodes] : Chain(f, u, s, k)
  BY <1>6
<1>8. b \in Nodes \cup {Null} /\ Between(f, u, b, Null)
  <2>1. b = IF k = 0 THEN Null ELSE s[k]
    BY <1>4, <1>7 DEF Chain
  <2>2. b \in Nodes \cup {Null}
    BY <2>1
  <2>3. QED
    BY <1>3, <1>4, <2>2, Places
<1>9. SameNodes(f, e) /\ Linked(f, e, u, b, c, Null)
  <2>1. PICK a \in Nodes \cup {Null} : a = Null
    OBVIOUS
  <2>2. f \in Trees /\ e = LinkBetween(f, u, b, c, a)
    BY <1>3, <1>5, <2>1 DEF Shape
  <2>3. SameNodes(f, e) /\ Linked(f, e, u, b, c, a)
    BY <1>1, <1>8, <2>2, LinkFields
  <2>4. QED
    BY <2>1, <2>3
<1>10. f.parent[c] = Null /\ u # Null
  BY <1>1, <1>3, JointsAre DEF SameLinks
<1>11. Children(d, u) = s
  <2>1. Children(f, u) = s
    BY <1>7, ChildrenAre
  <2>2. QED
    BY <1>3, <2>1, LinksChildren
<1>12. Children(e, u) = Append(s, c)
  BY <1>1, <1>4, <1>7, <1>9, <1>10, LastChildren
<1>13. ASSUME NEW n \in Joints, n # u PROVE Children(e, n) = Children(d, n)
  <2>1. PICK l \in Nat : \E r \in [1..l -> Nodes] : Chain(f, n, r, l)
    BY <1>3 DEF Shape, Chained
  <2>2. PICK r \in [1..l -> Nodes] : Chain(f, n, r, l)
    BY <2>1
  <2>3. Chain(e, n, r, l)
    <3>1. f \in Trees
      BY <1>3 DEF Shape
    <3>2. QED
      BY <1>1, <1>8, <1>9, <1>10, <1>13, <2>2, <3>1, LinkedOthers
  <2>4. Children(f, n) = r /\ Children(e, n) = r
    BY <2>2, <2>3, ChildrenAre
  <2>5. QED
    BY <1>3, <2>4, LinksChildren
<1>14. SameNodes(d, e)
  BY <1>3, <1>9 DEF SameNodes
<1>15. Shape(e)
  <2>1. Moved(d, e, u, c)
    BY <1>1, Attaches
  <2>2. QED
    BY <2>1 DEF Moved, Whole, Booked
<1>16. Apart(d, e, R)
  <2>1. \A m \in R : m \in Nodes => d.parent[m] \in R \cup {Null}
    BY JointsAre
  <2>2. R \in SUBSET Joints
    OBVIOUS
  <2>3. \A n \in Joints \ R : Children(e, n) = Children(d, n)
    BY <1>13
  <2>4. QED
    BY <1>1, <1>14, <1>15, <2>1, <2>2, <2>3 DEF Apart, SameNodes
<1>17. HeadOf(e, u) = HeadOf(d, u)
  BY <1>14 DEF HeadOf, StartOf, SameNodes
<1>18. QED
  BY <1>11, <1>12, <1>16, <1>17

LEMMA AttachPart ==
  ASSUME NEW d, Whole(d), NEW c \in Orphans(d), NEW u \in Joints, Holds(d, u), u # c,
         u = Doc \/ d.parent[u] = Null, NEW e, e = InsertEndChild(d, u, c)
  PROVE  Body(e, u) = Then(Body(d, u), Item(d)[c]) /\ Part(e, u) = Then(Part(d, u), Item(d)[c])
<1>1. PICK R : R = {u}
  OBVIOUS
<1>2. /\ Apart(d, e, R) /\ HeadOf(e, u) = HeadOf(d, u)
      /\ Children(e, u) = Append(Children(d, u), c)
  BY <1>1, AttachApart
<1>3. PICK s : s = Children(d, u)
  OBVIOUS
<1>4. Shape(d) /\ c \in Nodes
  BY DEF Whole, Booked, Orphans, Living
<1>5. s \in Seq(Nodes) /\ \A i \in DOMAIN s : s[i] \in Nodes /\ d.parent[s[i]] = u
  BY <1>3, <1>4, KidsAre
<1>6. PICK k \in Nat : k = Len(s) /\ DOMAIN s = 1..k
  BY <1>5, LenProperties
<1>7. \A i \in 1..k : s[i] # u
  BY <1>5, <1>6, JointsAre
<1>8. \A n \in Nodes : n # u => Item(e)[n] = Item(d)[n]
  BY <1>1, <1>2, ApartItems
<1>9. Item(d) \in [Nodes -> Seq(Pieces)]
  BY <1>4, ItemIs
<1>10. PICK ss : ss = [i \in 1..k |-> Item(d)[s[i]]]
  OBVIOUS
<1>11. ss \in Seq(Seq(Pieces)) /\ Len(ss) = k
  <2>1. ss \in [1..k -> Seq(Pieces)]
    BY <1>5, <1>6, <1>9, <1>10
  <2>2. QED
    BY ONLY <2>1, k \in Nat
<1>12. PICK x \in Seq(Pieces) : x = Item(d)[c]
  BY <1>4, <1>9
<1>13. PICK t : t = Append(s, c)
  OBVIOUS
<1>14. DOMAIN t = 1..(k + 1) /\ t[k + 1] = c /\ \A i \in 1..k : t[i] = s[i]
  BY <1>4, <1>5, <1>6, <1>13, AppendProperties
<1>15. [i \in DOMAIN t |-> Item(e)[t[i]]] = Append(ss, x)
  <2>1. PICK f : f = [i \in 1..(k + 1) |-> Item(e)[t[i]]]
    OBVIOUS
  <2>2. PICK g : g = Append(ss, x)
    OBVIOUS
  <2>3. g \in Seq(Seq(Pieces)) /\ Len(g) = k + 1 /\ g[k + 1] = x /\ \A i \in 1..k : g[i] = ss[i]
    BY <1>11, <2>2, AppendProperties
  <2>4. g = [i \in 1..(k + 1) |-> g[i]]
    BY <2>3
  <2>5. \A i \in 1..(k + 1) : f[i] = g[i]
    <3>1. ASSUME NEW i \in 1..k PROVE f[i] = g[i]
      <4>1. f[i] = Item(e)[s[i]] /\ s[i] \in Nodes /\ s[i] # u
        BY <1>5, <1>6, <1>7, <1>14, <2>1
      <4>2. g[i] = Item(d)[s[i]]
        BY <1>10, <2>3
      <4>3. QED
        BY <1>8, <4>1, <4>2
    <3>2. f[k + 1] = g[k + 1]
      BY <1>4, <1>8, <1>12, <1>14, <2>1, <2>3
    <3>3. \A i \in 1..(k + 1) : i \in 1..k \/ i = k + 1
      OBVIOUS
    <3>4. QED
      BY <3>1, <3>2, <3>3
  <2>6. f = g
    BY <2>1, <2>4, <2>5
  <2>7. QED
    BY <1>14, <2>1, <2>2, <2>6
<1>16. FlattenSeq(Append(ss, x)) = FlattenSeq(ss) \o x
  BY <1>11, FlattenSeqAppend
<1>17. Body(d, u) = FlattenSeq(ss) /\ Body(e, u) = FlattenSeq(Append(ss, x))
  BY <1>2, <1>3, <1>6, <1>10, <1>13, <1>15 DEF Body, Inner
<1>18. Body(e, u) = Body(d, u) \o x
  BY <1>16, <1>17
<1>19. PICK h \in Seq(Pieces), b \in Seq(Pieces) : h = HeadOf(d, u) /\ b = Body(d, u)
  BY <1>4, HeadsAre, PartType
<1>20. h \o (b \o x) = (h \o b) \o x
  BY ConcatAssociative
<1>21. QED
  BY <1>2, <1>12, <1>18, <1>19, <1>20 DEF Part, Then
-----------------------------------------------------------------------------
LEMMA OpeningTop ==
  ASSUME NEW d, Shape(d), NEW s \in Seq(Joints), Len(s) > 0
  PROVE  Opening(d, s) = Then(Opening(d, Front(s)), Part(d, Last(s)))
<1>1. PICK k \in Nat : k + 1 = Len(s)
  <2>1. PICK l \in Nat : l = Len(s)
    BY LenProperties
  <2>2. l - 1 \in Nat
    BY <2>1
  <2>3. QED
    BY <2>1, <2>2
<1>2. PICK r, n : r = Front(s) /\ n = Last(s)
  OBVIOUS
<1>3. n = s[k + 1] /\ r \in Seq(Joints) /\ Len(r) = k /\ \A i \in 1..k : r[i] = s[i]
  <2>1. /\ n = s[Len(s)] /\ r \in Seq(Joints) /\ Len(r) = Len(s) - 1
        /\ \A i \in 1..(Len(s) - 1) : r[i] = s[i]
    BY <1>2, FrontIs
  <2>2. PICK l : l = Len(s)
    OBVIOUS
  <2>3. l = k + 1 /\ l - 1 = k
    BY <1>1, <2>2
  <2>4. QED
    BY <2>1, <2>2, <2>3
<1>4. n \in Joints
  <2>1. k + 1 \in 1..Len(s)
    BY <1>1
  <2>2. QED
    BY <1>3, <2>1, ElementOfSeq
<1>5. PICK t : t = Append(r, n)
  OBVIOUS
<1>6. t \in Seq(Joints) /\ Len(t) = k + 1 /\ t[k + 1] = n /\ \A i \in 1..k : t[i] = r[i]
  BY <1>3, <1>4, <1>5, AppendProperties
<1>7. \A i \in 1..(k + 1) : t[i] = s[i]
  <2>1. \A i \in 1..(k + 1) : i \in 1..k \/ i = k + 1
    OBVIOUS
  <2>2. QED
    BY <1>3, <1>6, <2>1
<1>8. t = s
  BY <1>1, <1>6, <1>7, SeqEqual
<1>9. Opening(d, Append(r, n)) = Then(Opening(d, r), Part(d, n))
  BY <1>3, <1>4, OpeningPush
<1>10. QED
  BY <1>2, <1>5, <1>8, <1>9

LEMMA OpeningAttach ==
  ASSUME NEW d, Whole(d), NEW s \in Seq(Joints), Len(s) > 0, Once(s),
         NEW c \in Orphans(d), NEW u \in Joints, u = Last(s), Holds(d, u), u # c,
         u = Doc \/ d.parent[u] = Null, NEW e, e = InsertEndChild(d, u, c)
  PROVE  Opening(e, s) = Then(Opening(d, s), Item(d)[c]) /\ (u # Doc => Serial(e) = Serial(d))
<1>1. PICK m \in Nat : m = Len(s) /\ m > 0
  BY LenProperties
<1>2. PICK R : R = {u}
  OBVIOUS
<1>3. Apart(d, e, R)
  BY <1>2, AttachApart
<1>4. \A n \in Joints : n # u => Part(e, n) = Part(d, n)
  BY <1>2, <1>3, ApartItems
<1>5. u # Doc => Serial(e) = Serial(d)
  BY <1>2, <1>3, ApartItems
<1>6. Shape(d) /\ Shape(e) /\ c \in Nodes
  BY <1>3 DEF Apart, Orphans, Living
<1>7. PICK r : r = Front(s)
  OBVIOUS
<1>8. PICK k \in Nat : k = m - 1
  <2>1. m - 1 \in Nat
    BY <1>1
  <2>2. QED
    BY <2>1
<1>9. /\ u = s[m] /\ r \in Seq(Joints) /\ Len(r) = k /\ \A i \in 1..k : r[i] = s[i]
  BY <1>1, <1>7, <1>8, FrontIs
<1>10. \A i \in 1..k : r[i] \in Joints /\ r[i] # u
  <2> SUFFICES ASSUME NEW i \in 1..k PROVE r[i] \in Joints /\ r[i] # u
    OBVIOUS
  <2>1. i \in 1..m /\ m \in 1..m /\ i # m
    BY <1>1, <1>8
  <2>2. r[i] = s[i] /\ s[i] # s[m]
    BY <1>1, <1>9, <2>1 DEF Once
  <2>3. r[i] \in Joints
    BY <1>9, ElementOfSeq
  <2>4. QED
    BY <1>9, <2>2, <2>3
<1>11. Opening(e, r) = Opening(d, r)
  <2>1. DOMAIN r = 1..k
    BY <1>9, LenProperties
  <2>2. \A i \in DOMAIN r : Part(e, r[i]) = Part(d, r[i])
    BY <1>4, <1>10, <2>1
  <2>3. QED
    BY <2>2, OpeningSame
<1>12. PICK a \in Seq(Pieces), b \in Seq(Pieces), x \in Seq(Pieces) :
          a = Opening(d, r) /\ b = Part(d, u) /\ x = Item(d)[c]
  BY <1>6, <1>9, OpeningType, PartType, ItemIs
<1>13. Part(e, u) = b \o x
  BY <1>12, AttachPart DEF Then
<1>14. Opening(e, s) = a \o (b \o x)
  <2>1. Opening(e, s) = Then(Opening(e, r), Part(e, u))
    BY <1>6, <1>7, OpeningTop
  <2>2. QED
    BY <1>11, <1>12, <1>13, <2>1 DEF Then
<1>15. Opening(d, s) = a \o b
  <2>1. Opening(d, s) = Then(Opening(d, r), Part(d, u))
    BY <1>6, <1>7, OpeningTop
  <2>2. QED
    BY <1>12, <2>1 DEF Then
<1>16. a \o (b \o x) = (a \o b) \o x
  <2>1. a \in Seq(Pieces) /\ b \in Seq(Pieces) /\ x \in Seq(Pieces)
    OBVIOUS
  <2>2. QED
    BY ONLY <2>1, ConcatAssociative
<1>17. QED
  BY <1>5, <1>12, <1>14, <1>15, <1>16 DEF Then
-----------------------------------------------------------------------------
(* What has been read, against what is in the tree.                         *)
LEMMA ExpandedIs ==
  ASSUME NEW y \in Pieces
  PROVE  /\ Expanded(y) \in Seq(Pieces)
         /\ y.form = "sealed" =>
              \E a, b \in Pieces : /\ a.form = "start" /\ b.form = "end"
                                   /\ Expanded(y) = <<a, b>>
         /\ y.form # "sealed" =>
              \E a \in Pieces : a.form = (IF y.form = "cdata" THEN "text" ELSE y.form)
                                /\ Expanded(y) = <<a>>
<1>1. /\ y.form \in Forms /\ y.name \in Names \cup {Null} /\ y.attrs \in Seq(AttrNames)
      /\ <<>> \in Seq(AttrNames)
  BY EmptySeq DEF Pieces
<1>2. CASE y.form = "sealed"
  <2>1. PICK a, b : a = Piece("start", y.name, y.attrs) /\ b = EndPiece(y.name)
    OBVIOUS
  <2>2. a \in Pieces /\ b \in Pieces /\ a.form = "start" /\ b.form = "end"
    BY <1>1, <2>1 DEF Piece, EndPiece, Pieces, Forms
  <2>3. Expanded(y) = <<a, b>>
    BY <1>2, <2>1 DEF Expanded
  <2>4. QED
    BY <1>2, <2>2, <2>3
<1>3. CASE y.form = "end"
  <2>1. PICK a : a = EndPiece(y.name)
    OBVIOUS
  <2>2. a \in Pieces /\ a.form = "end"
    BY <1>1, <2>1 DEF Piece, EndPiece, Pieces, Forms
  <2>3. Expanded(y) = <<a>>
    BY <1>3, <2>1 DEF Expanded
  <2>4. QED
    BY <1>3, <2>2, <2>3
<1>4. CASE y.form = "cdata"
  <2>1. PICK a : a = Mark("text")
    OBVIOUS
  <2>2. a \in Pieces /\ a.form = "text"
    BY <1>1, <2>1 DEF Piece, Mark, Pieces, Forms, Kinds
  <2>3. Expanded(y) = <<a>>
    BY <1>4, <2>1 DEF Expanded
  <2>4. QED
    BY <1>4, <2>2, <2>3
<1>5. CASE y.form \notin {"sealed", "end", "cdata"}
  <2>1. Expanded(y) = <<y>>
    BY <1>5 DEF Expanded
  <2>2. QED
    BY <1>5, <2>1
<1>6. QED
  BY <1>2, <1>3, <1>4, <1>5

LEMMA ExpandIs ==
  ASSUME NEW r \in Seq(Pieces)
  PROVE  /\ Expand(r) \in Seq(Pieces)
         /\ \A y \in Pieces : Expand(Append(r, y)) = Then(Expand(r), Expanded(y))
<1>1. PICK k \in Nat : k = Len(r) /\ DOMAIN r = 1..k
  BY LenProperties
<1>2. PICK ss : ss = [i \in 1..k |-> Expanded(r[i])]
  OBVIOUS
<1>3. \A i \in 1..k : r[i] \in Pieces
  BY <1>1, ElementOfSeq
<1>4. ss \in [1..k -> Seq(Pieces)]
  BY <1>2, <1>3, ExpandedIs
<1>5. ss \in Seq(Seq(Pieces)) /\ Len(ss) = k
  BY ONLY <1>4, k \in Nat
<1>6. Expand(r) = FlattenSeq(ss)
  BY <1>1, <1>2 DEF Expand
<1>7. ASSUME NEW y \in Pieces PROVE Expand(Append(r, y)) = Then(Expand(r), Expanded(y))
  <2>1. PICK x \in Seq(Pieces) : x = Expanded(y)
    BY ExpandedIs
  <2>2. PICK t : t = Append(r, y)
    OBVIOUS
  <2>3. DOMAIN t = 1..(k + 1) /\ t[k + 1] = y /\ \A i \in 1..k : t[i] = r[i]
    BY <1>1, <2>2, AppendProperties
  <2>4. [i \in DOMAIN t |-> Expanded(t[i])] = Append(ss, x)
    <3>1. PICK f : f = [i \in 1..(k + 1) |-> Expanded(t[i])]
      OBVIOUS
    <3>2. PICK g : g = Append(ss, x)
      OBVIOUS
    <3>3. g \in Seq(Seq(Pieces)) /\ Len(g) = k + 1 /\ g[k + 1] = x /\ \A i \in 1..k : g[i] = ss[i]
      BY <1>5, <3>2, AppendProperties
    <3>4. g = [i \in 1..(k + 1) |-> g[i]]
      BY <3>3
    <3>5. \A i \in 1..(k + 1) : f[i] = g[i]
      <4>1. \A i \in 1..k : f[i] = g[i]
        BY <1>2, <2>3, <3>1, <3>3
      <4>2. f[k + 1] = g[k + 1]
        BY <2>1, <2>3, <3>1, <3>3
      <4>3. \A i \in 1..(k + 1) : i \in 1..k \/ i = k + 1
        OBVIOUS
      <4>4. QED
        BY <4>1, <4>2, <4>3
    <3>6. f = g
      BY <3>1, <3>4, <3>5
    <3>7. QED
      BY <2>3, <3>1, <3>2, <3>6
  <2>5. FlattenSeq(Append(ss, x)) = FlattenSeq(ss) \o x
    BY <1>5, FlattenSeqAppend
  <2>6. QED
    BY <1>6, <2>1, <2>2, <2>4, <2>5 DEF Expand, Then
<1>8. QED
  BY <1>5, <1>6, <1>7, FlattenSeqType

LEMMA FrontAppended ==
  ASSUME NEW V, NEW r \in Seq(V), NEW y \in V
  PROVE  /\ Append(r, y) \in Seq(V) /\ Append(r, y) # <<>>
         /\ Front(Append(r, y)) = r /\ Last(Append(r, y)) = y
<1>1. PICK k \in Nat : k = Len(r)
  BY LenProperties
<1>2. PICK t : t = Append(r, y)
  OBVIOUS
<1>3. t \in Seq(V) /\ Len(t) = k + 1 /\ t[k + 1] = y /\ \A i \in 1..k : t[i] = r[i]
  BY <1>1, <1>2, AppendProperties
<1>4. Last(t) = y
  BY <1>3 DEF Last
<1>5. Front(t) = r
  <2>1. PICK f : f = [i \in 1..k |-> t[i]]
    OBVIOUS
  <2>2. Front(t) = f
    BY <1>3, <2>1 DEF Front
  <2>3. r = [i \in 1..k |-> r[i]]
    BY <1>1
  <2>4. f = r
    BY <1>3, <2>1, <2>3
  <2>5. QED
    BY <2>2, <2>4
<1>6. t # <<>>
  BY <1>3
<1>7. QED
  BY <1>2, <1>3, <1>4, <1>5, <1>6

(* A reader that gives up after the piece r ends with leaves what was        *)
(* complete before.                                                         *)
Given(d, r) ==
  /\ r \in Seq(Pieces) /\ r # <<>>
  /\ \E l : Sound(Expand(Front(r)), Serial(d), l)

(* r has been read into d, and s are the nodes that are open.                *)
LoadRead(d, s, r) ==
  /\ r \in Seq(Pieces) /\ Opening(d, s) = Expand(r)
  /\ Sound(Expand(r), Serial(d), Len(s) - 1)
  /\ Len(s) > 1 => Given(d, r)

LEMMA GivenMore ==
  ASSUME NEW d, NEW s, NEW r, LoadRead(d, s, r), NEW e, Serial(e) = Serial(d), NEW y \in Pieces
  PROVE  Given(e, Append(r, y))
<1>1. r \in Seq(Pieces) /\ Sound(Expand(r), Serial(e), Len(s) - 1)
  BY DEF LoadRead
<1>2. Append(r, y) \in Seq(Pieces) /\ Append(r, y) # <<>> /\ Front(Append(r, y)) = r
  BY <1>1, FrontAppended
<1>3. QED
  BY <1>1, <1>2 DEF Given

LEMMA LoadReadSame ==
  ASSUME NEW d, NEW s, NEW r, LoadRead(d, s, r), NEW e,
         Opening(e, s) = Opening(d, s), Serial(e) = Serial(d)
  PROVE  LoadRead(e, s, r)
BY DEF LoadRead, Given

AllDeclared(z) == \A i \in 1..Len(z) : z[i].form = "declaration"

LEMMA LoadReadMore ==
  ASSUME NEW d, NEW s \in Seq(Joints), NEW r, LoadRead(d, s, r), NEW y \in Pieces,
         y.form = "declaration" => AllDeclared(Expand(r)),
         NEW e, Shape(e), NEW t \in Seq(Joints), Len(t) > 0, t[1] = Doc,
         Len(t) = Len(s) + Rise(y), Opening(e, t) = Then(Opening(d, s), Expanded(y)),
         Len(t) > 1 => Serial(e) = Serial(d)
  PROVE  LoadRead(e, t, Append(r, y))
<1>1. PICK l \in Nat : l = Len(s) - 1
  BY DEF LoadRead, Sound
<1>2. PICK m \in Nat : m = Len(t) - 1
  <2>1. Len(t) \in Nat
    BY LenProperties
  <2>2. Len(t) - 1 \in Nat
    BY <2>1
  <2>3. QED
    BY <2>2
<1>3. m = l + Rise(y) /\ Rise(y) \in Int
  <2>1. Rise(y) \in Int /\ Len(s) \in Nat
    BY LenProperties DEF Rise
  <2>2. QED
    BY <1>1, <1>2, <2>1
<1>4. PICK z, b, q1 : z = Expand(r) /\ b = Serial(d) /\ q1 = Append(r, y)
  OBVIOUS
<1>5. r \in Seq(Pieces) /\ Sound(z, b, l) /\ Opening(d, s) = z /\ z \in Seq(Pieces)
  BY <1>1, <1>4, ExpandIs DEF LoadRead
<1>6. PICK w : w = Expand(q1)
  OBVIOUS
<1>7. w = z \o Expanded(y) /\ Opening(e, t) = w
  <2>1. Expand(Append(r, y)) = Then(Expand(r), Expanded(y))
    BY <1>5, ExpandIs
  <2>2. QED
    BY <1>4, <1>5, <1>6, <2>1 DEF Then
<1>8. Serial(e) = IF m = 0 THEN w ELSE b
  <2>1. CASE m = 0
    <3>1. Len(t) = 1
      BY <1>2, <2>1
    <3>2. Opening(e, t) = Serial(e)
      BY <3>1, OpeningDocument
    <3>3. QED
      BY <1>7, <2>1, <3>2
  <2>2. CASE m # 0
    <3>1. Len(t) > 1
      BY <1>2, <2>2
    <3>2. QED
      BY <1>4, <2>2, <3>1
  <2>3. QED
    BY <2>1, <2>2
<1>9. Sound(w, Serial(e), m)
  <2>1. CASE y.form = "sealed"
    <3>1. PICK a \in Pieces, c \in Pieces : a.form = "start" /\ c.form = "end" /\ Expanded(y) = <<a, c>>
      BY <2>1, ExpandedIs
    <3>2. Rise(y) = 0 /\ Rise(a) = 1 /\ Rise(c) = -1
      BY <2>1, <3>1 DEF Rise
    <3>3. PICK v : v = Append(z, a)
      OBVIOUS
    <3>4. Sound(v, b, l + Rise(a))
      <4>1. b = IF l + Rise(a) = 0 THEN v ELSE b
        BY <3>2
      <4>2. l + Rise(a) >= 0 /\ a.form # "declaration"
        BY <3>1, <3>2
      <4>3. QED
        BY <1>5, <3>3, <4>1, <4>2, SoundMore
    <3>5. PICK k \in Nat : k = l + Rise(a)
      BY <3>2
    <3>6. k + Rise(c) = m
      BY <1>3, <3>2, <3>5
    <3>7. w = Append(v, c)
      BY <1>5, <1>7, <3>1, <3>3
    <3>8. Sound(w, Serial(e), k + Rise(c))
      <4>1. Serial(e) = IF k + Rise(c) = 0 THEN w ELSE b
        BY <1>8, <3>6
      <4>2. k + Rise(c) >= 0 /\ c.form # "declaration" /\ Sound(v, b, k)
        BY <3>1, <3>4, <3>5, <3>6
      <4>3. QED
        BY <3>7, <4>1, <4>2, SoundMore
    <3>9. QED
      BY <3>6, <3>8
  <2>2. CASE y.form # "sealed"
    <3>1. PICK a \in Pieces : /\ a.form = (IF y.form = "cdata" THEN "text" ELSE y.form)
                              /\ Expanded(y) = <<a>>
      BY <2>2, ExpandedIs
    <3>2. Rise(a) = Rise(y)
      BY <3>1 DEF Rise
    <3>3. w = Append(z, a)
      BY <1>5, <1>7, <3>1
    <3>4. a.form = "declaration" => \A i \in 1..Len(z) : z[i].form = "declaration"
      BY <1>4, <3>1 DEF AllDeclared
    <3>5. l + Rise(a) = m
      BY <1>3, <3>2
    <3>6. Sound(w, Serial(e), l + Rise(a))
      <4>1. Serial(e) = IF l + Rise(a) = 0 THEN w ELSE b
        BY <1>8, <3>5
      <4>2. l + Rise(a) >= 0
        BY <3>5
      <4>3. QED
        BY <1>5, <3>3, <3>4, <4>1, <4>2, SoundMore
    <3>7. QED
      BY <3>5, <3>6
  <2>3. QED
    BY <2>1, <2>2
<1>10. ASSUME Len(t) > 1 PROVE Given(e, q1)
  BY <1>4, <1>10, GivenMore
<1>11. q1 \in Seq(Pieces)
  BY <1>4, <1>5, AppendProperties
<1>12. QED
  BY <1>2, <1>4, <1>6, <1>7, <1>9, <1>10, <1>11 DEF LoadRead

LEMMA NothingWritten ==
  ASSUME NEW d, Shape(d), \A m \in Nodes : d.parent[m] # Doc PROVE Serial(d) = <<>>
<1>1. Doc \in Joints /\ NoChild(d, Doc)
  BY DEF Joints, NoChild, ChildrenOf
<1>2. Body(d, Doc) = <<>>
  BY <1>1, ItemAlone
<1>3. QED
  BY <1>2, ItemIs

LEMMA NothingLeft ==
  ASSUME NEW d, Whole(d), Living(d) = {} PROVE Shape(d) /\ Serial(d) = <<>>
<1>1. Shape(d)
  BY DEF Whole, Booked
<1>2. \A m \in Nodes : d.parent[m] # Doc
  BY <1>1, JointsAre DEF Shape, Holding, Living, Joints
<1>3. QED
  BY <1>1, <1>2, NothingWritten

(* What the loaded tree is.                                                 *)
Complete(d, r) ==
  /\ Serial(d) \in Seq(Pieces) /\ Leads(Serial(d))
  /\ Serial(d) = Expand(r) \/ (Last(r).form = "end" /\ Serial(d) = Front(Expand(r)))
Loaded == TreeIsFile /\ DeclarationsLead /\ FailedTreeIsWhole

ReadInv ==
  /\ mode \in {"node", "tag"} => LoadRead(dom, stack, read)
  /\ mode = "tag" => NoChild(dom, cur)
  /\ mode = "fail" => Given(dom, read)
  /\ mode = "loaded" => Loaded

LEMMA LeadsMean ==
  ASSUME Serial(dom) \in Seq(Pieces), Leads(Serial(dom)) PROVE DeclarationsLead
<1>1. PICK s \in Seq(Pieces) : s = Serial(dom)
  OBVIOUS
<1>2. PICK k \in Nat : k = Len(s) /\ DOMAIN s = 1..k
  BY <1>1, LenProperties
<1>3. PICK forms : forms = [i \in DOMAIN s |-> s[i].form]
  OBVIOUS
<1>4. DOMAIN forms = 1..k /\ \A i \in 1..k : forms[i] = s[i].form
  BY <1>2, <1>3
<1>5. \A i, j \in DOMAIN forms :
         i < j /\ forms[j] = "declaration" => forms[i] = "declaration"
  BY <1>1, <1>2, <1>4 DEF Leads
<1>6. QED
  BY <1>1, <1>3, <1>5 DEF DeclarationsLead

LEMMA LeadsHere == Serial(dom) \in Seq(Pieces) /\ Leads(Serial(dom)) => DeclarationsLead
BY LeadsMean

LEMMA GivenSerial ==
  ASSUME NEW d, NEW r, Given(d, r)
  PROVE  /\ Serial(d) = LongestBalanced(Expand(Front(r))) /\ r # <<>>
         /\ Serial(d) \in Seq(Pieces) /\ Leads(Serial(d))
<1>1. PICK l : Sound(Expand(Front(r)), Serial(d), l)
  BY DEF Given
<1>2. QED
  BY <1>1, SoundMeans DEF Given

LEMMA EndsRead ==
  ASSUME NEW d, Whole(d), Orphans(d) = {}, NEW e, EndLoad(d, e), source' = source,
         e = "SUCCESS" => Complete(d, read'), e # "SUCCESS" => Given(d, read')
  PROVE  ReadInv'
<1>1. /\ mode' = "loaded" /\ error' = e
      /\ IF source = "memory" /\ e # "SUCCESS"
         THEN dom' = ClearPools(DeleteChildren(d, Doc)) ELSE dom' = d
  BY DEF EndLoad
<1>2. CASE source = "memory" /\ e # "SUCCESS"
  <2>1. PICK f : f = DeleteChildren(d, Doc)
    OBVIOUS
  <2>2. Doc \in Joints
    BY DEF Joints
  <2>3. Whole(f) /\ Orphans(f) = {} /\ \A m \in Nodes : f.parent[m] # Doc
    BY <2>1, <2>2, DeleteChildrenDeletes
  <2>4. Living(f) = {}
    BY <2>3, NothingLives DEF Whole, Booked
  <2>5. dom' = ClearPools(f)
    BY <1>1, <1>2, <2>1
  <2>6. Whole(dom') /\ Living(dom') = {}
    BY <2>3, <2>4, <2>5, ClearPoolsWhole
  <2>7. Serial(dom') = <<>>
    BY <2>6, NothingLeft
  <2>8. DeclarationsLead'
    <3>1. PICK s : s = <<>>
      OBVIOUS
    <3>2. s \in Seq(Pieces) /\ Leads(s)
      BY <3>1, EmptySeq DEF Leads
    <3>3. Serial(dom') \in Seq(Pieces) /\ Leads(Serial(dom'))
      BY <2>7, <3>1, <3>2
    <3>4. (Serial(dom) \in Seq(Pieces) /\ Leads(Serial(dom)))'
      BY <3>3
    <3>5. QED
      BY <3>4, LeadsHere, PTL
  <2>9. TreeIsFile' /\ FailedTreeIsWhole'
    BY <1>1, <1>2, <2>7 DEF TreeIsFile, FailedTreeIsWhole
  <2>10. QED
    BY <1>1, <2>8, <2>9 DEF ReadInv, Loaded
<1>3. CASE ~(source = "memory" /\ e # "SUCCESS")
  <2>1. dom' = d
    BY <1>1, <1>3
  <2>2. Serial(d) \in Seq(Pieces) /\ Leads(Serial(d))
    BY GivenSerial DEF Complete
  <2>3. (Serial(dom) \in Seq(Pieces) /\ Leads(Serial(dom)))'
    BY <2>1, <2>2
  <2>4. DeclarationsLead'
    BY <2>3, LeadsHere, PTL
  <2>5. TreeIsFile'
    BY <1>1, <2>1 DEF TreeIsFile, Complete
  <2>6. FailedTreeIsWhole'
    <3> SUFFICES ASSUME e # "SUCCESS"
                 PROVE  Serial(d) = LongestBalanced(Expand(Front(read'))) /\ read' # <<>>
      BY <1>1, <1>3, <2>1 DEF FailedTreeIsWhole, Error
    <3>1. QED
      BY GivenSerial
  <2>7. QED
    BY <1>1, <2>4, <2>5, <2>6 DEF ReadInv, Loaded
<1>4. QED
  BY <1>2, <1>3

LEMMA ReturnsRead ==
  ASSUME NEW d, Whole(d), NEW s \in Seq(Joints), Opened(d, s, Null), NEW e,
         ReturnNull(d, e, s), source' = source, Given(d, read'),
         e = "SUCCESS" /\ Len(s) = 1 => Complete(d, read')
  PROVE  ReadInv'
<1>1. CASE Len(s) = 1
  <2>1. Orphans(d) = {} /\ EndLoad(d, e)
    BY <1>1, OpenedDocument DEF ReturnNull
  <2>2. QED
    BY <1>1, <2>1, EndsRead
<1>2. CASE Len(s) # 1
  <2>1. dom' = d /\ mode' = "fail"
    BY <1>2 DEF ReturnNull
  <2>2. QED
    BY <2>1 DEF ReadInv
<1>3. QED
  BY <1>1, <1>2

LEMMA FailsRead ==
  ASSUME NEW d, NEW e, NEW n, Fail(d, e, n), Given(d, read') PROVE ReadInv'
<1>1. dom' = d /\ mode' = "fail"
  BY DEF Fail
<1>2. QED
  BY <1>1 DEF ReadInv

LEMMA ContinuesRead ==
  ASSUME NEW d, NEW s, stack' = s, Continue(d), LoadRead(d, s, read') PROVE ReadInv'
<1>1. dom' = d /\ mode' = "node"
  BY DEF Continue
<1>2. QED
  BY <1>1 DEF ReadInv
-----------------------------------------------------------------------------
(* What the steps of a parse do to it.                                      *)
LEMMA StackApart ==
  ASSUME NEW d, NEW s \in Seq(Joints), NEW c, Opened(d, s, c), NEW e, NEW R, Apart(d, e, R),
         \A m \in R : m \in Nodes /\ (m = c \/ m \notin Orphans(d))
  PROVE  Opening(e, s) = Opening(d, s) /\ Serial(e) = Serial(d)
<1>1. Doc \notin R /\ Doc \in Joints
  BY JointsAre DEF Joints
<1>2. PICK k \in Nat : k = Len(s) /\ DOMAIN s = 1..k
  BY LenProperties
<1>3. ASSUME NEW i \in 1..k PROVE s[i] \in Joints \ R
  <2>1. CASE i = 1
    BY <1>1, <2>1 DEF Opened
  <2>2. CASE i # 1
    <3>1. i \in 2..k
      BY <2>2
    <3>2. s[i] \in Nodes /\ s[i] \in Orphans(d)
      BY <1>2, <3>1 DEF Opened
    <3>3. s[i] # c
      BY <1>2, <1>3 DEF Opened
    <3>4. QED
      BY <3>2, <3>3 DEF Joints
  <2>3. QED
    BY <2>1, <2>2
<1>4. \A i \in DOMAIN s : Part(e, s[i]) = Part(d, s[i])
  BY <1>2, <1>3, ApartItems
<1>5. QED
  BY <1>1, <1>4, ApartItems, OpeningSame

(* A node without children.                                                 *)
LEMMA LeafItem ==
  ASSUME NEW d, Shape(d), NEW n \in Nodes, NoChild(d, n)
  PROVE  Part(d, n) = StartOf(d, n) /\ Item(d)[n] = Then(StartOf(d, n), EndOf(d, n))
<1>1. n \in Joints /\ n # Doc
  BY JointsAre DEF Joints
<1>2. PICK h \in Seq(Pieces) : h = HeadOf(d, n)
  BY <1>1, HeadsAre
<1>3. h \o <<>> = h
  BY ConcatEmptySeq
<1>4. HeadOf(d, n) = StartOf(d, n) /\ Body(d, n) = <<>>
  BY <1>1, ItemAlone DEF HeadOf
<1>5. Part(d, n) = StartOf(d, n)
  BY <1>2, <1>3, <1>4 DEF Part
<1>6. QED
  BY <1>5, ItemParts

LEMMA MarkItem ==
  ASSUME NEW d, Shape(d), NEW n \in Nodes, NoChild(d, n), d.kind[n] # "element"
  PROVE  Item(d)[n] = <<Mark(d.kind[n])>>
<1>1. PICK y : y = Mark(d.kind[n])
  OBVIOUS
<1>2. StartOf(d, n) = <<y>> /\ EndOf(d, n) = <<>>
  BY <1>1 DEF StartOf, EndOf
<1>3. <<y>> \o <<>> = <<y>>
  <2>1. <<y>> \in Seq({y})
    OBVIOUS
  <2>2. QED
    BY <2>1, ConcatEmptySeq
<1>4. QED
  BY <1>1, <1>2, <1>3, LeafItem DEF Then

LEMMA ElementItem ==
  ASSUME NEW d, Shape(d), NEW n \in Nodes, NoChild(d, n), d.kind[n] = "element"
  PROVE  /\ Part(d, n) = <<Piece("start", d.name[n], d.attrs[n])>>
         /\ Item(d)[n] = <<Piece("start", d.name[n], d.attrs[n]), EndPiece(d.name[n])>>
<1>1. PICK x, y : x = Piece("start", d.name[n], d.attrs[n]) /\ y = EndPiece(d.name[n])
  OBVIOUS
<1>2. StartOf(d, n) = <<x>> /\ EndOf(d, n) = <<y>>
  BY <1>1 DEF StartOf, EndOf
<1>3. <<x>> \o <<y>> = <<x, y>>
  <2>1. PICK V : V = {x, y}
    OBVIOUS
  <2>2. <<x>> \in Seq(V) /\ y \in V
    BY <2>1
  <2>3. <<x>> \o <<y>> = Append(<<x>>, y)
    <3>1. PICK a \in Seq(V) : a = <<x>>
      BY <2>2
    <3>2. a \o <<y>> = Append(a, y)
      BY <2>2
    <3>3. QED
      BY <3>1, <3>2
  <2>4. Append(<<x>>, y) = <<x, y>>
    <3>1. PICK a, b : a = Append(<<x>>, y) /\ b = <<x, y>>
      OBVIOUS
    <3>2. /\ a \in Seq(V) /\ Len(a) = 2 /\ a[1] = x /\ a[2] = y
          /\ b \in Seq(V) /\ Len(b) = 2 /\ b[1] = x /\ b[2] = y
      BY <2>1, <2>2, <3>1
    <3>3. \A i \in 1..2 : i = 1 \/ i = 2
      OBVIOUS
    <3>4. a = b
      BY <3>2, <3>3, SeqEqual
    <3>5. QED
      BY <3>1, <3>4
  <2>5. QED
    BY <2>3, <2>4
<1>4. QED
  BY <1>1, <1>2, <1>3, LeafItem DEF Then

LEMMA BodyEnds ==
  ASSUME NEW d, Shape(d), NEW n \in Joints, NEW c \in Nodes, d.last[n] = c
  PROVE  /\ \E z \in Seq(Pieces) : Body(d, n) = Then(z, Item(d)[c])
         /\ d.parent[c] = n
<1>1. PICK k \in Nat : \E s \in [1..k -> Nodes] : Chain(d, n, s, k)
  BY DEF Shape, Chained
<1>2. PICK s \in [1..k -> Nodes] : Chain(d, n, s, k)
  BY <1>1
<1>3. k # 0 /\ s[k] = c /\ c # Null
  BY <1>2, JointsAre DEF Chain, Joints
<1>4. PICK h \in Nat : k = h + 1
  <2>1. k - 1 \in Nat
    BY <1>3
  <2>2. QED
    BY <2>1
<1>5. Children(d, n) = s
  BY <1>2, ChildrenAre
<1>6. PICK item \in [Nodes -> Seq(Pieces)] : item = Item(d)
  BY ItemIs
<1>7. PICK ss : ss = [i \in 1..h |-> item[s[i]]]
  OBVIOUS
<1>8. ss \in [1..h -> Seq(Pieces)]
  BY <1>4, <1>6, <1>7
<1>9. ss \in Seq(Seq(Pieces)) /\ Len(ss) = h
  BY ONLY <1>8, h \in Nat
<1>10. PICK x \in Seq(Pieces) : x = item[c]
  BY <1>6
<1>11. [i \in DOMAIN s |-> item[s[i]]] = Append(ss, x)
  <2>1. PICK f : f = [i \in 1..(h + 1) |-> item[s[i]]]
    OBVIOUS
  <2>2. PICK g : g = Append(ss, x)
    OBVIOUS
  <2>3. g \in Seq(Seq(Pieces)) /\ Len(g) = h + 1 /\ g[h + 1] = x /\ \A i \in 1..h : g[i] = ss[i]
    <3>1. PICK V : V = Seq(Pieces)
      OBVIOUS
    <3>2. ss \in Seq(V) /\ x \in V
      BY <1>9, <3>1
    <3>3. QED
      BY <1>9, <2>2, <3>1, <3>2, AppendProperties
  <2>4. g = [i \in 1..(h + 1) |-> g[i]]
    BY <2>3
  <2>5. \A i \in 1..(h + 1) : f[i] = g[i]
    <3>1. \A i \in 1..h : f[i] = g[i]
      BY <1>7, <2>1, <2>3
    <3>2. f[h + 1] = g[h + 1]
      BY <1>3, <1>4, <1>10, <2>1, <2>3
    <3>3. \A i \in 1..(h + 1) : i \in 1..h \/ i = h + 1
      OBVIOUS
    <3>4. QED
      BY <3>1, <3>2, <3>3
  <2>6. f = g
    BY <2>1, <2>4, <2>5
  <2>7. QED
    BY <1>4, <2>1, <2>2, <2>6
<1>12. FlattenSeq(Append(ss, x)) = FlattenSeq(ss) \o x
  BY <1>9, FlattenSeqAppend
<1>13. PICK z \in Seq(Pieces) : z = FlattenSeq(ss)
  BY <1>9, FlattenSeqType
<1>14. Body(d, n) = z \o x
  BY <1>5, <1>6, <1>11, <1>12, <1>13 DEF Body, Inner
<1>15. d.parent[c] = n
  <2>1. k \in 1..k
    BY <1>3
  <2>2. QED
    BY <1>2, <1>3, <2>1 DEF Chain
<1>16. QED
  BY <1>6, <1>10, <1>14, <1>15 DEF Then

(* A declaration that is well located stands behind declarations only.      *)
LEMMA DeclaredSoFar ==
  ASSUME Shape(dom), stack \in Seq(Joints), Opened(dom, stack, Null),
         LoadRead(dom, stack, read), WellLocated(dom)
  PROVE  AllDeclared(Expand(read))
<1>1. Top = Doc /\ Doc \in Joints
  BY DEF WellLocated, Joints
<1>2. Len(stack) = 1 /\ stack[1] = Doc
  <2>1. stack[1] = Doc
    BY DEF Opened
  <2>2. QED
    BY <1>1, <2>1, TopIs DEF Top
<1>3. PICK z : z = Serial(dom)
  OBVIOUS
<1>4. Expand(read) = z
  BY <1>2, <1>3, OpeningDocument DEF LoadRead
<1>5. z \in Seq(Pieces) /\ Leads(z)
  BY <1>4 DEF LoadRead, Sound
<1>6. CASE dom.first[Doc] = Null
  <2>1. PICK k \in Nat : \E s \in [1..k -> Nodes] : Chain(dom, Doc, s, k)
    BY <1>1 DEF Shape, Chained
  <2>2. PICK s \in [1..k -> Nodes] : Chain(dom, Doc, s, k)
    BY <2>1
  <2>3. k = 0
    <3> SUFFICES ASSUME k # 0 PROVE FALSE
      OBVIOUS
    <3>1. dom.first[Doc] = s[1] /\ s[1] \in Nodes
      BY <2>2 DEF Chain
    <3>2. QED
      BY <1>6, <3>1, JointsAre DEF Joints
  <2>4. \A m \in Nodes : dom.parent[m] # Doc
    BY <2>2, <2>3 DEF Chain
  <2>5. z = <<>>
    BY <1>3, <2>4, NothingWritten
  <2>6. QED
    BY <1>4, <2>5 DEF AllDeclared
<1>7. CASE dom.first[Doc] # Null
  <2>1. PICK k \in Nat : \E s \in [1..k -> Nodes] : Chain(dom, Doc, s, k)
    BY <1>1 DEF Shape, Chained
  <2>2. PICK s \in [1..k -> Nodes] : Chain(dom, Doc, s, k)
    BY <2>1
  <2>3. k # 0
    BY <1>7, <2>2 DEF Chain
  <2>4. PICK c \in Nodes : c = dom.last[Doc]
    BY <2>2, <2>3 DEF Chain
  <2>5. dom.kind[c] = "declaration"
    BY <1>7, <2>4 DEF WellLocated
  <2>6. NoChild(dom, c)
    BY <2>5, JointsAre DEF NoChild, ChildrenOf, Shape, Holding, Holds, Joints
  <2>7. Item(dom)[c] = <<Mark("declaration")>>
    BY <2>5, <2>6, MarkItem
  <2>8. PICK b \in Seq(Pieces) : Body(dom, Doc) = Then(b, Item(dom)[c])
    BY <1>1, <2>4, BodyEnds
  <2>9. PICK y : y = Mark("declaration")
    OBVIOUS
  <2>10. z = b \o <<y>>
    BY <1>3, <2>7, <2>8, <2>9, ItemIs DEF Then
  <2>11. PICK h \in Nat : h = Len(b)
    BY LenProperties
  <2>12. Len(z) = h + 1 /\ z[h + 1] = y
    BY <2>10, <2>11
  <2>13. y.form = "declaration"
    BY <2>9 DEF Mark, Piece
  <2>14. ASSUME NEW i \in 1..(h + 1) PROVE z[i].form = "declaration"
    <3>1. CASE i = h + 1
      BY <2>12, <2>13, <3>1
    <3>2. CASE i # h + 1
      <4>1. i < h + 1 /\ h + 1 \in 1..(h + 1)
        BY <3>2
      <4>2. QED
        BY <1>5, <2>12, <2>13, <4>1 DEF Leads
    <3>3. QED
      BY <3>1, <3>2
  <2>15. QED
    BY <1>4, <2>12, <2>14 DEF AllDeclared
<1>8. QED
  BY <1>6, <1>7

LEMMA MarksAre ==
  ASSUME NEW form \in Forms PROVE Mark(form) \in Pieces /\ Mark(form).form = form
BY EmptySeq DEF Mark, Piece, Pieces

LEMMA TagsAre ==
  ASSUME NEW d, Shape(d), NEW n \in Nodes, NEW form \in Forms
  PROVE  Piece(form, d.name[n], d.attrs[n]) \in Pieces
<1>1. d.name[n] \in Names \cup {Null} /\ d.attrs[n] \in Seq(AttrNames)
  BY TreeMeans DEF Shape, Typed
<1>2. QED
  BY <1>1 DEF Piece, Pieces

LEMMA NothingLoaded ==
  ASSUME Serial(dom') = <<>>, error' # "SUCCESS", read' = <<>> PROVE Loaded'
<1>1. DeclarationsLead'
  <2>1. PICK s : s = <<>>
    OBVIOUS
  <2>2. s \in Seq(Pieces) /\ Leads(s)
    BY <2>1, EmptySeq DEF Leads
  <2>3. Serial(dom') \in Seq(Pieces) /\ Leads(Serial(dom'))
    BY <2>1, <2>2
  <2>4. (Serial(dom) \in Seq(Pieces) /\ Leads(Serial(dom)))'
    BY <2>3
  <2>5. QED
    BY <2>4, LeadsHere, PTL
<1>2. TreeIsFile' /\ FailedTreeIsWhole'
  BY DEF TreeIsFile, FailedTreeIsWhole
<1>3. QED
  BY <1>1, <1>2 DEF Loaded

LEMMA CreateRead ==
  ASSUME DocInv, mode = "node", LoadRead(dom, stack, read), Free(dom) # {}, NEW kind \in Kinds,
         NEW name \in Names \cup {Null}, NEW d, d = CreateUnlinkedNode(dom, kind, name),
         NEW n, n = Fresh(dom)
  PROVE  /\ LoadRead(d, stack, read) /\ Shape(d) /\ NoChild(d, n)
         /\ n \in Nodes /\ d.kind[n] = kind /\ d.name[n] = name /\ d.attrs[n] = <<>>
<1>1. PICK R : R = {n}
  OBVIOUS
<1>2. Whole(dom) /\ stack \in Seq(Joints) /\ Opened(dom, stack, Null)
  BY ReadingNode
<1>3. /\ Apart(dom, d, R) /\ Shape(d) /\ NoChild(d, n)
      /\ n \in Nodes /\ d.kind[n] = kind /\ d.name[n] = name /\ d.attrs[n] = <<>>
  <2>1. /\ kind \in Kinds /\ name \in Names \cup {Null} /\ Free(dom) # {} /\ Whole(dom)
        /\ d = CreateUnlinkedNode(dom, kind, name) /\ n = Fresh(dom) /\ R = {n}
    BY <1>1, <1>2
  <2>2. QED
    BY ONLY <2>1, CreateApart
<1>4. n \notin Orphans(dom)
  BY FreshIsFree DEF Orphans, Living
<1>5. \A m \in R : m \in Nodes /\ (m = Null \/ m \notin Orphans(dom))
  BY <1>1, <1>3, <1>4
<1>6. Opening(d, stack) = Opening(dom, stack) /\ Serial(d) = Serial(dom)
  BY <1>2, <1>3, <1>5, StackApart
<1>7. LoadRead(d, stack, read)
  BY <1>6, LoadReadSame
<1>8. QED
  BY <1>3, <1>7

LEMMA CutRead ==
  ASSUME NEW d, Shape(d), NEW s \in Seq(Joints), NEW n \in Orphans(d), Opened(d, s, n),
         NEW e, Shape(e), Cut(d, e, n)
  PROVE  Opening(e, s) = Opening(d, s) /\ Serial(e) = Serial(d)
<1>1. PICK R : R = Subtree(d, n)
  OBVIOUS
<1>2. Apart(d, e, R) /\ \A m \in R : m = n \/ (m \in Nodes /\ d.parent[m] # Null)
  BY <1>1, CutApart
<1>3. \A m \in R : m \in Nodes /\ (m = n \/ m \notin Orphans(d))
  BY <1>2 DEF Orphans, Living
<1>4. QED
  BY <1>2, <1>3, StackApart

LEMMA FailMore ==
  ASSUME NEW d, NEW s, NEW r, LoadRead(d, s, r), NEW y \in Pieces, read' = Append(r, y),
         NEW e, NEW n, Fail(d, e, n)
  PROVE  ReadInv'
<1>1. Given(d, Append(r, y))
  BY GivenMore
<1>2. Given(d, read')
  BY <1>1
<1>3. QED
  BY <1>2, FailsRead

LEMMA MismatchRead ==
  ASSUME NEW d, Whole(d), NEW s \in Seq(Joints), NEW n \in Orphans(d), Opened(d, s, n),
         Given(d, read'), source' = source, Mismatch(d, n, s)
  PROVE  ReadInv'
<1>1. PICK e : e = DeleteNode(d, n)
  OBVIOUS
<1>2. Whole(e) /\ Remains(d, e) /\ Orphans(e) = Orphans(d) \ {n} /\ Cut(d, e, n)
  BY <1>1, DeleteOrphan
<1>3. Opened(e, s, Null)
  BY <1>2, OpenedWithout
<1>4. Serial(e) = Serial(d)
  BY <1>2, CutRead DEF Whole, Booked
<1>5. Given(e, read')
  BY <1>4 DEF Given
<1>6. ReturnNull(e, "MISMATCHED_ELEMENT", s)
  BY <1>1 DEF Mismatch
<1>7. QED
  BY <1>2, <1>3, <1>5, <1>6, ReturnsRead

(* A node that is all read is put under the one whose children are read.     *)
LEMMA AttachRead ==
  ASSUME NEW d, Whole(d), NEW s \in Seq(Joints), NEW c \in Orphans(d), Opened(d, s, c),
         NEW r, LoadRead(d, s, r), NEW y \in Pieces, Rise(y) = 0,
         y.form = "declaration" => AllDeclared(Expand(r)),
         Item(d)[c] = Expanded(y), NEW e, e = InsertEndChild(d, Last(s), c)
  PROVE  LoadRead(e, s, Append(r, y))
<1>1. PICK u : u = Last(s)
  OBVIOUS
<1>2. /\ u \in Joints /\ Holds(d, u) /\ u # c /\ (u = Doc \/ d.parent[u] = Null)
      /\ u = Doc <=> Len(s) = 1
  BY <1>1, TopIs DEF Orphans
<1>3. Shape(e)
  <2>1. PICK R : R = {u}
    OBVIOUS
  <2>2. Apart(d, e, R)
    BY <1>1, <1>2, <2>1, AttachApart
  <2>3. QED
    BY <2>2 DEF Apart
<1>4. PICK m \in Nat : m = Len(s)
  BY LenProperties
<1>5. m > 0 /\ Once(s) /\ s[1] = Doc
  <2>1. \A i, j \in 1..m : s[i] = s[j] => i = j
    BY <1>4 DEF Opened
  <2>2. m > 0 /\ s[1] = Doc
    BY <1>4 DEF Opened
  <2>3. QED
    BY <1>4, <2>1, <2>2 DEF Once
<1>6. Opening(e, s) = Then(Opening(d, s), Item(d)[c]) /\ (u # Doc => Serial(e) = Serial(d))
  BY <1>1, <1>2, <1>4, <1>5, OpeningAttach
<1>7. Len(s) > 1 => Serial(e) = Serial(d)
  <2>1. m > 1 => m # 1
    OBVIOUS
  <2>2. m > 1 => u # Doc
    BY <1>2, <1>4, <2>1
  <2>3. QED
    BY <1>4, <1>6, <2>2
<1>8. Len(s) = Len(s) + Rise(y) /\ Len(s) > 0
  BY <1>4, <1>5
<1>9. Opening(e, s) = Then(Opening(d, s), Expanded(y))
  BY <1>6
<1>10. QED
  BY <1>3, <1>5, <1>7, <1>8, <1>9, LoadReadMore
-----------------------------------------------------------------------------
LEMMA BeginLoadRead ==
  ASSUME DocInv, NEW from \in {"file", "memory"}, BeginLoad(from) PROVE ReadInv'
<1>1. mode \in {"idle", "loaded"}
  BY DEF BeginLoad
<1>2. PICK d : d = Clear(dom)
  OBVIOUS
<1>3. Whole(d) /\ Living(d) = {}
  BY <1>1, <1>2, Cleared
<1>4. Shape(d) /\ Serial(d) = <<>>
  BY <1>3, NothingLeft
<1>5. PICK s, r : s = <<Doc>> /\ r = <<>>
  OBVIOUS
<1>6. s \in Seq(Joints) /\ Len(s) = 1 /\ s[1] = Doc
  BY <1>5 DEF Joints
<1>7. Opening(d, s) = r
  BY <1>4, <1>5, <1>6, OpeningDocument
<1>8. r \in Seq(Pieces) /\ Expand(r) = r
  <2>1. [i \in DOMAIN r |-> Expanded(r[i])] = r
    BY <1>5
  <2>2. QED
    BY <1>5, <2>1, FlattenSeqEmpty, EmptySeq DEF Expand
<1>9. Sound(r, r, Len(s) - 1)
  BY <1>5, <1>6, SoundEmpty
<1>10. LoadRead(d, s, r)
  BY <1>4, <1>5, <1>6, <1>7, <1>8, <1>9 DEF LoadRead
<1>11. dom' = d /\ stack' = s /\ read' = r /\ mode' = "node"
  BY <1>2, <1>5 DEF BeginLoad
<1>12. QED
  BY <1>10, <1>11 DEF ReadInv

LEMMA RefuseLoadRead ==
  ASSUME DocInv, NEW from \in {"file", "memory"}, RefuseLoad(from) PROVE ReadInv'
<1>1. mode \in {"idle", "loaded"}
  BY DEF RefuseLoad
<1>2. PICK d : d = Clear(dom)
  OBVIOUS
<1>3. Whole(d) /\ Living(d) = {}
  BY <1>1, <1>2, Cleared
<1>4. dom' = ClearPools(d) \/ dom' = d
  BY <1>2 DEF RefuseLoad
<1>5. Whole(dom') /\ Living(dom') = {}
  BY <1>3, <1>4, ClearPoolsWhole
<1>6. Serial(dom') = <<>>
  BY <1>5, NothingLeft
<1>7. error' # "SUCCESS" /\ read' = <<>> /\ mode' = "loaded"
  BY DEF RefuseLoad
<1>8. Loaded'
  BY <1>6, <1>7, NothingLoaded
<1>9. QED
  BY <1>7, <1>8 DEF ReadInv

LEMMA ReadLeafRead ==
  ASSUME DocInv, ReadInv, NEW form \in LeafKinds, ReadLeaf(form) PROVE ReadInv'
<1>1. mode = "node" /\ Free(dom) # {} /\ read' = Append(read, Mark(form)) /\ source' = source
  BY DEF ReadLeaf, InNode
<1>2. PICK d : d = Create(form, Null)
  OBVIOUS
<1>3. PICK n : n = Fresh(dom)
  OBVIOUS
<1>4. form \in LeafForms
  BY ParserAssumption
<1>5. KindOf(form) \in Kinds /\ KindOf(form) # "element" /\ Null \in Names \cup {Null}
  BY <1>4 DEF KindOf, LeafForms, Kinds
<1>6. Created(dom, d, n) /\ Opened(d, stack, n)
  BY <1>1, <1>2, <1>3, <1>5, NodeBegun DEF Create
<1>7. Whole(d) /\ n \in Orphans(d)
  BY <1>6 DEF Created
<1>8. /\ Whole(dom) /\ stack \in Seq(Joints) /\ Opened(dom, stack, Null)
  BY <1>1, ReadingNode
<1>9. LoadRead(dom, stack, read)
  BY <1>1 DEF ReadInv
<1>10. /\ LoadRead(d, stack, read) /\ Shape(d) /\ NoChild(d, n)
       /\ n \in Nodes /\ d.kind[n] = KindOf(form)
  <2>1. d = CreateUnlinkedNode(dom, KindOf(form), Null)
    BY <1>2 DEF Create
  <2>2. QED
    BY <1>1, <1>3, <1>5, <1>9, <2>1, CreateRead
<1>11. PICK y : y = Mark(form)
  OBVIOUS
<1>12. y \in Pieces /\ y.form = form
  <2>1. form \in Forms
    BY <1>4 DEF LeafForms, Forms
  <2>2. QED
    BY <1>11, <2>1, MarksAre
<1>13. CASE form = "declaration" /\ ~WellLocated(dom)
  <2>1. PICK e : e = DeleteNode(d, n)
    OBVIOUS
  <2>2. ReturnNull(e, "PARSING_DECLARATION", stack)
    BY <1>2, <1>3, <1>13, <2>1 DEF ReadLeaf
  <2>3. Whole(e) /\ Remains(d, e) /\ Orphans(e) = Orphans(d) \ {n} /\ Cut(d, e, n)
    BY <1>7, <2>1, DeleteOrphan
  <2>4. Opened(e, stack, Null)
    BY <1>6, <1>8, <2>3, OpenedWithout
  <2>5. Serial(e) = Serial(d)
    BY <1>6, <1>7, <1>8, <1>10, <2>3, CutRead DEF Whole, Booked
  <2>6. Given(e, Append(read, y))
    BY <1>10, <1>12, <2>5, GivenMore
  <2>7. Given(e, read')
    BY <1>1, <1>11, <2>6
  <2>8. QED
    BY <1>1, <1>8, <2>2, <2>3, <2>4, <2>7, ReturnsRead
<1>14. CASE ~(form = "declaration" /\ ~WellLocated(dom))
  <2>1. PICK e : e = InsertEndChild(d, Last(stack), n)
    OBVIOUS
  <2>2. Continue(e) /\ stack' = stack
    BY <1>2, <1>3, <1>14, <2>1 DEF ReadLeaf, Top
  <2>3. Rise(y) = 0
    BY <1>4, <1>12 DEF Rise, LeafForms, Kinds
  <2>4. y.form = "declaration" => AllDeclared(Expand(read))
    <3> SUFFICES ASSUME y.form = "declaration" PROVE AllDeclared(Expand(read))
      OBVIOUS
    <3>1. WellLocated(dom)
      BY <1>12, <1>14
    <3>2. Shape(dom)
      BY <1>8 DEF Whole, Booked
    <3>3. QED
      BY <1>8, <1>9, <3>1, <3>2, DeclaredSoFar
  <2>5. Item(d)[n] = <<Mark(KindOf(form))>>
    BY <1>5, <1>10, MarkItem
  <2>6. Expanded(y) = <<Mark(KindOf(form))>>
    <3>1. form \notin {"sealed", "end"}
      BY <1>4 DEF LeafForms, Kinds
    <3>2. QED
      BY <1>11, <1>12, <3>1 DEF Expanded, KindOf
  <2>7. LoadRead(e, stack, Append(read, y))
    BY <1>6, <1>7, <1>8, <1>10, <1>12, <2>1, <2>3, <2>4, <2>5, <2>6, AttachRead
  <2>8. LoadRead(e, stack, read')
    BY <1>1, <1>11, <2>7
  <2>9. QED
    BY <2>2, <2>8, ContinuesRead
<1>15. QED
  BY <1>13, <1>14

LEMMA ReadEndlessLeafRead ==
  ASSUME DocInv, ReadInv, NEW form \in LeafKinds, ReadEndlessLeaf(form) PROVE ReadInv'
<1>1. mode = "node" /\ Free(dom) # {} /\ read' = Append(read, Mark("junk"))
  BY DEF ReadEndlessLeaf, InNode
<1>2. PICK d : d = Create(form, Null)
  OBVIOUS
<1>3. PICK n : n = Fresh(dom)
  OBVIOUS
<1>4. KindOf(form) \in Kinds /\ Null \in Names \cup {Null}
  BY ParserAssumption DEF KindOf, LeafForms, Kinds
<1>5. LoadRead(dom, stack, read)
  BY <1>1 DEF ReadInv
<1>6. LoadRead(d, stack, read)
  BY <1>1, <1>2, <1>3, <1>4, <1>5, CreateRead DEF Create
<1>7. PICK e : Fail(d, e, n)
  BY <1>2, <1>3 DEF ReadEndlessLeaf
<1>8. PICK y \in Pieces : y = Mark("junk")
  <2>1. "junk" \in Forms
    BY DEF Forms
  <2>2. QED
    BY <2>1, MarksAre
<1>9. QED
  BY <1>1, <1>6, <1>7, <1>8, FailMore

LEMMA ReadTagNameRead ==
  ASSUME DocInv, ReadInv, NEW name \in Names, NEW type \in {"open", "closing"},
         ReadTagName(name, type)
  PROVE  ReadInv'
<1>1. mode = "node" /\ Free(dom) # {}
  BY DEF ReadTagName, InNode
<1>2. PICK d : d = Create("element", name)
  OBVIOUS
<1>3. PICK n : n = Fresh(dom)
  OBVIOUS
<1>4. KindOf("element") = "element" /\ "element" \in Kinds /\ name \in Names \cup {Null}
  BY DEF KindOf, Kinds
<1>5. LoadRead(dom, stack, read)
  BY <1>1 DEF ReadInv
<1>6. LoadRead(d, stack, read) /\ NoChild(d, n)
  BY <1>1, <1>2, <1>3, <1>4, <1>5, CreateRead DEF Create
<1>7. dom' = d /\ cur' = n /\ mode' = "tag" /\ stack' = stack /\ read' = read
  BY <1>2, <1>3 DEF ReadTagName
<1>8. QED
  BY <1>6, <1>7 DEF ReadInv

LEMMA ReadBadNameRead ==
  ASSUME DocInv, ReadInv, ReadBadName PROVE ReadInv'
<1>1. mode = "node" /\ Free(dom) # {} /\ read' = Append(read, Mark("junk"))
  BY DEF ReadBadName, InNode
<1>2. PICK d : d = Create("element", Null)
  OBVIOUS
<1>3. PICK n : n = Fresh(dom)
  OBVIOUS
<1>4. KindOf("element") = "element" /\ "element" \in Kinds /\ Null \in Names \cup {Null}
  BY DEF KindOf, Kinds
<1>5. LoadRead(dom, stack, read)
  BY <1>1 DEF ReadInv
<1>6. LoadRead(d, stack, read)
  BY <1>1, <1>2, <1>3, <1>4, <1>5, CreateRead DEF Create
<1>7. Fail(d, error, n)
  BY <1>2, <1>3 DEF ReadBadName
<1>8. PICK y \in Pieces : y = Mark("junk")
  <2>1. "junk" \in Forms
    BY DEF Forms
  <2>2. QED
    BY <2>1, MarksAre
<1>9. QED
  BY <1>1, <1>6, <1>7, <1>8, FailMore

LEMMA ReadEndOfFileRead ==
  ASSUME DocInv, ReadInv, ReadEndOfFile PROVE ReadInv'
<1>1. mode = "node" /\ ReturnNull(dom, error, stack) /\ read' = read /\ source' = source
  BY DEF ReadEndOfFile, InNode
<1>2. LoadRead(dom, stack, read)
  BY <1>1 DEF ReadInv
<1>3. Whole(dom) /\ stack \in Seq(Joints) /\ Opened(dom, stack, Null) /\ error = "SUCCESS"
  BY <1>1, ReadingNode
<1>4. CASE Len(stack) = 1
  <2>1. stack[1] = Doc /\ Shape(dom) /\ Orphans(dom) = {}
    <3>1. Orphans(dom) = {}
      BY <1>3, <1>4, OpenedDocument
    <3>2. QED
      BY <1>3, <3>1 DEF Opened, Whole, Booked
  <2>2. Serial(dom) = Expand(read)
    BY <1>2, <1>3, <1>4, <2>1, OpeningDocument DEF LoadRead
  <2>3. Serial(dom) \in Seq(Pieces) /\ Leads(Serial(dom))
    BY <1>2, SoundMeans DEF LoadRead
  <2>4. Complete(dom, read')
    BY <1>1, <2>2, <2>3 DEF Complete
  <2>5. EndLoad(dom, error)
    BY <1>1, <1>4 DEF ReturnNull
  <2>6. QED
    BY <1>1, <1>3, <2>1, <2>4, <2>5, EndsRead
<1>5. CASE Len(stack) # 1
  <2>1. Len(stack) > 1
    <3>1. PICK l : l = Len(stack)
      OBVIOUS
    <3>2. l \in Nat /\ l # 1 /\ l > 0
      BY <1>3, <1>5, <3>1, LenProperties DEF Opened
    <3>3. l > 1
      BY ONLY <3>2
    <3>4. QED
      BY <3>1, <3>3
  <2>2. Given(dom, read')
    BY <1>1, <1>2, <2>1 DEF LoadRead
  <2>3. QED
    BY <1>1, <1>3, <1>5, <2>2, ReturnsRead
<1>6. QED
  BY <1>4, <1>5

LEMMA AddsApart ==
  ASSUME NEW d, Whole(d), NEW n \in Orphans(d), NEW x \in AttrNames,
         NEW e, e = [d EXCEPT !.attrs[n] = Append(@, x), !.allocs["attribute"] = @ + 1],
         NEW R, R = {n}
  PROVE  Apart(d, e, R) /\ SameLinks(d, e)
<1>1. n \in Nodes /\ n \in Living(d) /\ d \in Trees /\ Typed(d) /\ Shape(d)
  BY TreeMeans DEF Orphans, Living, Whole, Booked, Shape
<1>2. PICK s \in Seq(AttrNames) : s = d.attrs[n]
  BY <1>1 DEF Typed
<1>3. PICK r \in Seq(AttrNames) : r = Append(s, x)
  BY <1>2, AppendProperties
<1>4. PICK k \in Nat : k = d.allocs["attribute"] + 1
  BY <1>1, PoolsAre DEF Typed
<1>5. e = [d EXCEPT !.attrs[n] = r, !.allocs["attribute"] = k]
  BY <1>2, <1>3, <1>4
<1>6. AttributesSet(d, e, n, r, k)
  BY <1>1, <1>5, AttributeFields
<1>7. Shape(e)
  BY <1>1, AddsAttribute DEF Attributed, Whole, Booked
<1>8. Apart(d, e, R)
  BY <1>1, <1>6, <1>7, AttributesApart
<1>9. QED
  BY <1>6, <1>8 DEF AttributesSet

LEMMA ReadAttributeRead ==
  ASSUME DocInv, ReadInv, NEW x \in AttrNames, ReadAttribute(x) PROVE ReadInv'
<1>1. mode = "tag"
  BY DEF ReadAttribute, InTag
<1>2. PICK d : d = [dom EXCEPT !.attrs[cur] = Append(@, x), !.allocs["attribute"] = @ + 1]
  OBVIOUS
<1>3. dom' = d /\ stack' = stack /\ cur' = cur /\ mode' = "tag" /\ read' = read
  BY <1>1, <1>2 DEF ReadAttribute
<1>4. Whole(dom) /\ stack \in Seq(Joints) /\ Opened(dom, stack, cur) /\ cur \in Orphans(dom)
  BY <1>1, ReadingTag
<1>5. LoadRead(dom, stack, read) /\ NoChild(dom, cur)
  BY <1>1 DEF ReadInv
<1>6. PICK R : R = {cur}
  OBVIOUS
<1>7. Apart(dom, d, R) /\ SameLinks(dom, d)
  BY <1>2, <1>4, <1>6, AddsApart
<1>8. \A m \in R : m \in Nodes /\ (m = cur \/ m \notin Orphans(dom))
  BY <1>4, <1>6 DEF Orphans, Living
<1>9. Opening(d, stack) = Opening(dom, stack) /\ Serial(d) = Serial(dom)
  BY <1>4, <1>7, <1>8, StackApart
<1>10. LoadRead(d, stack, read)
  BY <1>5, <1>9, LoadReadSame
<1>11. NoChild(d, cur)
  BY <1>5, <1>7 DEF NoChild, ChildrenOf, SameLinks
<1>12. QED
  BY <1>3, <1>10, <1>11 DEF ReadInv

LEMMA FailInTagRead ==
  ASSUME DocInv, ReadInv, FailInTag PROVE ReadInv'
<1>1. mode = "tag" /\ read' = Append(read, Mark("junk"))
  BY DEF FailInTag, InTag
<1>2. LoadRead(dom, stack, read)
  BY <1>1 DEF ReadInv
<1>3. PICK e : Fail(dom, e, cur)
  BY DEF FailInTag
<1>4. PICK y \in Pieces : y = Mark("junk")
  <2>1. "junk" \in Forms
    BY DEF Forms
  <2>2. QED
    BY <2>1, MarksAre
<1>5. QED
  BY <1>1, <1>2, <1>3, <1>4, FailMore

LEMMA TagRead ==
  ASSUME DocInv, ReadInv, mode = "tag", NEW form \in Forms
  PROVE  /\ Whole(dom) /\ Shape(dom) /\ stack \in Seq(Joints) /\ Opened(dom, stack, cur)
         /\ cur \in Nodes /\ cur \in Orphans(dom) /\ dom.kind[cur] = "element"
         /\ LoadRead(dom, stack, read) /\ NoChild(dom, cur) /\ error = "SUCCESS"
         /\ ThisTag(form) \in Pieces /\ ThisTag(form).form = form
<1>1. /\ Whole(dom) /\ Shape(dom) /\ stack \in Seq(Joints) /\ Opened(dom, stack, cur)
      /\ cur \in Nodes /\ cur \in Orphans(dom) /\ dom.kind[cur] = "element" /\ error = "SUCCESS"
  BY ReadingTag DEF Whole, Booked
<1>2. ThisTag(form) \in Pieces /\ ThisTag(form).form = form
  BY <1>1, TagsAre DEF ThisTag, Piece
<1>3. QED
  BY <1>1, <1>2 DEF ReadInv

LEMMA ReadSealedEndRead ==
  ASSUME DocInv, ReadInv, ReadSealedEnd PROVE ReadInv'
<1>1. mode = "tag" /\ read' = Append(read, ThisTag("sealed")) /\ stack' = stack
  BY DEF ReadSealedEnd, InTag
<1>2. PICK y : y = ThisTag("sealed")
  OBVIOUS
<1>3. /\ Whole(dom) /\ Shape(dom) /\ stack \in Seq(Joints) /\ Opened(dom, stack, cur)
      /\ cur \in Nodes /\ cur \in Orphans(dom) /\ dom.kind[cur] = "element"
      /\ LoadRead(dom, stack, read) /\ NoChild(dom, cur) /\ y \in Pieces /\ y.form = "sealed"
  <2>1. "sealed" \in Forms
    BY DEF Forms
  <2>2. QED
    BY <1>1, <1>2, <2>1, TagRead
<1>4. PICK e : e = InsertEndChild(dom, Last(stack), cur)
  OBVIOUS
<1>5. Continue(e)
  BY <1>4 DEF ReadSealedEnd, Top
<1>6. Item(dom)[cur] = <<Piece("start", dom.name[cur], dom.attrs[cur]), EndPiece(dom.name[cur])>>
  BY <1>3, ElementItem
<1>7. Expanded(y) = <<Piece("start", dom.name[cur], dom.attrs[cur]), EndPiece(dom.name[cur])>>
  BY <1>2 DEF Expanded, ThisTag, Piece
<1>8. Rise(y) = 0 /\ y.form # "declaration"
  BY <1>3 DEF Rise
<1>9. LoadRead(e, stack, Append(read, y))
  BY <1>3, <1>4, <1>6, <1>7, <1>8, AttachRead
<1>10. LoadRead(e, stack, read')
  BY <1>1, <1>2, <1>9
<1>11. QED
  BY <1>1, <1>5, <1>10, ContinuesRead

LEMMA ReadOpeningEndRead ==
  ASSUME DocInv, ReadInv, ReadOpeningEnd PROVE ReadInv'
<1>1. mode = "tag" /\ read' = Append(read, ThisTag("start")) /\ source' = source
  BY DEF ReadOpeningEnd, InTag
<1>2. PICK y : y = ThisTag("start")
  OBVIOUS
<1>3. /\ Whole(dom) /\ Shape(dom) /\ stack \in Seq(Joints) /\ Opened(dom, stack, cur)
      /\ cur \in Nodes /\ cur \in Orphans(dom) /\ dom.kind[cur] = "element"
      /\ LoadRead(dom, stack, read) /\ NoChild(dom, cur) /\ y \in Pieces /\ y.form = "start"
  <2>1. "start" \in Forms
    BY DEF Forms
  <2>2. QED
    BY <1>1, <1>2, <2>1, TagRead
<1>4. read' = Append(read, y)
  BY <1>1, <1>2
<1>5. CASE Mismatch(dom, cur, stack)
  <2>1. Given(dom, Append(read, y))
    BY <1>3, GivenMore
  <2>2. Given(dom, read')
    BY <1>4, <2>1
  <2>3. QED
    BY <1>1, <1>3, <1>5, <2>2, MismatchRead
<1>6. CASE Fail(dom, "DEPTH_EXCEEDED", cur)
  BY <1>3, <1>4, <1>6, FailMore
<1>7. CASE stack' = Append(stack, cur) /\ Continue(dom)
  <2>1. PICK t : t = Append(stack, cur)
    OBVIOUS
  <2>2. Opened(dom, t, Null) /\ t \in Seq(Joints) /\ Len(t) = Len(stack) + 1
    BY <1>3, <2>1, OpenedMore
  <2>3. t[1] = Doc /\ Len(t) > 0
    BY <2>2 DEF Opened
  <2>4. Rise(y) = 1 /\ y.form # "declaration"
    BY <1>3 DEF Rise
  <2>5. Part(dom, cur) = <<Piece("start", dom.name[cur], dom.attrs[cur])>>
    BY <1>3, ElementItem
  <2>6. Expanded(y) = Part(dom, cur)
    BY <1>2, <2>5 DEF Expanded, ThisTag, Piece
  <2>7. cur \in Joints
    BY <1>3 DEF Joints
  <2>8. Opening(dom, t) = Then(Opening(dom, stack), Expanded(y))
    BY <1>3, <2>1, <2>6, <2>7, OpeningPush
  <2>9. Len(t) = Len(stack) + Rise(y)
    BY <2>2, <2>4
  <2>10. LoadRead(dom, t, Append(read, y))
    <3>1. y.form = "declaration" => AllDeclared(Expand(read))
      BY <2>4
    <3>2. PICK e : e = dom
      OBVIOUS
    <3>3. /\ Shape(e) /\ Opening(e, t) = Then(Opening(dom, stack), Expanded(y))
          /\ Serial(e) = Serial(dom)
      BY <1>3, <2>8, <3>2
    <3>4. LoadRead(e, t, Append(read, y))
      BY <1>3, <2>2, <2>3, <2>9, <3>1, <3>3, LoadReadMore
    <3>5. QED
      BY <3>2, <3>4
  <2>11. LoadRead(dom, t, read') /\ stack' = t
    BY <1>4, <1>7, <2>1, <2>10
  <2>12. QED
    BY <1>7, <2>11, ContinuesRead
<1>8. QED
  BY <1>5, <1>6, <1>7 DEF ReadOpeningEnd

LEMMA UnwindRead ==
  ASSUME DocInv, ReadInv, Unwind PROVE ReadInv'
<1>1. mode = "fail" /\ Reading /\ read' = read /\ source' = source
  BY DEF Unwind, Reading
<1>2. /\ Whole(dom) /\ Shape(dom) /\ stack \in Seq(Joints) /\ cur \in Nodes
      /\ Opened(dom, stack, cur)
  BY <1>1 DEF DocInv, Position, Whole, Booked
<1>3. cur \in Orphans(dom)
  BY <1>2 DEF Opened
<1>4. Given(dom, read)
  BY <1>1 DEF ReadInv
<1>5. PICK e : e = IF Error THEN error ELSE "PARSING"
  OBVIOUS
<1>6. e # "SUCCESS"
  BY <1>5 DEF Error
<1>7. PICK d : d = DeleteNode(dom, cur)
  OBVIOUS
<1>8. ReturnNull(d, e, stack)
  BY <1>5, <1>7 DEF Unwind
<1>9. Whole(d) /\ Remains(dom, d) /\ Orphans(d) = Orphans(dom) \ {cur} /\ Cut(dom, d, cur)
  BY <1>2, <1>3, <1>7, DeleteOrphan
<1>10. Opened(d, stack, Null)
  BY <1>2, <1>9, OpenedWithout
<1>11. Serial(d) = Serial(dom)
  BY <1>2, <1>3, <1>9, CutRead DEF Whole, Booked
<1>12. Given(d, read')
  BY <1>1, <1>4, <1>11 DEF Given
<1>13. QED
  BY <1>1, <1>2, <1>6, <1>8, <1>9, <1>10, <1>12, ReturnsRead

LEMMA StrayEnd ==
  ASSUME NEW d, Whole(d), NEW s \in Seq(Joints), Len(s) = 1, Opened(d, s, Null),
         NEW r, LoadRead(d, s, r), NEW y \in Pieces, y.form = "end"
  PROVE  Complete(d, Append(r, y)) /\ Orphans(d) = {}
<1>1. s[1] = Doc /\ Shape(d)
  BY DEF Opened, Whole, Booked
<1>2. r \in Seq(Pieces) /\ Serial(d) = Expand(r)
  BY <1>1, OpeningDocument DEF LoadRead
<1>3. Serial(d) \in Seq(Pieces) /\ Leads(Serial(d))
  BY SoundMeans DEF LoadRead
<1>4. PICK z \in Seq(Pieces) : z = Expand(r)
  BY <1>2, <1>3
<1>5. PICK a \in Pieces : Expanded(y) = <<a>>
  <2>1. y.form # "sealed"
    OBVIOUS
  <2>2. QED
    BY <2>1, ExpandedIs
<1>6. Expand(Append(r, y)) = Append(z, a)
  <2>1. Expand(Append(r, y)) = Then(Expand(r), Expanded(y))
    BY <1>2, ExpandIs
  <2>2. z \o <<a>> = Append(z, a)
    OBVIOUS
  <2>3. QED
    BY <1>4, <1>5, <2>1, <2>2 DEF Then
<1>7. Front(Append(z, a)) = z
  BY FrontAppended
<1>8. Last(Append(r, y)) = y
  BY <1>2, FrontAppended
<1>9. Complete(d, Append(r, y))
  BY <1>2, <1>3, <1>4, <1>6, <1>7, <1>8 DEF Complete
<1>10. QED
  BY <1>9, OpenedDocument

LEMMA ReadClosingEndRead ==
  ASSUME DocInv, ReadInv, ReadClosingEnd PROVE ReadInv'
<1>1. mode = "tag" /\ read' = Append(read, ThisTag("end")) /\ source' = source
  BY DEF ReadClosingEnd, InTag
<1>2. PICK y : y = ThisTag("end")
  OBVIOUS
<1>3. /\ Whole(dom) /\ Shape(dom) /\ stack \in Seq(Joints) /\ Opened(dom, stack, cur)
      /\ cur \in Nodes /\ cur \in Orphans(dom) /\ error = "SUCCESS"
      /\ LoadRead(dom, stack, read) /\ y \in Pieces /\ y.form = "end"
  <2>1. "end" \in Forms
    BY DEF Forms
  <2>2. QED
    BY <1>1, <1>2, <2>1, TagRead
<1>4. read' = Append(read, y)
  BY <1>1, <1>2
<1>5. PICK d : d = DeleteAlone(SetTracked(dom, cur), cur)
  OBVIOUS
<1>6. Deleted(dom, d, cur) /\ Cut(dom, d, cur)
  BY <1>3, <1>5, DeleteTracked
<1>7. /\ Whole(d) /\ Shape(d) /\ Remains(dom, d) /\ Orphans(d) = Orphans(dom) \ {cur}
  BY <1>6 DEF Deleted, Whole, Booked
<1>8. Opened(d, stack, Null)
  BY <1>3, <1>7, OpenedWithout
<1>9. LoadRead(d, stack, read)
  <2>1. Opening(d, stack) = Opening(dom, stack) /\ Serial(d) = Serial(dom)
    BY <1>3, <1>6, <1>7, CutRead
  <2>2. QED
    BY <1>3, <2>1, LoadReadSame
<1>10. Given(d, read')
  <2>1. Given(d, Append(read, y))
    BY <1>3, <1>9, GivenMore
  <2>2. QED
    BY <1>4, <2>1
<1>11. CASE Top = Doc
  <2>1. EndLoad(d, error)
    BY <1>5, <1>11 DEF ReadClosingEnd
  <2>2. Len(stack) = 1
    BY <1>3, <1>8, <1>11, TopIs DEF Top
  <2>3. Complete(d, Append(read, y)) /\ Orphans(d) = {}
    BY <1>3, <1>7, <1>8, <1>9, <2>2, StrayEnd
  <2>4. Complete(d, read')
    BY <1>4, <2>3
  <2>5. QED
    BY <1>1, <1>7, <1>10, <2>1, <2>3, <2>4, EndsRead
<1>12. CASE Top # Doc
  <2>1. PICK s : s = Front(stack)
    OBVIOUS
  <2>2. PICK n \in {Null, Last(stack)} : n = Top
    BY DEF Top
  <2>3. PICK l \in Nat : l = Len(stack) /\ l > 1
    <3>1. PICK l : l = Len(stack)
      OBVIOUS
    <3>2. l \in Nat /\ l # 1 /\ l > 0
      <4>1. l > 0
        BY <1>8, <3>1 DEF Opened
      <4>2. QED
        BY <1>3, <1>8, <1>12, <3>1, <4>1, TopIs DEF Top
    <3>3. l > 1
      BY ONLY <3>2
    <3>4. QED
      BY <3>1, <3>2, <3>3
  <2>4. n \in Orphans(d) /\ n \in Nodes /\ n = Last(stack)
    BY <1>3, <1>8, <1>12, <2>2, TopIs DEF Top, Orphans
  <2>5. Opened(d, s, n)
    <3>1. /\ \A m \in Orphans(d) : d.kind[m] = d.kind[m]
          /\ \A m \in Nodes : m \in Orphans(d) <=> m = n \/ (m \in Orphans(d) /\ m # Last(stack))
      BY <2>4
    <3>2. QED
      BY <1>3, <1>8, <2>1, <2>3, <3>1, OpenedLess
  <2>6. s \in Seq(Joints) /\ Len(s) = l - 1
    BY <1>3, <2>1, <2>3, FrontIs
  <2>7. CASE dom.name[cur] # dom.name[Top]
    <3>1. Mismatch(d, n, s)
      BY <1>5, <1>12, <2>1, <2>2, <2>7 DEF ReadClosingEnd
    <3>2. QED
      BY <1>1, <1>7, <1>10, <2>4, <2>5, <2>6, <3>1, MismatchRead
  <2>8. CASE dom.name[cur] = dom.name[Top]
    <3>1. PICK u : u = Last(s)
      OBVIOUS
    <3>2. PICK e : e = InsertEndChild(d, u, n)
      OBVIOUS
    <3>3. Continue(e) /\ stack' = s
      BY <1>5, <1>12, <2>1, <2>2, <2>8, <3>1, <3>2 DEF ReadClosingEnd
    <3>4. /\ u \in Joints /\ Holds(d, u) /\ u # n /\ (u = Doc \/ d.parent[u] = Null)
          /\ u = Doc <=> Len(s) = 1
      BY <2>5, <2>6, <3>1, TopIs DEF Orphans
    <3>5. Shape(e)
      <4>1. PICK R : R = {u}
        OBVIOUS
      <4>2. Apart(d, e, R)
        BY <1>7, <2>4, <3>2, <3>4, <4>1, AttachApart
      <4>3. QED
        BY <4>2 DEF Apart
    <3>6. Len(s) > 0 /\ Once(s) /\ s[1] = Doc
      BY <2>5 DEF Opened, Once
    <3>7. Opening(e, s) = Then(Opening(d, s), Item(d)[n]) /\ (u # Doc => Serial(e) = Serial(d))
      BY <1>7, <2>4, <2>6, <3>1, <3>2, <3>4, <3>6, OpeningAttach
    <3>8. d.kind[n] = "element" /\ d.name[n] = dom.name[n]
      <4>1. l \in 2..l
        BY <2>3
      <4>2. d.kind[n] = "element"
        BY <1>8, <2>3, <2>4, <4>1 DEF Opened, Last
      <4>3. PICK R : R = Subtree(dom, cur)
        OBVIOUS
      <4>4. Apart(dom, d, R) /\ \A m \in R : m = cur \/ (m \in Nodes /\ dom.parent[m] # Null)
        BY <1>3, <1>6, <1>7, <4>3, CutApart
      <4>5. n # cur /\ dom.parent[n] = Null
        BY <1>7, <2>4 DEF Orphans
      <4>6. n \notin R
        BY <4>4, <4>5
      <4>7. QED
        BY <2>4, <4>2, <4>4, <4>6 DEF Apart
    <3>9. EndOf(d, n) = <<EndPiece(dom.name[n])>>
      BY <3>8 DEF EndOf
    <3>10. Expanded(y) = EndOf(d, n)
      BY <1>2, <2>2, <2>8, <3>9 DEF Expanded, ThisTag, Piece
    <3>11. Opening(e, s) = Then(Opening(d, stack), Expanded(y))
      <4>1. Opening(d, stack) = Then(Opening(d, s), Part(d, n))
        BY <1>3, <1>7, <2>1, <2>3, <2>4, OpeningTop
      <4>2. Item(d)[n] = Then(Part(d, n), EndOf(d, n))
        BY <1>7, <2>4, ItemParts
      <4>3. n \in Joints
        BY <2>4 DEF Joints
      <4>4. PICK a \in Seq(Pieces), b \in Seq(Pieces), x \in Seq(Pieces) :
              a = Opening(d, s) /\ b = Part(d, n) /\ x = Expanded(y)
        BY <1>3, <1>7, <2>6, <4>3, OpeningType, PartType, ExpandedIs
      <4>5. a \o (b \o x) = (a \o b) \o x
        <5>1. a \in Seq(Pieces) /\ b \in Seq(Pieces) /\ x \in Seq(Pieces)
          OBVIOUS
        <5>2. QED
          BY ONLY <5>1, ConcatAssociative
      <4>6. QED
        BY <3>7, <3>10, <4>1, <4>2, <4>4, <4>5 DEF Then
    <3>12. Len(s) = Len(stack) + Rise(y) /\ y.form # "declaration"
      <4>1. Rise(y) = -1 /\ y.form # "declaration"
        BY <1>3 DEF Rise
      <4>2. QED
        BY <2>3, <2>6, <4>1
    <3>13. Len(s) > 1 => Serial(e) = Serial(d)
      <4>1. PICK k \in Nat : k = Len(s)
        BY <2>6, LenProperties
      <4>2. k > 1 => k # 1
        OBVIOUS
      <4>3. QED
        BY <3>4, <3>7, <4>1, <4>2
    <3>14. LoadRead(e, s, Append(read, y))
      BY <1>3, <1>9, <2>6, <3>5, <3>6, <3>11, <3>12, <3>13, LoadReadMore
    <3>15. LoadRead(e, s, read')
      BY <1>4, <3>14
    <3>16. QED
      BY <3>3, <3>15, ContinuesRead
  <2>9. QED
    BY <2>7, <2>8
<1>13. QED
  BY <1>11, <1>12

LEMMA ParserStepRead ==
  ASSUME DocInv, ReadInv, ParserStep PROVE ReadInv'
BY BeginLoadRead, RefuseLoadRead, ReadLeafRead, ReadEndlessLeafRead, ReadTagNameRead,
   ReadBadNameRead, ReadEndOfFileRead, ReadAttributeRead, FailInTagRead,
   ReadSealedEndRead, ReadOpeningEndRead, ReadClosingEndRead, UnwindRead
   DEF ParserStep, ParseStep

LEMMA EditsEndReading ==
  ASSUME EditStep PROVE mode' \in {"idle", "crashed"}
<1>1. \A d : Edit(d) => mode' = "idle"
  BY DEF Edit
<1>2. \A kind : NewNode(kind) => mode' = "idle"
  BY <1>1 DEF NewNode
<1>3. \A n, kind : InsertNew(n, kind) => mode' = "idle"
  BY <1>1 DEF InsertNew
<1>4. \A n, c : InsertLast(n, c) \/ InsertFirst(n, c) \/ InsertAfter(n, c) => mode' = "idle"
  BY <1>1 DEF InsertLast, InsertFirst, InsertAfter
<1>5. \A n, c : InsertAfterCrash(n, c) => mode' = "crashed"
  BY DEF InsertAfterCrash
<1>6. \A n : Delete(n) \/ DeleteAllUnder(n) \/ SetText(n) => mode' = "idle"
  BY <1>1 DEF Delete, DeleteAllUnder, SetText
<1>7. \A n, x : FindOrCreateAttribute(n, x) \/ DeleteAttribute(n, x) => mode' = "idle"
  BY <1>1 DEF FindOrCreateAttribute, DeleteAttribute
<1>8. ClearDocument => mode' = "idle"
  BY DEF ClearDocument
<1>9. QED
  BY <1>2, <1>3, <1>4, <1>5, <1>6, <1>7, <1>8 DEF EditStep

LEMMA ReadInvInit == Init => ReadInv
BY DEF Init, ParserInit, ReadInv

LEMMA ReadInvNext == DocInv /\ ReadInv /\ [Next]_vars => ReadInv'
<1> SUFFICES ASSUME DocInv, ReadInv, [Next]_vars PROVE ReadInv'
  OBVIOUS
<1>1. CASE ParserStep
  BY <1>1, ParserStepRead
<1>2. CASE mode' \in {"idle", "print", "value", "crashed"}
  BY <1>2 DEF ReadInv
<1>3. CASE UNCHANGED vars
  BY <1>3 DEF vars, parserVars, ReadInv, Loaded, TreeIsFile, DeclarationsLead,
     FailedTreeIsWhole, Error
<1>4. CASE EditStep
  BY <1>2, <1>4, EditsEndReading
<1>5. CASE (\E c \in BOOLEAN : BeginPrint(c)) \/ PrintMore \/ EndPrint
  BY <1>2, <1>5 DEF BeginPrint, PrintMore, EndPrint, parserVars
<1>6. CASE BeginValue \/ ValueMore
  BY <1>2, <1>6 DEF BeginValue, ValueMore, parserVars
<1>7. QED
  BY <1>1, <1>3, <1>4, <1>5, <1>6 DEF Next

LEMMA ReadInvAlways == Spec => []ReadInv
<1>1. QED
  BY DocInvAlways, ReadInvInit, ReadInvNext, PTL DEF Spec

LEMMA ReadInvShows ==
  DocInv /\ ReadInv => LoadedTreeIsFile /\ FailedTreeIsWhole
<1> SUFFICES ASSUME DocInv, ReadInv PROVE LoadedTreeIsFile /\ FailedTreeIsWhole
  OBVIOUS
<1>1. DepthIsLimited
  BY DEF DocInv, Position, DepthIsLimited
<1>2. CASE mode = "loaded"
  BY <1>1, <1>2 DEF ReadInv, Loaded, LoadedTreeIsFile
<1>3. CASE mode # "loaded"
  BY <1>1, <1>3 DEF LoadedTreeIsFile, TreeIsFile, DeclarationsLead, FailedTreeIsWhole
<1>4. QED
  BY <1>2, <1>3

(* What LoadFile and Parse have put into the tree is the file, element for   *)
(* element, declarations first, or the file was refused: whatever it was     *)
(* made of, however deep, and whatever was in the document before.           *)
THEOREM LoadedTreeIsAlwaysFile == Spec => []LoadedTreeIsFile
<1>1. QED
  BY DocInvAlways, ReadInvAlways, ReadInvShows, PTL

(* After an error the tree holds what was complete at the level of the       *)
(* document, and nothing of the node in which the error was: XMLNode::        *)
(* ParseDeep deletes every node that it gives up, at every level.             *)
THEOREM FailedTreeIsAlwaysWhole == Spec => []FailedTreeIsWhole
<1>1. QED
  BY DocInvAlways, ReadInvAlways, ReadInvShows, PTL
=============================================================================
