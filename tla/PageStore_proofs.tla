--------------------------- MODULE PageStore_proofs ---------------------------
(***************************************************************************)
(* Proofs about PageLibrary and PageStore, for any set of items, any       *)
(* number of pages of any size and any closeness of simhash values.        *)
(*                                                                         *)
(* KeptAreDistinct and RemovedHaveTwins follow from what RmRedundantPages' *)
(* two iterators have compared so far, the two index properties from what  *)
(* the loops over _page_lib_list have listed so far.                       *)
(*                                                                         *)
(* Whoever looks a page up by an offset stored on disk reads that page's   *)
(* text.  Written, the running concatenation of the texts, is a recursive  *)
(* function: that there is one, and that a text once written stays where   *)
(* it is, are inductions over the pages.                                   *)
(***************************************************************************)
EXTENDS PageStore, FiniteSetTheorems, SequenceTheorems, WellFoundedInduction, TLAPS

(* Until RmRedundantPages, _page_lib_list has every page created.           *)
CreatedInOrder ==
  /\ pc \in {"load", "crashed"} => hash = <<>> /\ list = <<>>
  /\ pc \in {"load", "create"} =>
       /\ Len(list) = Len(hash) /\ it = 1 /\ pos = 2
       /\ \A i \in 1..Len(list) : list[i] = i

Increasing == \A i, j \in 1..Len(list) : i < j => list[i] < list[j]

(* The page that made another redundant is at the first iterator or before  *)
(* it, where nothing is erased any more.                                    *)
TwinsStay ==
  \A d \in 1..Len(hash) :
    d \in Elements(list)
      \/ \E i \in 1..Len(list) : i <= it /\ list[i] < d /\ Alike(list[i], d)

Compared ==
  /\ pc = "dedupe" =>
       /\ it < pos
       /\ \A i, j \in 1..Len(list) :
            i < j /\ (i < it \/ (i = it /\ j < pos)) => ~Alike(list[i], list[j])
  /\ Deduped => \A i, j \in 1..Len(list) : i < j => ~Alike(list[i], list[j])

(* The pages before place n that contain a word.                            *)
Listed(w, n) ==
  {d \in 1..Len(hash) : w \in WordsOf(d) /\ \E i \in 1..Len(list) : i < n /\ list[i] = d}

Counted ==
  /\ pc \in {"load", "create", "dedupe"} => df = [w \in Words |-> 0]
  /\ pc = "cut" => \A w \in Words : df[w] = Cardinality(Listed(w, next))
  /\ pc \in {"build", "ready"} =>
       \A w \in Words : df[w] = Cardinality(Listed(w, Len(list) + 1))

Indexed ==
  /\ pc \in {"load", "create", "dedupe", "cut"} => index = [w \in Words |-> {}]
  /\ pc = "build" => \A w \in Words : index[w] = Listed(w, next)
  /\ pc \in {"cut", "build"} => next <= Len(list) + 1
  /\ pc = "ready" => /\ byId = Elements(list)
                     /\ \A w \in Words : index[w] = Listed(w, Len(list) + 1)

IInv ==
  /\ LibraryTypeOK /\ CreatedInOrder /\ Increasing /\ TwinsStay /\ Compared
  /\ Counted /\ Indexed
-----------------------------------------------------------------------------
LEMMA WithoutEffect ==
  ASSUME NEW S, NEW s \in Seq(S), NEW k \in 1..Len(s)
  PROVE  /\ Without(s, k) \in Seq(S)
         /\ Len(Without(s, k)) = Len(s) - 1
         /\ \A i \in 1..(Len(s) - 1) :
              Without(s, k)[i] = IF i < k THEN s[i] ELSE s[i + 1]
BY DEF Without

(* Every other element is still there.                                      *)
LEMMA WithoutKeeps ==
  ASSUME NEW S, NEW s \in Seq(S), NEW k \in 1..Len(s),
         NEW i \in 1..Len(s), i # k
  PROVE  LET j == IF i < k THEN i ELSE i - 1
         IN  j \in 1..Len(Without(s, k)) /\ Without(s, k)[j] = s[i]
<1>1. Len(s) \in Nat /\ Len(Without(s, k)) = Len(s) - 1
  BY WithoutEffect
<1>2. CASE i < k
  <2>1. i \in 1..(Len(s) - 1)
    BY <1>1, <1>2
  <2>2. QED
    BY <1>1, <1>2, <2>1, WithoutEffect
<1>3. CASE ~(i < k)
  <2>1. i - 1 \in 1..(Len(s) - 1) /\ ~(i - 1 < k) /\ (i - 1) + 1 = i
    BY <1>1, <1>3
  <2>2. QED
    BY <1>1, <1>3, <2>1, WithoutEffect
<1>4. QED
  BY <1>2, <1>3

LEMMA AppendEffect ==
  ASSUME NEW S, NEW s \in Seq(S), NEW e \in S
  PROVE  /\ Append(s, e) \in Seq(S)
         /\ Len(Append(s, e)) = Len(s) + 1
         /\ \A i \in 1..Len(s) : Append(s, e)[i] = s[i]
         /\ Append(s, e)[Len(s) + 1] = e
OBVIOUS

LEMMA BlankType == Blank.terms \in [Words -> Nat]
BY DEF Blank

LEMMA ListType ==
  ASSUME LibraryTypeOK
  PROVE  /\ Len(list) \in Nat /\ Len(hash) \in Nat /\ Len(rss) \in Nat
         /\ \A i \in 1..Len(list) : list[i] \in 1..Len(hash)
         /\ it \in Nat /\ pos \in Nat /\ next \in Nat
BY DEF LibraryTypeOK

(* A place in the list beyond the last one lists nothing more, and one step *)
(* of a loop over the list adds the page it is at.                          *)
LEMMA ListedNext ==
  ASSUME LibraryTypeOK, Increasing, NEW n \in 1..Len(list), NEW w \in Words
  PROVE  /\ Listed(w, n + 1) =
              IF w \in WordsOf(list[n]) THEN Listed(w, n) \cup {list[n]} ELSE Listed(w, n)
         /\ list[n] \notin Listed(w, n)
<1>1. /\ Len(list) \in Nat
      /\ \A i \in 1..Len(list) : list[i] \in 1..Len(hash) /\ list[i] \in Nat
  BY ListType
<1>2. list[n] \notin Listed(w, n)
  BY <1>1 DEF Listed, Increasing
<1>3. \A i \in 1..Len(list) : i < n + 1 <=> i < n \/ i = n
  BY <1>1
<1>4. QED
  BY <1>1, <1>2, <1>3 DEF Listed

LEMMA ListedFinite ==
  ASSUME LibraryTypeOK, NEW n, NEW w
  PROVE  /\ IsFiniteSet(Listed(w, n)) /\ Cardinality(Listed(w, n)) \in Nat
         /\ Listed(w, n) \subseteq 1..Len(hash)
<1>1. Listed(w, n) \subseteq 1..Len(hash)
  BY DEF Listed
<1>2. IsFiniteSet(1..Len(hash))
  BY ListType, FS_Interval
<1>3. QED
  BY <1>1, <1>2, FS_Subset, FS_CardinalityType

LEMMA ListedNone ==
  ASSUME LibraryTypeOK, NEW w
  PROVE  Listed(w, 1) = {}
BY ListType DEF Listed
-----------------------------------------------------------------------------
LEMMA InitEstablishes == LibraryInit => IInv
<1> SUFFICES ASSUME LibraryInit PROVE IInv
  OBVIOUS
<1>1. rss \in Seq(Items \cup {Blank})
  BY LibraryAssumption DEF LibraryInit
<1>2. LibraryTypeOK
  <2>1. hash = <<>> /\ list = <<>>
    BY DEF LibraryInit
  <2>2. hash \in Seq(Hashes) /\ list \in Seq(1..Len(hash)) /\ Len(hash) <= Len(rss)
    <3>1. Len(rss) \in Nat
      BY <1>1
    <3>2. QED
      BY <2>1, <3>1
  <2>3. df \in [Words -> Nat] /\ byId \subseteq 1..Len(hash)
    BY DEF LibraryInit
  <2>4. index \in [Words -> SUBSET (1..Len(hash))]
    BY DEF LibraryInit
  <2>5. it \in Nat \ {0} /\ pos \in Nat \ {0} /\ next \in Nat \ {0} /\ pc \in LibraryAt
    BY DEF LibraryInit, LibraryAt
  <2>6. QED
    BY <1>1, <2>2, <2>3, <2>4, <2>5 DEF LibraryTypeOK
<1>3. CreatedInOrder /\ Increasing /\ TwinsStay
  BY DEF LibraryInit, CreatedInOrder, Increasing, TwinsStay
<1>4. Compared /\ Counted /\ Indexed
  BY DEF LibraryInit, Compared, Deduped, Counted, Indexed
<1>5. QED
  BY <1>2, <1>3, <1>4 DEF IInv
-----------------------------------------------------------------------------
(* The steps that change neither _rss nor the pages, and only move pc and   *)
(* the loop variables.                                                      *)
LEMMA LoadPreserves == IInv /\ (LoadItem \/ LoadFails \/ LoadEnds) => IInv'
<1> SUFFICES ASSUME IInv, LoadItem \/ LoadFails \/ LoadEnds PROVE IInv'
  OBVIOUS
<1> USE DEF IInv
<1>1. /\ hash = <<>> /\ list = <<>> /\ it = 1 /\ pos = 2
      /\ UNCHANGED <<hash, list, it, pos, next, df, index, byId>>
      /\ pc = "load" /\ pc' \in {"load", "crashed", "create"}
  BY DEF LoadItem, LoadFails, LoadEnds, CreatedInOrder
<1>2. rss' \in Seq(Items \cup {Blank}) /\ Len(hash') <= Len(rss')
  <2>1. CASE LoadItem
    BY <1>1, <2>1, AppendEffect DEF LoadItem, LibraryTypeOK
  <2>2. CASE LoadFails \/ LoadEnds
    BY <2>2 DEF LoadFails, LoadEnds, LibraryTypeOK
  <2>3. QED
    BY <2>1, <2>2
<1>3. LibraryTypeOK'
  BY <1>1, <1>2 DEF LibraryTypeOK, LibraryAt
<1>4. CreatedInOrder' /\ Increasing' /\ TwinsStay'
  BY <1>1 DEF CreatedInOrder, Increasing, TwinsStay
<1>5. Compared' /\ Counted' /\ Indexed'
  BY <1>1 DEF Compared, Deduped, Counted, Indexed
<1>6. QED
  BY <1>3, <1>4, <1>5

LEMMA CreatePreserves == IInv /\ CreatePage => IInv'
<1> SUFFICES ASSUME IInv, CreatePage PROVE IInv'
  OBVIOUS
<1> USE DEF IInv
<1> DEFINE n == Len(list)
<1>1. PICK h \in HashesOf(rss[n + 1]) : hash' = Append(hash, h)
  BY DEF CreatePage
<1>2. /\ n \in Nat /\ Len(hash) = n /\ n < Len(rss) /\ Len(rss) \in Nat
      /\ list' = Append(list, n + 1)
      /\ UNCHANGED <<rss, it, pos, next, df, index, byId, pc>> /\ pc = "create"
      /\ it = 1 /\ pos = 2 /\ \A i \in 1..n : list[i] = i
  BY ListType DEF CreatePage, CreatedInOrder
<1>3. h \in Hashes
  <2>1. rss[n + 1] \in Items \cup {Blank}
    BY <1>2 DEF LibraryTypeOK
  <2>2. QED
    BY <1>1, <2>1, LibraryAssumption DEF HashesOf
<1>4. hash' \in Seq(Hashes) /\ Len(hash') = n + 1
  BY <1>1, <1>2, <1>3, AppendEffect DEF LibraryTypeOK
<1>5. /\ list' \in Seq(1..(n + 1)) /\ Len(list') = n + 1
      /\ \A i \in 1..(n + 1) : list'[i] = i
  <2>1. list \in Seq(1..(n + 1))
    BY <1>2 DEF LibraryTypeOK
  <2>2. n + 1 \in 1..(n + 1)
    BY <1>2
  <2>3. QED
    BY <1>2, <2>1, <2>2, AppendEffect
<1>6. LibraryTypeOK'
  <2>1. 1..Len(hash) \subseteq 1..Len(hash')
    BY <1>2, <1>4
  <2>2. QED
    BY <1>2, <1>4, <1>5, <2>1 DEF LibraryTypeOK
<1>7. CreatedInOrder' /\ Increasing'
  BY <1>2, <1>4, <1>5 DEF CreatedInOrder, Increasing
<1>8. TwinsStay'
  BY <1>2, <1>4, <1>5 DEF TwinsStay, Elements
<1>9. Compared' /\ Counted' /\ Indexed'
  BY <1>2 DEF Compared, Deduped, Counted, Indexed
<1>10. QED
  BY <1>6, <1>7, <1>8, <1>9

LEMMA CreateEndsPreserves == IInv /\ CreateEnds => IInv'
<1> SUFFICES ASSUME IInv, CreateEnds PROVE IInv'
  OBVIOUS
<1> USE DEF IInv
<1>1. /\ UNCHANGED <<rss, hash, list, it, pos, next, df, index, byId>>
      /\ pc = "create" /\ pc' = "dedupe" /\ it = 1 /\ pos = 2
  BY DEF CreateEnds, CreatedInOrder
<1>2. LibraryTypeOK' /\ CreatedInOrder' /\ Increasing'
  BY <1>1 DEF LibraryTypeOK, LibraryAt, CreatedInOrder, Increasing
<1>3. TwinsStay'
  BY <1>1 DEF TwinsStay, Elements, Alike
<1>4. Compared'
  BY <1>1, ListType DEF Compared, Deduped
<1>5. Counted' /\ Indexed'
  BY <1>1 DEF Counted, Indexed
<1>6. QED
  BY <1>2, <1>3, <1>4, <1>5
-----------------------------------------------------------------------------
LEMMA EraseEffect ==
  ASSUME IInv, ErasePage
  PROVE  /\ Len(list) \in Nat /\ Len(hash) \in Nat
         /\ it \in 1..Len(list) /\ pos \in 1..Len(list) /\ it < pos
         /\ Alike(list[it], list[pos]) /\ list[it] < list[pos]
         /\ list' \in Seq(1..Len(hash)) /\ Len(list') = Len(list) - 1
         /\ \A i \in 1..Len(list') : list'[i] = IF i < pos THEN list[i] ELSE list[i + 1]
         /\ \A i \in 1..Len(list) : i # pos => list[i] \in Elements(list')
         /\ UNCHANGED <<rss, hash, it, pos, next, df, index, byId, pc>> /\ pc = "dedupe"
<1> USE DEF IInv
<1>1. /\ Len(list) \in Nat /\ Len(hash) \in Nat
      /\ it \in 1..Len(list) /\ pos \in 1..Len(list) /\ it < pos
      /\ list' = Without(list, pos) /\ list \in Seq(1..Len(hash))
      /\ UNCHANGED <<rss, hash, it, pos, next, df, index, byId, pc>> /\ pc = "dedupe"
      /\ Alike(list[it], list[pos])
  BY ListType DEF ErasePage, Compared, LibraryTypeOK
<1>2. list[it] < list[pos]
  BY <1>1 DEF Increasing
<1>3. /\ list' \in Seq(1..Len(hash)) /\ Len(list') = Len(list) - 1
      /\ \A i \in 1..Len(list') : list'[i] = IF i < pos THEN list[i] ELSE list[i + 1]
  BY <1>1, WithoutEffect
<1>4. ASSUME NEW i \in 1..Len(list), i # pos
      PROVE  list[i] \in Elements(list')
  BY <1>1, <1>4, WithoutKeeps DEF Elements
<1>5. QED
  BY <1>1, <1>2, <1>3, <1>4

LEMMA ErasePreserves == IInv /\ ErasePage => IInv'
<1> SUFFICES ASSUME IInv, ErasePage PROVE IInv'
  OBVIOUS
<1> USE DEF IInv
<1>1. LibraryTypeOK' /\ CreatedInOrder'
  BY EraseEffect DEF LibraryTypeOK, CreatedInOrder
<1>2. Increasing'
  <2>1. ASSUME NEW i \in 1..Len(list'), NEW j \in 1..Len(list'), i < j
        PROVE  list'[i] < list'[j]
    <3> DEFINE k(m) == IF m < pos THEN m ELSE m + 1
    <3>1. k(i) \in 1..Len(list) /\ k(j) \in 1..Len(list) /\ k(i) < k(j)
      BY <2>1, EraseEffect
    <3>2. list'[i] = list[k(i)] /\ list'[j] = list[k(j)]
      BY EraseEffect
    <3>3. list[k(i)] < list[k(j)]
      BY <3>1 DEF Increasing
    <3>4. QED
      BY <3>2, <3>3
  <2>2. QED
    BY <2>1 DEF Increasing
<1>3. TwinsStay'
  <2>1. ASSUME NEW d \in 1..Len(hash)
        PROVE  d \in Elements(list')
                 \/ \E i \in 1..Len(list') : i <= it /\ list'[i] < d /\ Alike(list'[i], d)
    <3>1. CASE d \in Elements(list) /\ d # list[pos]
      BY <3>1, EraseEffect DEF Elements
    <3>2. CASE d = list[pos]
      <4>1. it \in 1..Len(list') /\ list'[it] = list[it]
        BY EraseEffect
      <4>2. QED
        BY <3>2, <4>1, EraseEffect
    <3>3. CASE d \notin Elements(list)
      <4>1. PICK i \in 1..Len(list) : i <= it /\ list[i] < d /\ Alike(list[i], d)
        BY <3>3 DEF TwinsStay
      <4>2. i \in 1..Len(list') /\ list'[i] = list[i]
        BY <4>1, EraseEffect
      <4>3. QED
        BY <4>1, <4>2
    <3>4. QED
      BY <3>1, <3>2, <3>3
  <2>2. QED
    BY <2>1, EraseEffect DEF TwinsStay, Alike
<1>4. Compared'
  <2>1. ASSUME NEW i \in 1..Len(list'), NEW j \in 1..Len(list'), i < j,
               i < it \/ (i = it /\ j < pos)
        PROVE  ~Alike(list'[i], list'[j])
    <3>1. i \in 1..Len(list) /\ list'[i] = list[i]
      BY <2>1, EraseEffect, SMTT(30)
    <3>2. CASE j < pos
      BY <2>1, <3>1, <3>2, EraseEffect DEF Compared
    <3>3. CASE ~(j < pos)
      <4>1. j + 1 \in 1..Len(list) /\ list'[j] = list[j + 1] /\ i < it
        BY <2>1, <3>3, EraseEffect
      <4>2. QED
        BY <2>1, <3>1, <4>1, EraseEffect DEF Compared
    <3>4. QED
      BY <3>2, <3>3
  <2>2. QED
    BY <2>1, EraseEffect DEF Compared, Deduped, Alike
<1>5. Counted' /\ Indexed'
  BY EraseEffect DEF Counted, Indexed
<1>6. QED
  BY <1>1, <1>2, <1>3, <1>4, <1>5

LEMMA KeepPreserves == IInv /\ (KeepPage \/ NextPage) => IInv'
<1> SUFFICES ASSUME IInv, KeepPage \/ NextPage PROVE IInv'
  OBVIOUS
<1> USE DEF IInv
<1>1. /\ UNCHANGED <<rss, hash, list, next, df, index, byId, pc>>
      /\ pc = "dedupe" /\ it < pos /\ it \in Nat \ {0} /\ pos \in Nat
      /\ it' \in Nat \ {0} /\ pos' \in Nat \ {0} /\ it <= it' /\ it' < pos'
      /\ Len(list) \in Nat
  <2>1. /\ UNCHANGED <<rss, hash, list, next, df, index, byId, pc>> /\ pc = "dedupe"
        /\ (it' = it /\ pos' = pos + 1) \/ (it' = it + 1 /\ pos' = it + 2)
    BY DEF KeepPage, NextPage
  <2>2. it \in Nat \ {0} /\ pos \in Nat \ {0} /\ Len(list) \in Nat
    BY ListType DEF LibraryTypeOK
  <2>3. it < pos
    BY <2>1 DEF Compared
  <2>4. QED
    BY <2>1, <2>2, <2>3
<1>2. LibraryTypeOK' /\ CreatedInOrder' /\ Increasing'
  BY <1>1 DEF LibraryTypeOK, CreatedInOrder, Increasing
<1>3. TwinsStay'
  BY <1>1 DEF TwinsStay, Elements, Alike
<1>4. Compared'
  <2>1. ASSUME NEW i \in 1..Len(list), NEW j \in 1..Len(list), i < j,
               i < it' \/ (i = it' /\ j < pos')
        PROVE  ~Alike(list[i], list[j])
    <3>1. CASE i < it \/ (i = it /\ j < pos)
      BY <1>1, <2>1, <3>1 DEF Compared
    <3>2. CASE KeepPage /\ i = it /\ j = pos
      BY <3>2 DEF KeepPage
    <3>3. QED
      BY <1>1, <2>1, <3>1, <3>2 DEF KeepPage, NextPage
  <2>2. QED
    BY <1>1, <2>1 DEF Compared, Deduped, Alike
<1>5. Counted' /\ Indexed'
  BY <1>1 DEF Counted, Indexed
<1>6. QED
  BY <1>2, <1>3, <1>4, <1>5
-----------------------------------------------------------------------------
LEMMA DedupeEndsPreserves == IInv /\ DedupeEnds => IInv'
<1> SUFFICES ASSUME IInv, DedupeEnds PROVE IInv'
  OBVIOUS
<1> USE DEF IInv
<1>1. /\ UNCHANGED <<rss, hash, list, it, pos, df, index, byId>>
      /\ pc = "dedupe" /\ pc' = "cut" /\ next' = 1 /\ it > Len(list)
      /\ Len(list) \in Nat /\ it \in Nat
  BY ListType DEF DedupeEnds
<1>2. LibraryTypeOK' /\ CreatedInOrder' /\ Increasing'
  BY <1>1 DEF LibraryTypeOK, LibraryAt, CreatedInOrder, Increasing
<1>3. TwinsStay'
  BY <1>1 DEF TwinsStay, Elements, Alike
<1>4. Compared'
  BY <1>1 DEF Compared, Deduped, Alike
<1>5. Counted'
  BY <1>1, <1>2, ListedNone, FS_EmptySet DEF Counted, Listed, WordsOf
<1>6. Indexed'
  BY <1>1 DEF Indexed
<1>7. QED
  BY <1>2, <1>3, <1>4, <1>5, <1>6

LEMMA CutPreserves == IInv /\ CutPage => IInv'
<1> SUFFICES ASSUME IInv, CutPage PROVE IInv'
  OBVIOUS
<1> USE DEF IInv
<1>1. /\ UNCHANGED <<rss, hash, list, it, pos, index, byId, pc>>
      /\ pc = "cut" /\ next' = next + 1 /\ next \in 1..Len(list) /\ Len(list) \in Nat
      /\ df' = [w \in Words |-> IF w \in WordsOf(list[next]) THEN df[w] + 1 ELSE df[w]]
  BY ListType DEF CutPage, LibraryTypeOK
<1>2. LibraryTypeOK'
  <2>1. df' \in [Words -> Nat]
    BY <1>1 DEF LibraryTypeOK
  <2>2. QED
    BY <1>1, <2>1 DEF LibraryTypeOK
<1>3. CreatedInOrder' /\ Increasing' /\ TwinsStay' /\ Compared'
  BY <1>1 DEF CreatedInOrder, Increasing, TwinsStay, Elements, Compared, Deduped, Alike
<1>4. Counted'
  <2>1. ASSUME NEW w \in Words
        PROVE  df'[w] = Cardinality(Listed(w, next + 1))
    <3>1. df[w] = Cardinality(Listed(w, next)) /\ df[w] \in Nat
      BY <1>1 DEF Counted, LibraryTypeOK
    <3>2. CASE w \in WordsOf(list[next])
      <4>1. Listed(w, next + 1) = Listed(w, next) \cup {list[next]}
            /\ list[next] \notin Listed(w, next)
        BY <1>1, <3>2, ListedNext
      <4>2. Cardinality(Listed(w, next) \cup {list[next]}) = Cardinality(Listed(w, next)) + 1
        BY <4>1, ListedFinite, FS_AddElement
      <4>3. QED
        BY <1>1, <3>1, <3>2, <4>1, <4>2
    <3>3. CASE w \notin WordsOf(list[next])
      BY <1>1, <3>1, <3>3, ListedNext
    <3>4. QED
      BY <3>2, <3>3
  <2>2. \A w \in Words : df'[w] = Cardinality(Listed(w, next)')
    BY <1>1, <2>1 DEF Listed, WordsOf
  <2>3. QED
    BY <1>1, <2>2 DEF Counted
<1>5. Indexed'
  BY <1>1 DEF Indexed
<1>6. QED
  BY <1>2, <1>3, <1>4, <1>5

LEMMA CutEndsPreserves == IInv /\ CutEnds => IInv'
<1> SUFFICES ASSUME IInv, CutEnds PROVE IInv'
  OBVIOUS
<1> USE DEF IInv
<1>1. /\ UNCHANGED <<rss, hash, list, it, pos, df, index, byId>>
      /\ pc = "cut" /\ pc' = "build" /\ next' = 1
      /\ next = Len(list) + 1 /\ Len(list) \in Nat
  BY ListType DEF CutEnds, Indexed
<1>2. LibraryTypeOK' /\ CreatedInOrder' /\ Increasing' /\ TwinsStay' /\ Compared'
  <2>1. LibraryTypeOK' /\ CreatedInOrder'
    BY <1>1 DEF LibraryTypeOK, LibraryAt, CreatedInOrder
  <2>2. Increasing' /\ TwinsStay'
    BY <1>1 DEF Increasing, TwinsStay, Elements, Alike
  <2>3. Compared'
    BY <1>1 DEF Compared, Deduped, Alike
  <2>4. QED
    BY <2>1, <2>2, <2>3
<1>3. Counted'
  BY <1>1 DEF Counted, Listed, WordsOf
<1>4. Indexed'
  <2>1. \A w \in Words : index[w] = {}
    BY <1>1 DEF Indexed
  <2>2. \A w \in Words : Listed(w, 1)' = {}
    BY <1>1, <1>2, ListedNone DEF Listed, WordsOf
  <2>3. QED
    BY <1>1, <2>1, <2>2 DEF Indexed, Listed, WordsOf
<1>5. QED
  BY <1>2, <1>3, <1>4

LEMMA IndexPreserves == IInv /\ IndexPage => IInv'
<1> SUFFICES ASSUME IInv, IndexPage PROVE IInv'
  OBVIOUS
<1> USE DEF IInv
<1>1. /\ UNCHANGED <<rss, hash, list, it, pos, df, byId, pc>>
      /\ pc = "build" /\ next' = next + 1 /\ next \in 1..Len(list) /\ Len(list) \in Nat
      /\ index' = [w \in Words |-> IF w \in WordsOf(list[next])
                                   THEN index[w] \cup {list[next]} ELSE index[w]]
      /\ list[next] \in 1..Len(hash)
  BY ListType DEF IndexPage, LibraryTypeOK
<1>2. LibraryTypeOK'
  <2>1. index' \in [Words -> SUBSET (1..Len(hash))]
    BY <1>1 DEF LibraryTypeOK
  <2>2. QED
    BY <1>1, <2>1 DEF LibraryTypeOK
<1>3. CreatedInOrder' /\ Increasing' /\ TwinsStay' /\ Compared'
  BY <1>1, SMTT(30) DEF CreatedInOrder, Increasing, TwinsStay, Elements, Compared, Deduped, Alike
<1>4. Counted'
  BY <1>1 DEF Counted, Listed, WordsOf
<1>5. Indexed'
  <2>1. \A w \in Words : index'[w] = Listed(w, next + 1)
    BY <1>1, ListedNext DEF Indexed
  <2>2. \A w \in Words : index'[w] = Listed(w, next)'
    BY <1>1, <2>1 DEF Listed, WordsOf
  <2>3. next' <= Len(list') + 1 /\ pc' = "build"
    BY <1>1
  <2>4. QED
    BY <2>2, <2>3 DEF Indexed
<1>6. QED
  BY <1>2, <1>3, <1>4, <1>5

LEMMA IndexEndsPreserves == IInv /\ IndexEnds => IInv'
<1> SUFFICES ASSUME IInv, IndexEnds PROVE IInv'
  OBVIOUS
<1> USE DEF IInv
<1>1. /\ UNCHANGED <<rss, hash, list, it, pos, next, df, index>>
      /\ pc = "build" /\ pc' = "ready" /\ byId' = Elements(list)
      /\ next = Len(list) + 1 /\ Len(list) \in Nat
  BY ListType DEF IndexEnds, Indexed
<1>2. LibraryTypeOK'
  BY <1>1, ListType DEF LibraryTypeOK, LibraryAt, Elements
<1>3. CreatedInOrder' /\ Increasing' /\ TwinsStay' /\ Compared'
  BY <1>1 DEF CreatedInOrder, Increasing, TwinsStay, Elements, Compared, Deduped, Alike
<1>4. Counted' /\ Indexed'
  BY <1>1 DEF Counted, Indexed, Listed, WordsOf, Elements
<1>5. QED
  BY <1>2, <1>3, <1>4

LEMMA StutterPreserves == IInv /\ UNCHANGED libraryVars => IInv'
<1> SUFFICES ASSUME IInv, UNCHANGED libraryVars PROVE IInv'
  OBVIOUS
<1> USE DEF IInv, libraryVars
<1>1. LibraryTypeOK' /\ CreatedInOrder' /\ Increasing'
  BY DEF LibraryTypeOK, CreatedInOrder, Increasing
<1>2. TwinsStay' /\ Compared'
  BY DEF TwinsStay, Compared, Deduped, Elements, Alike
<1>3. Counted'
  BY DEF Counted, Listed, WordsOf
<1>4. Indexed'
  BY DEF Indexed, Listed, WordsOf, Elements
<1>5. QED
  BY <1>1, <1>2, <1>3, <1>4
-----------------------------------------------------------------------------
THEOREM Invariance == LibrarySpec => []IInv
<1>1. IInv /\ [LibraryStep]_libraryVars => IInv'
  BY LoadPreserves, CreatePreserves, CreateEndsPreserves, ErasePreserves,
     KeepPreserves, DedupeEndsPreserves, CutPreserves, CutEndsPreserves,
     IndexPreserves, IndexEndsPreserves, StutterPreserves DEF LibraryStep
<1>2. QED
  BY <1>1, InitEstablishes, PTL DEF LibrarySpec

(* The library's variables keep their types.                                *)
THEOREM LibraryTypeCorrect == LibrarySpec => []LibraryTypeOK
<1>1. IInv => LibraryTypeOK
  BY DEF IInv
<1>2. QED
  BY <1>1, Invariance, PTL

(* RmRedundantPages leaves no two pages with close simhash values.          *)
THEOREM KeptAreDistinctAlways == LibrarySpec => []KeptAreDistinct
<1>1. IInv => KeptAreDistinct
  BY DEF IInv, Increasing, Compared, KeptAreDistinct
<1>2. QED
  BY <1>1, Invariance, PTL

(* RmRedundantPages removes a page only for one that stays.                 *)
THEOREM RemovedHaveTwinsAlways == LibrarySpec => []RemovedHaveTwins
<1>1. IInv => RemovedHaveTwins
  BY DEF IInv, TwinsStay, RemovedHaveTwins, Elements
<1>2. QED
  BY <1>1, Invariance, PTL

(* A word's entry in the inverted index is the set of the pages kept that   *)
(* contain it, and each of them is in the map by doc id.                    *)
THEOREM IndexMatchesLibraryAlways == LibrarySpec => []IndexMatchesLibrary
<1>1. ASSUME IInv PROVE IndexMatchesLibrary
  <2>1. ASSUME NEW w PROVE Listed(w, Len(list) + 1) = {d \in Elements(list) : w \in WordsOf(d)}
    BY <1>1, ListType DEF IInv, Listed, Elements
  <2>2. QED
    BY <1>1, <2>1 DEF IInv, Indexed, IndexMatchesLibrary
<1>2. QED
  BY <1>1, Invariance, PTL

(* A word's document frequency is the number of pages under it.             *)
THEOREM FrequenciesMatchIndexAlways == LibrarySpec => []FrequenciesMatchIndex
<1>1. IInv => FrequenciesMatchIndex
  BY DEF IInv, Indexed, Counted, FrequenciesMatchIndex
<1>2. QED
  BY <1>1, Invariance, PTL
-----------------------------------------------------------------------------
(* Induction for a set of naturals.                                         *)
LEMMA NaturalsReached ==
  ASSUME NEW S, 0 \in S, \A n \in Nat : n \in S => n + 1 \in S
  PROVE  Nat \subseteq S
<1> DEFINE T == Nat \ S
<1> SUFFICES ASSUME T # {} PROVE FALSE
  OBVIOUS
<1>1. \E x \in T : \A y \in T : ~(<<y, x>> \in OpToRel(<, Nat))
  BY WFMin, NatLessThanWellFounded
<1>2. PICK x \in T : \A y \in T : ~(y < x)
  BY <1>1 DEF OpToRel
<1>3. x # 0
  OBVIOUS
<1>4. x - 1 \in Nat /\ x - 1 < x /\ (x - 1) + 1 = x
  BY <1>3
<1>5. x - 1 \in S
  BY <1>2, <1>4
<1>6. QED
  BY <1>4, <1>5

(* The equation of Written, up to its m-th page.                            *)
Grown(text, id) == text \o Text(id)
Rule(w, ids, m) ==
  w = [k \in 0..m |-> IF k = 0 THEN <<>> ELSE Grown(w[k - 1], ids[k])]

LEMMA RuleMeans ==
  ASSUME NEW w, NEW ids, NEW m \in Nat
  PROVE  Rule(w, ids, m) <=> /\ w = [k \in 0..m |-> w[k]] /\ w[0] = <<>>
                             /\ \A k \in 1..m : w[k] = Grown(w[k - 1], ids[k])
<1> DEFINE r == [k \in 0..m |-> IF k = 0 THEN <<>> ELSE Grown(w[k - 1], ids[k])]
<1>1. ASSUME w = r
      PROVE  /\ w = [k \in 0..m |-> w[k]] /\ w[0] = <<>>
             /\ \A k \in 1..m : w[k] = Grown(w[k - 1], ids[k])
  <2>1. PICK q : q = r
    OBVIOUS
  <2>2. /\ q = [k \in 0..m |-> q[k]] /\ q[0] = <<>>
        /\ \A k \in 1..m : q[k] = Grown(w[k - 1], ids[k])
    BY <2>1
  <2> HIDE DEF r
  <2>3. QED
    BY <1>1, <2>1, <2>2
<1>2. ASSUME w = [k \in 0..m |-> w[k]], w[0] = <<>>,
             \A k \in 1..m : w[k] = Grown(w[k - 1], ids[k])
      PROVE  w = r
  <2>1. ASSUME NEW k \in 0..m PROVE w[k] = r[k]
    <3>1. CASE k = 0
      BY <1>2, <3>1
    <3>2. CASE k \in 1..m
      <4>1. w[k] = Grown(w[k - 1], ids[k])
        BY <1>2, <3>2
      <4>2. r[k] = Grown(w[k - 1], ids[k])
        BY <3>2
      <4>3. QED
        BY <4>1, <4>2
    <3>3. QED
      BY <3>1, <3>2
  <2>2. r = [k \in 0..m |-> r[k]]
    OBVIOUS
  <2> HIDE DEF r
  <2>3. [k \in 0..m |-> w[k]] = [k \in 0..m |-> r[k]]
    BY <2>1
  <2>4. QED
    BY <1>2, <2>2, <2>3
<1>3. QED
  BY <1>1, <1>2 DEF Rule

LEMMA WrittenExists ==
  ASSUME NEW ids, NEW n \in Nat
  PROVE  \E w : Rule(w, ids, n)
<1> DEFINE S == {m \in Nat : \E w : Rule(w, ids, m)}
<1>1. 0 \in S
  <2>1. PICK w : w = [k \in 0..0 |-> <<>>]
    OBVIOUS
  <2>2. Rule(w, ids, 0)
    <3>1. w = [k \in 0..0 |-> w[k]] /\ w[0] = <<>> /\ 1..0 = {}
      BY <2>1
    <3>2. QED
      BY <3>1, RuleMeans
  <2>3. QED
    BY <2>2
<1>2. ASSUME NEW m \in Nat, m \in S PROVE m + 1 \in S
  <2>1. PICK w : Rule(w, ids, m)
    BY <1>2
  <2>2. /\ w[0] = <<>>
        /\ \A k \in 1..m : w[k] = Grown(w[k - 1], ids[k])
    BY <2>1, RuleMeans
  <2>3. PICK g : g = Grown(w[m], ids[m + 1])
    OBVIOUS
  <2>4. PICK v : v = [k \in 0..(m + 1) |-> IF k = m + 1 THEN g ELSE w[k]]
    OBVIOUS
  <2>5. /\ v = [k \in 0..(m + 1) |-> v[k]] /\ v[m + 1] = g
        /\ \A k \in 0..m : v[k] = w[k]
    BY <2>4
  <2>6. ASSUME NEW k \in 1..(m + 1) PROVE v[k] = Grown(v[k - 1], ids[k])
    <3>1. CASE k \in 1..m
      <4>1. k \in 0..m /\ k - 1 \in 0..m
        BY <3>1
      <4>2. QED
        BY <2>2, <2>5, <3>1, <4>1
    <3>2. CASE k = m + 1
      <4>1. k - 1 = m /\ m \in 0..m
        BY <3>2
      <4>2. QED
        BY <2>3, <2>5, <3>2, <4>1
    <3>3. QED
      BY <3>1, <3>2
  <2>7. v[0] = <<>>
    BY <2>2, <2>5
  <2>8. Rule(v, ids, m + 1)
    BY <2>5, <2>6, <2>7, RuleMeans
  <2>9. QED
    BY <2>8
<1>3. QED
  BY <1>1, <1>2, NaturalsReached

LEMMA WrittenRule ==
  ASSUME NEW ids, Len(ids) \in Nat
  PROVE  /\ Written(ids)[0] = <<>>
         /\ \A k \in 1..Len(ids) :
              Written(ids)[k] = Grown(Written(ids)[k - 1], ids[k])
<1>1. Rule(Written(ids), ids, Len(ids))
  BY WrittenExists DEF Written, Rule, Grown
<1>2. QED
  BY <1>1, RuleMeans
-----------------------------------------------------------------------------
Sized(id) == id \in Nat /\ rss[id].size \in Nat \ {0}

LEMMA GrownEffect ==
  ASSUME NEW s \in Seq(Nat), NEW id, Sized(id)
  PROVE  /\ Text(id) \in Seq(Nat) /\ Len(Text(id)) = rss[id].size
         /\ Grown(s, id) \in Seq(Nat) /\ Len(Grown(s, id)) = Len(s) + rss[id].size
<1>1. Text(id) \in Seq(Nat) /\ Len(Text(id)) = rss[id].size
  BY DEF Text, Sized
<1>2. QED
  BY <1>1, ConcatProperties, SMTT(30) DEF Grown

(* What is appended to a file moves no text in it, and is itself at the end *)
(* of what was there.                                                       *)
LEMMA LocatedStays ==
  ASSUME NEW s \in Seq(Nat), NEW c, Sized(c), NEW id, Sized(id),
         NEW offset \in Nat, LocatesIn(s, id, offset, rss[id].size)
  PROVE  LocatesIn(Grown(s, c), id, offset, rss[id].size)
<1>1. PICK n \in Nat \ {0} : n = rss[id].size
  BY DEF Sized
<1>2. PICK t : t = Text(c) /\ t \in Seq(Nat)
  BY GrownEffect
<1>3. offset + n <= Len(s)
  BY <1>1 DEF LocatesIn
<1>4. SubSeq(s, offset + 1, offset + n) = Text(id)
  BY <1>1 DEF LocatesIn
<1>5. PICK first \in 1..Len(s), last \in 1..Len(s) : first = offset + 1 /\ last = offset + n
  BY <1>3
<1>6. SubSeq(s \o t, first, last) = SubSeq(s, first, last)
  BY <1>2, SubSeqOfConcat1
<1>7. PICK z \in Nat : z = rss[c].size
  BY DEF Sized
<1>8. offset + n <= Len(Grown(s, c))
  <2>1. Len(Grown(s, c)) = Len(s) + z
    BY <1>7, GrownEffect
  <2>2. QED
    BY <1>3, <2>1
<1>9. QED
  BY <1>1, <1>2, <1>4, <1>5, <1>6, <1>8 DEF LocatesIn, Grown

LEMMA LocatedLast ==
  ASSUME NEW s \in Seq(Nat), NEW id, Sized(id)
  PROVE  LocatesIn(Grown(s, id), id, Len(s), rss[id].size)
<1>1. PICK n \in Nat \ {0} : n = rss[id].size
  BY DEF Sized
<1>2. PICK t : t = Text(id) /\ t \in Seq(Nat) /\ Len(t) = n
  BY <1>1, GrownEffect
<1>3. PICK m \in Nat : m = Len(s)
  OBVIOUS
<1>4. PICK first, last : /\ first = m + 1 /\ last = m + n
                         /\ first \in (m + 1)..(m + n) /\ last \in (m + 1)..(m + n)
                         /\ first - m = 1 /\ last - m = n
  OBVIOUS
<1>5. SubSeq(s \o t, first, last) = SubSeq(t, first - m, last - m)
  <2>1. first \in Len(s) + 1..Len(s) + Len(t) /\ last \in Len(s) + 1..Len(s) + Len(t)
    BY <1>2, <1>3, <1>4
  <2>2. SubSeq(s \o t, first, last) = SubSeq(t, first - Len(s), last - Len(s))
    BY <1>2, <2>1, SubSeqOfConcat2
  <2>3. QED
    BY <1>3, <2>2
<1>6. SubSeq(t, 1, n) = t
  BY <1>2, SubSeqFull
<1>7. Len(Grown(s, id)) = m + n
  BY <1>1, <1>3, GrownEffect
<1>8. SubSeq(Grown(s, id), m + 1, m + n) = t
  BY <1>2, <1>4, <1>5, <1>6 DEF Grown
<1>9. QED
  BY <1>1, <1>2, <1>3, <1>7, <1>8 DEF LocatesIn

(* The k-th page is in the file at the offset that the first k - 1 have     *)
(* brought about.                                                           *)
LEMMA WrittenLocates ==
  ASSUME NEW ids, Len(ids) \in Nat, \A k \in 1..Len(ids) : Sized(ids[k])
  PROVE  \A k \in 1..Len(ids) :
           LocatesIn(Written(ids)[Len(ids)], ids[k], Offset(ids, k - 1), rss[ids[k]].size)
<1>1. PICK w : w = Written(ids)
  OBVIOUS
<1>2. /\ w[0] = <<>>
      /\ \A k \in 1..Len(ids) : w[k] = Grown(w[k - 1], ids[k])
  BY <1>1, WrittenRule
<1> DEFINE Here(m, k) == /\ Len(w[k - 1]) \in Nat
                         /\ LocatesIn(w[m], ids[k], Len(w[k - 1]), rss[ids[k]].size)
           Good(m) == w[m] \in Seq(Nat) /\ \A k \in 1..m : Here(m, k)
           S == {m \in Nat : m <= Len(ids) => Good(m)}
<1>3. 0 \in S
  <2>1. Good(0)
    BY <1>2
  <2> HIDE DEF Good
  <2>2. QED
    BY <2>1
<1>4. ASSUME NEW m \in Nat, m \in S PROVE m + 1 \in S
  <2> SUFFICES ASSUME m + 1 <= Len(ids) PROVE Good(m + 1)
    BY DEF S
  <2>1. PICK id : id = ids[m + 1] /\ Sized(id)
    OBVIOUS
  <2>2. w[m] \in Seq(Nat) /\ (\A k \in 1..m : Here(m, k)) /\ Len(w[m]) \in Nat
    BY <1>4
  <2>3. m + 1 \in 1..Len(ids) /\ (m + 1) - 1 = m
    OBVIOUS
  <2>4. w[m + 1] = Grown(w[m], id)
    BY <1>2, <2>1, <2>3
  <2>5. w[m + 1] \in Seq(Nat)
    BY <2>1, <2>2, <2>4, GrownEffect
  <2>6. ASSUME NEW k \in 1..m PROVE Here(m + 1, k)
    <3>1. Here(m, k) /\ Sized(ids[k])
      BY <2>2
    <3>2. QED
      BY <2>1, <2>2, <2>4, <3>1, LocatedStays
  <2>7. Here(m + 1, m + 1)
    BY <2>1, <2>2, <2>3, <2>4, LocatedLast
  <2>8. \A k \in 1..(m + 1) : k \in 1..m \/ k = m + 1
    OBVIOUS
  <2> HIDE DEF Here
  <2>9. QED
    BY <2>5, <2>6, <2>7, <2>8
<1> HIDE DEF Good
<1>5. Len(ids) \in S
  <2> HIDE DEF S
  <2>1. QED
    BY <1>3, <1>4, NaturalsReached
<1>6. Good(Len(ids))
  BY <1>5
<1>7. QED
  BY <1>1, <1>6 DEF Offset, Good
-----------------------------------------------------------------------------
LEMMA PagesSized ==
  ASSUME IInv
  PROVE  /\ Len(rss) \in Nat /\ Len(list) \in Nat
         /\ \A i \in 1..Len(rss) : Sized(i)
         /\ \A k \in 1..Len(list) : Sized(list[k])
<1>1. /\ rss \in Seq(Items \cup {Blank}) /\ list \in Seq(1..Len(hash))
      /\ Len(hash) \in Nat /\ Len(hash) <= Len(rss)
  BY DEF IInv, LibraryTypeOK
<1>2. \A i \in Items \cup {Blank} : i.size \in Nat \ {0}
  BY LibraryAssumption DEF Blank
<1>3. \A i \in 1..Len(rss) : Sized(i)
  BY <1>1, <1>2 DEF Sized
<1>4. \A k \in 1..Len(list) : list[k] \in 1..Len(rss)
  BY <1>1
<1>5. QED
  BY <1>1, <1>3, <1>4

(* The files are written when _rss, and the second ones when the list, does *)
(* not change any more.                                                     *)
StoreInv ==
  /\ records # <<>> => pc \notin {"load", "crashed"}
  /\ newRecords # <<>> => pc = "ready"
  /\ RecordsLocatePages /\ NewOffsetsLocatePages

LEMMA StoreInvInit == PipelineInit => StoreInv
BY DEF PipelineInit, StoreInv, RecordsLocatePages, NewOffsetsLocatePages

LEMMA SameRecords ==
  ASSUME StoreInv, IInv, \/ records' = <<>> \/ UNCHANGED <<rss, file, records>>
  PROVE  RecordsLocatePages'
<1>1. CASE records' = <<>>
  BY <1>1 DEF RecordsLocatePages
<1>2. CASE UNCHANGED <<rss, file, records>>
  BY <1>2 DEF StoreInv, RecordsLocatePages, LocatesIn, Text
<1>3. QED
  BY <1>1, <1>2

LEMMA SameNewRecords ==
  ASSUME StoreInv, \/ newRecords' = <<>> \/ UNCHANGED <<rss, list, newFile, newRecords>>
  PROVE  NewOffsetsLocatePages'
<1>1. CASE newRecords' = <<>>
  BY <1>1 DEF NewOffsetsLocatePages
<1>2. CASE UNCHANGED <<rss, list, newFile, newRecords>>
  BY <1>2 DEF StoreInv, NewOffsetsLocatePages, LocatesIn, Text
<1>3. QED
  BY <1>1, <1>2

LEMMA LibraryStores ==
  ASSUME IInv, StoreInv, LibraryStep, UNCHANGED storeVars PROVE StoreInv'
<1>1. UNCHANGED <<file, records, newFile, newRecords>>
  BY DEF storeVars
<1>2. CASE pc = "load"
  <2>1. records = <<>> /\ newRecords = <<>>
    BY <1>2 DEF StoreInv
  <2>2. QED
    BY <1>1, <2>1, SameRecords, SameNewRecords DEF StoreInv
<1>3. CASE pc # "load"
  <2>1. /\ UNCHANGED rss /\ pc # "crashed" /\ pc # "ready"
        /\ pc' \notin {"load", "crashed"}
    BY <1>3 DEF LibraryStep, LoadItem, LoadFails, LoadEnds, CreatePage, CreateEnds,
                ErasePage, KeepPage, NextPage, DedupeEnds, CutPage, CutEnds, IndexPage,
                IndexEnds
  <2>2. newRecords = <<>>
    BY <2>1 DEF StoreInv
  <2>3. QED
    BY <1>1, <2>1, <2>2, SameRecords, SameNewRecords DEF StoreInv
<1>4. QED
  BY <1>2, <1>3

LEMMA StoreLibraryStores == IInv /\ StoreInv /\ StoreLibrary => StoreInv'
<1> SUFFICES ASSUME IInv, StoreInv, StoreLibrary PROVE StoreInv'
  OBVIOUS
<1>1. /\ UNCHANGED <<rss, hash, list, pc, newFile, newRecords>>
      /\ pc \notin {"load", "crashed"}
      /\ file' = Written(RipeIds)[Len(rss)] /\ records' = Records(RipeIds)
  BY DEF StoreLibrary, libraryVars
<1>2. PICK n \in Nat : n = Len(rss) /\ \A i \in 1..n : Sized(i)
  BY PagesSized
<1>3. PICK ids : ids = RipeIds
  OBVIOUS
<1>4. Len(ids) = n /\ \A k \in 1..n : ids[k] = k
  BY <1>2, <1>3 DEF RipeIds
<1>5. PICK w : w = Written(ids)[n]
  OBVIOUS
<1>6. \A k \in 1..n : LocatesIn(w, ids[k], Offset(ids, k - 1), rss[ids[k]].size)
  <2>1. \A k \in 1..Len(ids) : Sized(ids[k])
    BY <1>2, <1>4
  <2>2. QED
    BY <1>4, <1>5, <2>1, WrittenLocates
<1>7. PICK r : r = Records(ids)
  OBVIOUS
<1>8. /\ Len(r) = n
      /\ \A k \in 1..n : r[k] = Record(ids[k], Offset(ids, k - 1), rss[ids[k]].size)
  BY <1>4, <1>7 DEF Records
<1>9. \A k \in 1..n : /\ r[k].id = k
                      /\ LocatesIn(w, r[k].id, r[k].offset, r[k].size)
  BY <1>4, <1>6, <1>8 DEF Record
<1>10. {r[k].id : k \in 1..n} = 1..n
  BY <1>9
<1>11. records' = r /\ file' = w
  BY <1>1, <1>2, <1>3, <1>5, <1>7
<1>12. \A k \in 1..n : LocatesIn(file, r[k].id, r[k].offset, r[k].size)'
  BY <1>1, <1>9, <1>11 DEF LocatesIn, Text
<1>13. RecordsLocatePages'
  BY <1>1, <1>2, <1>8, <1>10, <1>11, <1>12 DEF RecordsLocatePages
<1>14. NewOffsetsLocatePages'
  BY <1>1, SameNewRecords
<1>15. QED
  BY <1>1, <1>13, <1>14 DEF StoreInv

LEMMA StoreNewLibraryStores == IInv /\ StoreInv /\ StoreNewLibrary => StoreInv'
<1> SUFFICES ASSUME IInv, StoreInv, StoreNewLibrary PROVE StoreInv'
  OBVIOUS
<1>1. /\ UNCHANGED <<rss, hash, list, pc, file, records>> /\ pc = "ready"
      /\ newFile' = Written(list)[Len(list)]
  BY DEF StoreNewLibrary, libraryVars
<1>2. PICK size : newRecords' =
        [k \in 1..Len(list) |-> Record(list[k], Offset(list, k - 1), size[k])]
  BY DEF StoreNewLibrary
<1>3. PICK n \in Nat : n = Len(list) /\ \A k \in 1..n : Sized(list[k])
  BY PagesSized
<1>4. PICK w : w = Written(list)[n]
  OBVIOUS
<1>5. \A k \in 1..n : LocatesIn(w, list[k], Offset(list, k - 1), rss[list[k]].size)
  BY <1>3, <1>4, WrittenLocates
<1>6. PICK r : r = newRecords'
  OBVIOUS
<1>7. /\ Len(r) = n
      /\ \A k \in 1..n : r[k] = Record(list[k], Offset(list, k - 1), size[k])
  BY <1>2, <1>3, <1>6
<1>8. \A k \in 1..n : r[k].id = list[k] /\ LocatesIn(w, list[k], r[k].offset, rss[list[k]].size)
  BY <1>5, <1>7 DEF Record
<1>9. [k \in 1..n |-> r[k].id] = list
  <2>1. list = [k \in 1..n |-> list[k]]
    BY <1>3 DEF IInv, LibraryTypeOK
  <2>2. QED
    BY <1>8, <2>1
<1>10. newFile' = w /\ newRecords' = r
  BY <1>1, <1>3, <1>4, <1>6
<1>11. \A k \in 1..n : LocatesIn(newFile, list[k], r[k].offset, rss[list[k]].size)'
  BY <1>1, <1>8, <1>10 DEF LocatesIn, Text
<1>12. NewOffsetsLocatePages'
  BY <1>1, <1>7, <1>9, <1>10, <1>11 DEF NewOffsetsLocatePages
<1>13. RecordsLocatePages'
  BY <1>1, SameRecords
<1>14. QED
  BY <1>1, <1>12, <1>13 DEF StoreInv

(* What PageLibrary promises holds while its pages are stored.              *)
THEOREM StoringImplementsLibrary == PipelineSpec => LibrarySpec
<1>1. PipelineInit => LibraryInit
  BY DEF PipelineInit
<1>2. [PipelineNext]_pipelineVars => [LibraryStep]_libraryVars
  BY DEF PipelineNext, pipelineVars, StoreLibrary, StoreNewLibrary
<1>3. QED
  BY <1>1, <1>2, PTL DEF PipelineSpec, LibrarySpec

(* An offset stored on disk, by PageLib or by PageLibPreprocessor, is where *)
(* the text of its page is, for any number of pages of any size.            *)
THEOREM OffsetsAlwaysLocatePages == PipelineSpec => []OffsetsLocatePages
<1>1. IInv /\ StoreInv /\ [PipelineNext]_pipelineVars => StoreInv'
  <2> SUFFICES ASSUME IInv, StoreInv, [PipelineNext]_pipelineVars PROVE StoreInv'
    OBVIOUS
  <2>1. CASE UNCHANGED pipelineVars
    <3>1. UNCHANGED <<rss, list, pc, file, records, newFile, newRecords>>
      BY <2>1 DEF pipelineVars, libraryVars, storeVars
    <3>2. QED
      BY <3>1, SameRecords, SameNewRecords DEF StoreInv
  <2>2. QED
    BY <2>1, LibraryStores, StoreLibraryStores, StoreNewLibraryStores DEF PipelineNext
<1>2. StoreInv => OffsetsLocatePages
  BY DEF StoreInv, OffsetsLocatePages
<1>3. QED
  BY <1>1, <1>2, StoreInvInit, StoringImplementsLibrary, Invariance, PTL DEF PipelineSpec
=============================================================================
