------------------------- MODULE WebPageQuery_proofs -------------------------
(***************************************************************************)
(* GetRelativePages finds exactly the pages that contain every word asked  *)
(* for, whatever the library and the query.  A page's count of hits is the *)
(* number of words looked up so far that it is under, by PageLibrary's     *)
(* IndexMatchesLibrary; it reaches the number of words only with all.      *)
(* Of PageStore_proofs only what is about the library is used.             *)
(***************************************************************************)
EXTENDS WebPageQuery, PageStore_proofs

Under(d) == {w \in Asked \ left : d \in index[w]}

QueryInv ==
  /\ qpc # "none" => pc = "ready"
  /\ query \in [Words -> Nat]
  /\ left \subseteq Asked
  /\ qpc = "lookup" =>
       /\ hits \in [byId -> Nat]
       /\ \A d \in byId : hits[d] = Cardinality(Under(d))
  /\ qpc \in {"none", "lookup"} => answer = <<>> /\ relative = {}
  /\ qpc = "noAnswer" => Found = {}
  /\ answer \in Seq(Nat)
  /\ qpc \in {"order", "answered"} =>
       Found # {} /\ relative \subseteq Found /\ Elements(answer) \subseteq Found
-----------------------------------------------------------------------------
LEMMA ReadyLibrary ==
  ASSUME IInv, pc = "ready"
  PROVE  /\ byId = Elements(list) /\ byId \subseteq Nat
         /\ \A w \in Words : index[w] = {d \in byId : w \in WordsOf(d)}
<1>1. IndexMatchesLibrary
  <2>1. ASSUME NEW w PROVE Listed(w, Len(list) + 1) = {d \in Elements(list) : w \in WordsOf(d)}
    BY ListType DEF IInv, Listed, Elements
  <2>2. QED
    BY <2>1 DEF IInv, Indexed, IndexMatchesLibrary
<1>2. byId \subseteq Nat
  BY DEF IInv, LibraryTypeOK
<1>3. QED
  BY <1>1, <1>2 DEF IndexMatchesLibrary

(* A library that is ready does not change any more.                        *)
LEMMA ReadyStays == pc = "ready" => ~LibraryStep
BY DEF LibraryStep, LoadItem, LoadFails, LoadEnds, CreatePage, CreateEnds, ErasePage,
       KeepPage, NextPage, DedupeEnds, CutPage, CutEnds, IndexPage, IndexEnds

LEMMA UnderFinite ==
  ASSUME NEW d
  PROVE  /\ IsFiniteSet(Asked) /\ Cardinality(Asked) \in Nat
         /\ IsFiniteSet(Under(d)) /\ Cardinality(Under(d)) \in Nat
         /\ Under(d) \subseteq Asked
<1>1. Asked \subseteq Words /\ Under(d) \subseteq Asked
  BY DEF Asked, Under
<1>2. QED
  BY <1>1, QueryAssumption, FS_Subset, FS_CardinalityType

(* When every word has been looked up, the pages with as many hits as words *)
(* are the pages that contain every word.                                   *)
LEMMA CollectedIsFound ==
  ASSUME IInv, QueryInv, qpc = "lookup", left = {}
  PROVE  FoundIn(Cardinality(Asked)) = Found
<1>1. /\ byId = Elements(list) /\ hits \in [byId -> Nat]
      /\ \A d \in byId : hits[d] = Cardinality(Under(d))
      /\ \A w \in Words : index[w] = {d \in byId : w \in WordsOf(d)}
  BY ReadyLibrary DEF QueryInv
<1>2. ASSUME NEW d \in byId
      PROVE  Under(d) = Asked <=> Asked \subseteq WordsOf(d)
  BY <1>1, <1>2 DEF Under, Asked
<1>3. ASSUME NEW d \in byId
      PROVE  Cardinality(Under(d)) = Cardinality(Asked) <=> Under(d) = Asked
  BY UnderFinite, FS_Subset
<1>4. Cardinality(Asked) > 0 <=> Asked # {}
  BY UnderFinite, FS_EmptySet
<1>5. ASSUME NEW d \in byId
      PROVE  d \in FoundIn(Cardinality(Asked)) <=> d \in Found
  <2>1. d \in FoundIn(Cardinality(Asked))
          <=> Cardinality(Under(d)) > 0 /\ Cardinality(Under(d)) = Cardinality(Asked)
    BY <1>1, <1>5 DEF FoundIn
  <2>2. d \in Found <=> Asked # {} /\ Asked \subseteq WordsOf(d)
    BY <1>1, <1>5 DEF Found
  <2>3. QED
    BY <2>1, <2>2, <1>2, <1>3, <1>4, <1>5
<1>6. FoundIn(Cardinality(Asked)) \subseteq byId /\ Found \subseteq byId
  BY <1>1 DEF FoundIn, Found
<1>7. QED
  BY <1>5, <1>6

LEMMA ConcatEffect ==
  ASSUME NEW S, NEW s \in Seq(S), NEW t \in Seq(S)
  PROVE  /\ s \o t \in Seq(S) /\ Len(s \o t) = Len(s) + Len(t)
         /\ \A i \in 1..(Len(s) + Len(t)) :
              (s \o t)[i] = IF i <= Len(s) THEN s[i] ELSE t[i - Len(s)]
OBVIOUS

(* s is the answer with d put at place k: the later pages have moved up by  *)
(* one, the others have stayed.                                             *)
PutAt(s, k, d) ==
  /\ s \in Seq(Nat) /\ Len(s) = Len(answer) + 1 /\ s[k] = d
  /\ \A i \in 1..(k - 1) : s[i] = answer[i]
  /\ \A i \in (k + 1)..(Len(answer) + 1) : s[i] = answer[i - 1]

LEMMA InsertEffect ==
  ASSUME answer \in Seq(Nat), NEW d \in Nat, NEW k \in 1..(Len(answer) + 1)
  PROVE  PutAt(InsertAt(answer, k, d), k, d)
<1> PICK s : s = InsertAt(answer, k, d)
  OBVIOUS
<1> DEFINE a == SubSeq(answer, 1, k - 1)
           b == SubSeq(answer, k, Len(answer))
           c == a \o <<d>>
<1>1. k \in Nat /\ k >= 1 /\ k <= Len(answer) + 1 /\ Len(answer) \in Nat
  OBVIOUS
<1>2. /\ a \in Seq(Nat) /\ Len(a) = k - 1
      /\ \A i \in 1..Len(a) : a[i] = answer[i]
  BY <1>1
<1>3. /\ b \in Seq(Nat) /\ Len(b) = Len(answer) - k + 1
      /\ \A i \in 1..Len(b) : b[i] = answer[k + i - 1]
  BY <1>1
<1>4. /\ c \in Seq(Nat) /\ Len(c) = k
      /\ \A i \in 1..k : c[i] = IF i < k THEN answer[i] ELSE d
  BY <1>1, <1>2
<1>5. s = c \o b
  BY DEF InsertAt
<1> HIDE DEF a, b, c
<1>6. /\ s \in Seq(Nat) /\ Len(s) = Len(c) + Len(b)
      /\ \A i \in 1..Len(s) : s[i] = IF i <= Len(c) THEN c[i] ELSE b[i - Len(c)]
  <2>1. /\ c \o b \in Seq(Nat) /\ Len(c \o b) = Len(c) + Len(b)
        /\ \A i \in 1..(Len(c) + Len(b)) :
             (c \o b)[i] = IF i <= Len(c) THEN c[i] ELSE b[i - Len(c)]
    BY <1>3, <1>4, ConcatEffect
  <2>2. QED
    BY <1>5, <2>1
<1>7. Len(s) = Len(answer) + 1
  BY <1>1, <1>3, <1>4, <1>6
<1>8. ASSUME NEW i \in 1..k PROVE s[i] = IF i < k THEN answer[i] ELSE d
  BY <1>1, <1>4, <1>6, <1>7, SMTT(30)
<1>9. ASSUME NEW i \in (k + 1)..(Len(answer) + 1) PROVE s[i] = answer[i - 1]
  <2>1. /\ i \in 1..Len(s) /\ ~(i <= Len(c)) /\ i - k \in 1..Len(b) /\ Len(c) = k
        /\ k + (i - k) - 1 = i - 1
    BY <1>1, <1>3, <1>4, <1>7
  <2>2. s[i] = b[i - k] /\ b[i - k] = answer[k + (i - k) - 1]
    BY <1>3, <1>6, <2>1
  <2>3. QED
    BY <2>1, <2>2
<1>10. QED
  BY <1>1, <1>6, <1>7, <1>8, <1>9 DEF PutAt

(* GetPagesOrder either drops a page level with one that is in, or puts it  *)
(* in one of its places.                                                    *)
LEMMA InsertedEffect ==
  ASSUME answer \in Seq(Nat), NEW d \in Nat, NEW s \in Inserted(d)
  PROVE  \/ s = answer /\ \E i \in 1..Len(answer) : Level(answer[i], d)
         \/ \E k \in Places(d) : PutAt(s, k, d)
<1>1. CASE \E k \in Places(d) : s = InsertAt(answer, k, d)
  <2>1. PICK k \in Places(d) : s = InsertAt(answer, k, d)
    BY <1>1
  <2>2. k \in 1..(Len(answer) + 1)
    BY DEF Places
  <2>3. PutAt(InsertAt(answer, k, d), k, d)
    BY <2>2, InsertEffect
  <2>4. QED
    BY <2>1, <2>3
<1>2. CASE s = answer /\ \E i \in 1..Len(answer) : Level(answer[i], d)
  BY <1>2
<1>3. QED
  BY <1>1, <1>2 DEF Inserted

LEMMA InsertedElements ==
  ASSUME answer \in Seq(Nat), NEW d \in Nat, NEW s \in Inserted(d)
  PROVE  s \in Seq(Nat) /\ Elements(s) \subseteq Elements(answer) \cup {d}
<1>1. CASE s = answer
  BY <1>1
<1>2. CASE s # answer
  <2>1. PICK k \in Places(d) : PutAt(s, k, d)
    BY <1>2, InsertedEffect
  <2>2. k \in 1..(Len(answer) + 1)
    BY DEF Places
  <2>3. ASSUME NEW i \in 1..Len(s)
        PROVE  s[i] \in Elements(answer) \cup {d}
    <3>1. CASE i < k
      <4>1. i \in 1..(k - 1) /\ i \in 1..Len(answer)
        BY <2>2, <3>1
      <4>2. QED
        BY <2>1, <4>1 DEF PutAt, Elements
    <3>2. CASE i = k
      BY <2>1, <3>2 DEF PutAt
    <3>3. CASE i > k
      <4>1. i \in (k + 1)..(Len(answer) + 1) /\ i - 1 \in 1..Len(answer)
        BY <2>1, <2>2, <3>3 DEF PutAt
      <4>2. s[i] = answer[i - 1]
        BY <2>1, <4>1 DEF PutAt
      <4>3. QED
        BY <4>1, <4>2 DEF PutAt, Elements
    <3>4. QED
      BY <2>1, <2>2, <3>1, <3>2, <3>3 DEF PutAt
  <2>4. QED
    BY <2>1, <2>3 DEF PutAt, Elements
<1>3. QED
  BY <1>1, <1>2
-----------------------------------------------------------------------------
LEMMA QueryInit == Init => QueryInv
BY DEF Init, QueryInv, LibraryInit, Asked

LEMMA AskPreserves == IInv /\ QueryInv /\ Ask => QueryInv'
<1> SUFFICES ASSUME IInv, QueryInv, Ask PROVE QueryInv'
  OBVIOUS
<1>1. /\ pc = "ready" /\ UNCHANGED <<libraryVars, relative, answer>>
      /\ qpc' = "lookup" /\ hits' = [d \in byId |-> 0] /\ query' \in [Words -> Nat]
      /\ left' = Asked' /\ byId' = byId /\ answer = <<>> /\ relative = {}
  BY QueryAssumption DEF Ask, QueryInv, Asked, libraryVars
<1>2. \A d \in byId : Under(d)' = {}
  BY <1>1 DEF Under
<1>3. \A d \in byId : hits'[d] = Cardinality(Under(d)')
  BY <1>1, <1>2, FS_EmptySet
<1>4. QED
  BY <1>1, <1>3 DEF QueryInv, libraryVars

LEMMA LookUpPreserves ==
  ASSUME IInv, QueryInv, NEW w \in Words, LookUp(w) PROVE QueryInv'
<1>1. /\ qpc = "lookup" /\ w \in left /\ left' = left \ {w} /\ pc = "ready"
      /\ UNCHANGED <<libraryVars, query, relative, answer>>
      /\ UNCHANGED <<rss, list, index, byId, pc>>
      /\ query \in [Words -> Nat] /\ left \subseteq Asked /\ Asked' = Asked
      /\ answer = <<>> /\ relative = {} /\ w \in Asked
  BY DEF LookUp, QueryInv, libraryVars, Asked
<1>2. CASE index[w] = {}
  <2>1. Found = {}
    BY <1>1, <1>2, ReadyLibrary DEF Found
  <2>2. qpc' = "noAnswer" /\ Found' = Found
    BY <1>1, <1>2 DEF LookUp, Found, Elements, WordsOf
  <2>3. QED
    BY <1>1, <2>1, <2>2 DEF QueryInv
<1>3. CASE index[w] # {}
  <2>1. /\ hits' = [d \in DOMAIN hits |-> IF d \in index[w] THEN hits[d] + 1 ELSE hits[d]]
        /\ qpc' = "lookup" /\ hits \in [byId -> Nat]
    BY <1>1, <1>3 DEF LookUp, QueryInv
  <2>2. ASSUME NEW d \in byId PROVE hits'[d] = Cardinality(Under(d)')
    <3>1. hits[d] = Cardinality(Under(d)) /\ w \notin Under(d)
      BY <1>1 DEF QueryInv, Under
    <3>2. CASE d \in index[w]
      <4>1. Under(d)' = Under(d) \cup {w}
        BY <1>1, <3>2 DEF Under
      <4>2. Cardinality(Under(d) \cup {w}) = Cardinality(Under(d)) + 1
        BY <3>1, UnderFinite, FS_AddElement
      <4>3. QED
        BY <2>1, <3>1, <3>2, <4>1, <4>2
    <3>3. CASE d \notin index[w]
      <4>1. Under(d)' = Under(d)
        BY <1>1, <3>3 DEF Under
      <4>2. QED
        BY <2>1, <3>1, <3>3, <4>1
    <3>4. QED
      BY <3>2, <3>3
  <2>3. hits' \in [byId -> Nat]
    BY <2>1
  <2>4. QED
    BY <1>1, <2>1, <2>2, <2>3 DEF QueryInv
<1>4. QED
  BY <1>2, <1>3

LEMMA CollectPreserves == IInv /\ QueryInv /\ Collect => QueryInv'
<1> SUFFICES ASSUME IInv, QueryInv, Collect PROVE QueryInv'
  OBVIOUS
<1>1. /\ qpc = "lookup" /\ left = {} /\ UNCHANGED <<libraryVars, query, left, hits, answer>>
      /\ UNCHANGED <<rss, list, index, byId, pc>> /\ pc = "ready" /\ answer = <<>>
      /\ relative' = Found
      /\ qpc' = IF Found = {} THEN "noAnswer" ELSE "order"
  BY CollectedIsFound DEF Collect, QueryInv, libraryVars
<1>2. Found' = Found /\ Asked' = Asked
  BY <1>1 DEF Found, Asked, Elements, WordsOf
<1>3. Elements(answer) = {}
  BY <1>1 DEF Elements
<1>4. QED
  BY <1>1, <1>2, <1>3 DEF QueryInv, Elements

LEMMA OrderPreserves ==
  ASSUME IInv, QueryInv, NEW d \in byId, OrderPage(d) PROVE QueryInv'
<1>1. /\ qpc = "order" /\ d \in relative /\ relative' = relative \ {d}
      /\ UNCHANGED <<libraryVars, query, left, hits>>
      /\ UNCHANGED <<rss, list, index, byId, pc>> /\ pc = "ready"
      /\ answer' \in Inserted(d) /\ answer \in Seq(Nat)
      /\ qpc' \in {"order", "answered"}
      /\ Found # {} /\ relative \subseteq Found /\ Elements(answer) \subseteq Found
  BY DEF OrderPage, QueryInv, libraryVars
<1>2. Found' = Found /\ Asked' = Asked
  BY <1>1 DEF Found, Asked, Elements, WordsOf
<1>3. d \in Nat
  BY <1>1, ReadyLibrary
<1>4. answer' \in Seq(Nat) /\ Elements(answer') \subseteq Elements(answer) \cup {d}
  BY <1>1, <1>3, InsertedElements
<1>5. Elements(answer)' \subseteq Found
  BY <1>1, <1>4 DEF Elements
<1>6. QED
  BY <1>1, <1>2, <1>4, <1>5 DEF QueryInv

LEMMA LibraryStepPreserves ==
  ASSUME IInv, QueryInv, LibraryStep, UNCHANGED queryVars PROVE QueryInv'
<1>1. qpc = "none" /\ UNCHANGED <<query, left, hits, relative, answer, qpc>>
  BY ReadyStays DEF QueryInv, queryVars
<1>2. QED
  BY <1>1 DEF QueryInv, Asked

LEMMA QueryStutter ==
  ASSUME QueryInv, UNCHANGED vars PROVE QueryInv'
<1>1. /\ UNCHANGED <<query, left, hits, relative, answer, qpc>>
      /\ UNCHANGED <<rss, list, index, byId, pc>>
  BY DEF vars, queryVars, libraryVars
<1>2. /\ Found' = Found /\ Asked' = Asked /\ Elements(answer)' = Elements(answer)
      /\ \A d : Under(d)' = Under(d)
  BY <1>1 DEF Found, Asked, Elements, WordsOf, Under
<1>3. QED
  BY <1>1, <1>2 DEF QueryInv
-----------------------------------------------------------------------------
(* What PageLibrary promises holds while queries run on it.                 *)
THEOREM ImplementsLibrary == Spec => LibrarySpec
<1>1. Init => LibraryInit
  BY DEF Init
<1>2. [Next]_vars => [LibraryStep]_libraryVars
  BY DEF Next, vars, Ask, LookUp, Collect, OrderPage
<1>3. QED
  BY <1>1, <1>2, PTL DEF Spec, LibrarySpec

THEOREM QueryInvariance == Spec => []QueryInv
<1>1. IInv /\ QueryInv /\ [Next]_vars => QueryInv'
  BY AskPreserves, LookUpPreserves, CollectPreserves, OrderPreserves,
     LibraryStepPreserves, QueryStutter DEF Next
<1>2. QED
  BY <1>1, QueryInit, ImplementsLibrary, Invariance, PTL DEF Spec

(* The pages found, and so every page answered, are kept pages that contain *)
(* all the words; "No answer" means there is none.                          *)
THEOREM FoundIsConjunctionAlways == Spec => []FoundIsConjunction
<1>1. QueryInv => FoundIsConjunction
  BY DEF QueryInv, FoundIsConjunction
<1>2. QED
  BY <1>1, QueryInvariance, PTL
-----------------------------------------------------------------------------
(* GetPagesOrder: whatever the cosines are, every page taken from the       *)
(* relative ones is in the answer or level with one that is, and the        *)
(* answer, which never has a page twice, stays in order.  Nothing is asked  *)
(* of Above here, not even that it is an order.                             *)
RankInv ==
  /\ TypeOK
  /\ qpc = "none" => hits = <<>>
  /\ relative \cap Elements(answer) = {}
  /\ BestFirst
  /\ qpc = "answered" => relative = {}
  /\ qpc \in {"order", "answered"} =>
       \A d \in Found \ relative :
         \E i \in 1..Len(answer) : answer[i] = d \/ Level(answer[i], d)

LEMMA LibraryTyped == IInv => LibraryTypeOK
BY DEF IInv

LEMMA RankInit == Init => RankInv
<1> SUFFICES ASSUME Init PROVE RankInv
  OBVIOUS
<1>1. /\ query = [w \in Words |-> 0] /\ left = {} /\ hits = <<>>
      /\ relative = {} /\ answer = <<>> /\ qpc = "none" /\ LibraryInit
  BY DEF Init
<1>2. LibraryTypeOK
  BY <1>1, InitEstablishes, LibraryTyped
<1>3. DOMAIN hits = {} /\ Elements(answer) = {} /\ Len(answer) = 0
  BY <1>1 DEF Elements
<1>4. query \in [Words -> 0..MaxAsked]
  BY <1>1, QueryAssumption
<1>5. TypeOK
  BY <1>1, <1>2, <1>3, <1>4 DEF TypeOK, QueryAt
<1>6. QED
  BY <1>1, <1>3, <1>5 DEF RankInv, BestFirst

(* What a step that leaves the library and the query alone leaves alone.    *)
LEMMA SameRanks ==
  ASSUME UNCHANGED <<rss, list, df, query>>
  PROVE  /\ \A c, d : (Above(c, d)' <=> Above(c, d)) /\ (Level(c, d)' <=> Level(c, d))
         /\ Found' = Found /\ Asked' = Asked
<1>1. Found' = Found /\ Asked' = Asked
  BY DEF Found, Asked, Elements, WordsOf
<1>2. \A c, d : Above(c, d)' <=> Above(c, d)
  <2>1. \A c : Dot(c)' = Dot(c)
    BY DEF Dot, QueryWeight, PageWeight, Idf, Asked, MapThenSumSet, MapThenFoldSet
  <2>2. \A c : Norm2(c)' = Norm2(c)
    BY DEF Norm2, PageWeight, Idf, Asked, MapThenSumSet, MapThenFoldSet
  <2>3. NoWeight' <=> NoWeight
    BY DEF NoWeight, Idf, Asked
  <2>4. QED
    BY <2>1, <2>2, <2>3 DEF Above
<1>3. QED
  BY <1>1, <1>2 DEF Level

(* A step that leaves the library, the ranks and the answer alone.          *)
LEMMA SameAnswer ==
  ASSUME RankInv, UNCHANGED <<rss, list, df, query, answer>>,
         NEW S, relative' = S, S \cap Elements(answer) = {}, TypeOK',
         qpc' # "none", qpc' = "answered" => S = {},
         qpc' \in {"order", "answered"} => Found \subseteq S
  PROVE  RankInv'
<1>1. /\ \A c, d : (Above(c, d)' <=> Above(c, d)) /\ (Level(c, d)' <=> Level(c, d))
      /\ Found' = Found
  BY SameRanks
<1>2. BestFirst'
  BY <1>1 DEF RankInv, BestFirst
<1>3. Elements(answer)' = Elements(answer)
  BY DEF Elements
<1>4. (qpc \in {"order", "answered"})' => (Found \ relative)' = {}
  BY <1>1
<1>5. QED
  BY <1>2, <1>3, <1>4 DEF RankInv

LEMMA AskRanks ==
  ASSUME IInv, QueryInv, RankInv, LibraryTypeOK', Ask PROVE RankInv'
<1>1. /\ UNCHANGED <<rss, list, df, byId, answer, relative>>
      /\ query' \in [Words -> 0..MaxAsked] /\ left' = Asked' /\ hits' = [d \in byId |-> 0]
      /\ qpc' = "lookup" /\ answer = <<>> /\ relative = {}
  BY DEF Ask, QueryInv, libraryVars, Asked
<1>2. Elements(answer) = {} /\ Len(answer) = 0
  BY <1>1 DEF Elements
<1>3. \A d \in DOMAIN hits' : hits'[d] \in 0..Cardinality(Words)
  BY <1>1, QueryAssumption, FS_CardinalityType
<1>4. Elements(answer)' = {} /\ relative' = {}
  BY <1>1, <1>2 DEF Elements
<1>5. TypeOK'
  BY <1>1, <1>3, <1>4 DEF TypeOK, QueryAt
<1>6. BestFirst'
  BY <1>1, <1>2 DEF BestFirst
<1>7. QED
  BY <1>1, <1>4, <1>5, <1>6 DEF RankInv

LEMMA LookUpRanks ==
  ASSUME IInv, QueryInv, RankInv, LibraryTypeOK', QueryInv', NEW w \in Words, LookUp(w)
  PROVE  RankInv'
<1>1. /\ UNCHANGED <<rss, list, df, query, byId, answer, relative>>
      /\ qpc = "lookup" /\ answer = <<>> /\ relative = {}
      /\ qpc' \in {"lookup", "noAnswer"} /\ left' \subseteq left
      /\ hits \in [byId -> Nat]
  BY DEF LookUp, QueryInv, libraryVars
<1>2. Asked' = Asked /\ Elements(answer)' = Elements(answer) /\ Elements(answer) = {}
  BY <1>1 DEF Asked, Elements
<1>3. DOMAIN hits' = DOMAIN hits
  BY DEF LookUp
<1>4. \A d \in DOMAIN hits' : hits'[d] \in 0..Cardinality(Words)
  <2>1. CASE qpc' = "lookup"
    <3>1. \A d \in byId : hits'[d] = Cardinality(Under(d)')
      BY <1>1, <2>1 DEF QueryInv
    <3>2. ASSUME NEW d \in byId PROVE Cardinality(Under(d)') \in 0..Cardinality(Words)
      <4>1. Under(d)' \subseteq Words
        BY DEF Under, Asked
      <4>2. /\ IsFiniteSet(Under(d)') /\ Cardinality(Under(d)') <= Cardinality(Words)
            /\ Cardinality(Words) \in Nat
        BY <4>1, QueryAssumption, FS_Subset, FS_CardinalityType
      <4>3. Cardinality(Under(d)') \in Nat
        BY <4>2, FS_CardinalityType
      <4>4. QED
        BY <4>2, <4>3
    <3>3. QED
      BY <1>1, <1>3, <3>1, <3>2
  <2>2. CASE qpc' = "noAnswer"
    <3>1. hits' = hits
      BY <1>1, <2>2 DEF LookUp
    <3>2. QED
      BY <3>1 DEF RankInv, TypeOK
  <2>3. QED
    BY <1>1, <2>1, <2>2
<1>5. TypeOK'
  BY <1>1, <1>2, <1>3, <1>4 DEF RankInv, TypeOK, QueryAt
<1>6. QED
  BY <1>1, <1>2, <1>5, SameAnswer

LEMMA CollectRanks ==
  ASSUME IInv, QueryInv, RankInv, LibraryTypeOK', Collect PROVE RankInv'
<1>1. /\ UNCHANGED <<rss, list, df, query, left, hits, byId, answer>>
      /\ qpc = "lookup" /\ left = {} /\ answer = <<>> /\ pc = "ready"
      /\ relative' = FoundIn(Cardinality(Asked))
      /\ qpc' \in {"order", "noAnswer"}
  BY DEF Collect, QueryInv, libraryVars
<1>2. Asked' = Asked /\ Elements(answer)' = Elements(answer) /\ Elements(answer) = {}
  BY <1>1 DEF Asked, Elements
<1>3. relative' = Found
  BY <1>1, CollectedIsFound
<1>4. Found \subseteq byId
  BY <1>1, ReadyLibrary DEF Found
<1>5. TypeOK'
  BY <1>1, <1>2, <1>3, <1>4 DEF RankInv, TypeOK, QueryAt
<1>6. QED
  BY <1>1, <1>2, <1>3, <1>5, SameAnswer

InOrder(s) == \A i, j \in 1..Len(s) : i < j => s[i] # s[j] /\ ~Above(s[j], s[i])
Covers(s, d) == \E i \in 1..Len(s) : s[i] = d \/ Level(s[i], d)

(* Putting d at one of its places keeps the order and covers d and all that *)
(* was covered.                                                             *)
LEMMA InsertedRanks ==
  ASSUME BestFirst, answer \in Seq(Nat), NEW d, d \notin Elements(answer),
         NEW k \in Places(d), NEW s, PutAt(s, k, d)
  PROVE  InOrder(s) /\ Covers(s, d) /\ \A e : Covers(answer, e) => Covers(s, e)
<1>0. /\ s[k] = d
      /\ \A i \in 1..(k - 1) : s[i] = answer[i]
      /\ \A i \in (k + 1)..(Len(answer) + 1) : s[i] = answer[i - 1]
  BY DEF PutAt
<1>1. /\ k \in 1..(Len(answer) + 1) /\ Len(answer) \in Nat
      /\ Len(s) = Len(answer) + 1
      /\ \A i \in 1..(k - 1) : ~Above(d, answer[i])
      /\ \A i \in k..Len(answer) : ~Above(answer[i], d)
  BY DEF Places, PutAt
<1>2. \A i \in 1..Len(answer) : answer[i] # d
  BY DEF Elements
<1>3. ASSUME NEW i \in 1..Len(s), NEW j \in 1..Len(s), i < j
      PROVE  s[i] # s[j] /\ ~Above(s[j], s[i])
  <2>1. ASSUME NEW m \in 1..Len(answer), NEW n \in 1..Len(answer), m < n
        PROVE  answer[m] # answer[n] /\ ~Above(answer[n], answer[m])
    BY <2>1 DEF BestFirst
  <2>2. CASE j < k
    <3>1. /\ i \in 1..(k - 1) /\ j \in 1..(k - 1)
          /\ i \in 1..Len(answer) /\ j \in 1..Len(answer)
      BY <1>1, <1>3, <2>2
    <3>2. s[i] = answer[i] /\ s[j] = answer[j]
      BY <1>0, <3>1
    <3>3. QED
      BY <1>3, <2>1, <3>1, <3>2
  <2>3. CASE j = k
    <3>1. i \in 1..(k - 1) /\ i \in 1..Len(answer)
      BY <1>1, <1>3, <2>3
    <3>2. s[i] = answer[i] /\ s[j] = d
      BY <1>0, <2>3, <3>1
    <3>3. QED
      BY <1>1, <1>2, <3>1, <3>2
  <2>4. CASE j > k /\ i < k
    <3>1. /\ i \in 1..(k - 1) /\ j \in (k + 1)..(Len(answer) + 1)
          /\ i \in 1..Len(answer) /\ j - 1 \in 1..Len(answer) /\ i < j - 1
      BY <1>1, <1>3, <2>4
    <3>2. s[i] = answer[i] /\ s[j] = answer[j - 1]
      BY <1>0, <3>1
    <3>3. QED
      BY <2>1, <3>1, <3>2
  <2>5. CASE j > k /\ i = k
    <3>1. /\ j \in (k + 1)..(Len(answer) + 1)
          /\ j - 1 \in 1..Len(answer) /\ j - 1 \in k..Len(answer)
      BY <1>1, <1>3, <2>5
    <3>2. s[i] = d /\ s[j] = answer[j - 1]
      BY <1>0, <2>5, <3>1
    <3>3. QED
      BY <1>1, <1>2, <3>1, <3>2
  <2>6. CASE j > k /\ i > k
    <3>1. /\ i \in (k + 1)..(Len(answer) + 1) /\ j \in (k + 1)..(Len(answer) + 1)
          /\ i - 1 \in 1..Len(answer) /\ j - 1 \in 1..Len(answer) /\ i - 1 < j - 1
      BY <1>1, <1>3, <2>6
    <3>2. s[i] = answer[i - 1] /\ s[j] = answer[j - 1]
      BY <1>0, <3>1
    <3>3. QED
      BY <2>1, <3>1, <3>2
  <2>7. QED
    BY <1>1, <1>3, <2>2, <2>3, <2>4, <2>5, <2>6
<1>4. ASSUME NEW i \in 1..Len(answer) PROVE \E j \in 1..Len(s) : s[j] = answer[i]
  <2>1. CASE i < k
    <3>1. i \in 1..(k - 1) /\ i \in 1..Len(s)
      BY <1>1, <2>1
    <3>2. QED
      BY <1>0, <3>1
  <2>2. CASE i >= k
    <3>1. i + 1 \in (k + 1)..(Len(answer) + 1) /\ i + 1 \in 1..Len(s) /\ (i + 1) - 1 = i
      BY <1>1, <2>2
    <3>2. s[i + 1] = answer[(i + 1) - 1]
      BY <1>0, <3>1
    <3>3. QED
      BY <3>1, <3>2
  <2>3. QED
    BY <1>1, <2>1, <2>2
<1>5. Covers(s, d)
  BY <1>0, <1>1 DEF Covers
<1>6. QED
  BY <1>3, <1>4, <1>5 DEF InOrder, Covers

LEMMA OrderRanks ==
  ASSUME IInv, QueryInv, RankInv, LibraryTypeOK', NEW d \in byId, OrderPage(d)
  PROVE  RankInv'
<1>1. /\ UNCHANGED <<rss, list, df, query, left, hits, byId>>
      /\ qpc = "order" /\ d \in relative /\ relative' = relative \ {d}
      /\ answer' \in Inserted(d) /\ answer \in Seq(Nat) /\ pc = "ready"
      /\ qpc' \in {"order", "answered"} /\ (qpc' = "answered" => relative' = {})
  BY DEF OrderPage, QueryInv, libraryVars
<1>2. /\ \A c, e : (Above(c, e)' <=> Above(c, e)) /\ (Level(c, e)' <=> Level(c, e))
      /\ Found' = Found /\ Asked' = Asked
  BY <1>1, SameRanks
<1>3. d \in Nat
  BY <1>1, ReadyLibrary
<1>4. d \notin Elements(answer)
  BY <1>1 DEF RankInv
<1>5. PICK s : s = answer'
  OBVIOUS
<1>6. s \in Inserted(d) /\ s \in Seq(Nat) /\ Elements(s) \subseteq Elements(answer) \cup {d}
  BY <1>1, <1>3, <1>5, InsertedElements
<1>7. Elements(answer)' = Elements(s)
  BY <1>5 DEF Elements
<1>8. TypeOK'
  <2>1. Elements(answer) \subseteq byId /\ relative \subseteq byId
    BY DEF RankInv, TypeOK
  <2>2. QED
    BY <1>1, <1>2, <1>6, <1>7, <2>1 DEF RankInv, TypeOK, QueryAt
<1>9. relative' \cap Elements(answer)' = {}
  BY <1>1, <1>6, <1>7 DEF RankInv
<1>10. \A e \in Found \ relative : Covers(answer, e)
  BY <1>1 DEF RankInv, Covers
<1>11. InOrder(s) /\ \A e \in Found \ relative' : Covers(s, e)
  <2>1. CASE s = answer /\ \E i \in 1..Len(answer) : Level(answer[i], d)
    <3>1. InOrder(s) /\ Covers(s, d)
      BY <2>1 DEF RankInv, BestFirst, InOrder, Covers
    <3>2. QED
      BY <1>1, <1>10, <2>1, <3>1
  <2>2. CASE \E k \in Places(d) : PutAt(s, k, d)
    <3>1. InOrder(s) /\ Covers(s, d) /\ \A e : Covers(answer, e) => Covers(s, e)
      BY <1>1, <1>4, <2>2, InsertedRanks DEF RankInv
    <3>2. QED
      BY <1>1, <1>10, <3>1
  <2>3. QED
    BY <1>1, <1>3, <1>6, <2>1, <2>2, InsertedEffect
<1>12. BestFirst'
  BY <1>2, <1>5, <1>11 DEF BestFirst, InOrder
<1>13. \A e \in (Found \ relative)' :
         \E i \in 1..Len(answer') : answer'[i] = e \/ Level(answer'[i], e)
  BY <1>2, <1>5, <1>11 DEF Covers
<1>14. \A e \in (Found \ relative)' :
         \E i \in 1..Len(answer') : answer'[i] = e \/ Level(answer[i], e)'
  BY <1>2, <1>13
<1>15. QED
  BY <1>1, <1>8, <1>9, <1>12, <1>14 DEF RankInv

LEMMA LibraryStepRanks ==
  ASSUME IInv, IInv', QueryInv, RankInv, LibraryStep, UNCHANGED queryVars
  PROVE  RankInv'
<1>1. /\ UNCHANGED <<query, left, hits, relative, answer, qpc>>
      /\ qpc = "none" /\ answer = <<>> /\ relative = {} /\ hits = <<>>
  BY ReadyStays DEF QueryInv, RankInv, queryVars
<1>2. /\ LibraryTypeOK' /\ Asked' = Asked /\ DOMAIN hits = {} /\ Len(answer) = 0
      /\ Elements(answer) = {} /\ Elements(answer)' = {}
  BY <1>1, LibraryTyped DEF Asked, Elements, IInv
<1>3. TypeOK'
  BY <1>1, <1>2 DEF RankInv, TypeOK
<1>4. BestFirst'
  BY <1>1, <1>2 DEF BestFirst
<1>5. QED
  BY <1>1, <1>2, <1>3, <1>4 DEF RankInv

LEMMA RankStutter ==
  ASSUME IInv', RankInv, UNCHANGED vars PROVE RankInv'
<1>1. UNCHANGED <<rss, list, df, byId, query, left, hits, relative, answer, qpc>>
  BY DEF vars, queryVars, libraryVars
<1>2. /\ \A c, d : (Above(c, d)' <=> Above(c, d)) /\ (Level(c, d)' <=> Level(c, d))
      /\ Found' = Found /\ Asked' = Asked
  BY <1>1, SameRanks
<1>3. Elements(answer)' = Elements(answer) /\ LibraryTypeOK'
  BY <1>1 DEF Elements, IInv
<1>4. TypeOK'
  BY <1>1, <1>2, <1>3 DEF RankInv, TypeOK
<1>5. BestFirst'
  BY <1>1, <1>2 DEF RankInv, BestFirst
<1>6. QED
  BY <1>1, <1>2, <1>3, <1>4, <1>5 DEF RankInv

(* The answer ranks what was found, however the pages' cosines compare and  *)
(* in whatever order GetPagesOrder takes the pages: a page is missing only  *)
(* beside one of the same cosine, and none is before a better one.          *)
THEOREM AnswerRanksFoundAlways == Spec => []AnswerRanksFound
<1>1. IInv /\ IInv' /\ QueryInv /\ QueryInv' /\ RankInv /\ [Next]_vars => RankInv'
  <2> SUFFICES ASSUME IInv, IInv', QueryInv, QueryInv', RankInv, [Next]_vars
               PROVE  RankInv'
    OBVIOUS
  <2>1. LibraryTypeOK'
    BY DEF IInv
  <2>2. QED
    BY <2>1, AskRanks, LookUpRanks, CollectRanks, OrderRanks, LibraryStepRanks,
       RankStutter DEF Next
<1>2. RankInv => AnswerRanksFound
  <2> SUFFICES ASSUME RankInv PROVE AnswerRanksFound
    OBVIOUS
  <2>1. TypeOK /\ BestFirst
    BY DEF RankInv
  <2>2. OnlyEqualsAreDropped
    BY DEF RankInv, OnlyEqualsAreDropped
  <2>3. QED
    BY <2>1, <2>2 DEF AnswerRanksFound
<1>3. QED
  BY <1>1, <1>2, RankInit, QueryInvariance, ImplementsLibrary, Invariance, PTL DEF Spec
=============================================================================
