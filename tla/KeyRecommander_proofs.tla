------------------------ MODULE KeyRecommander_proofs ------------------------
(***************************************************************************)
(* What a DictProducer stores is complete, what the key server reads of it *)
(* stays what it was, a query that overlaps no other finds what the files  *)
(* hold, and its queue does not grow: for every text, every set of stop    *)
(* words, every number of builds and any finite number of workers.  The    *)
(* parts have an invariant each, in this order: StoreInv, LookupInv,       *)
(* AnswersInv, QueueInv, and StrayInv, which needs the two before it.      *)
(***************************************************************************)
EXTENDS KeyRecommander, SequenceTheorems, FiniteSetTheorems, WellFoundedInduction, TLAPS

(* Before it has begun a dictionary the _index of a DictProducer is empty,  *)
(* and it is filled only by CreateIndex: what Store writes after the first  *)
(* dictionary is the index of that one.                                     *)
StoreInv ==
  /\ step \in Steps /\ type \in Types /\ uses \in Nat
  /\ DOMAIN stored = Types
  /\ \A t \in Types : stored[t] \in {"fresh", "reused"} => t \in DOMAIN dictFile \cap DOMAIN indexFile
  /\ step # "build" => uses > 0
  /\ uses = 0 => index = {}
  /\ step = "index" /\ uses = 1 => index = {}
  /\ step = "store" => Indexed(dict, LetterSize) \subseteq index
  /\ step = "store" /\ uses = 1 => index = Indexed(dict, LetterSize)
  /\ StoredWordsAreFound

LEMMA StoreInit == Init => StoreInv
BY DEF Init, ProducerInit, StoreInv, StoredWordsAreFound, Steps, Types

(* What StoredWordsAreFound says of one type.                               *)
TypeFound(t, d, i, s) ==
  LET exact == Indexed(d, SizeOf(t)) IN
  /\ s \in {"fresh", "reused"} => exact \subseteq i
  /\ s = "fresh" => i = exact

LEMMA FoundByType ==
  StoredWordsAreFound <=> \A t \in Types : TypeFound(t, dictFile[t], indexFile[t], stored[t])
BY DEF StoredWordsAreFound, TypeFound

LEMMA FoundByTypeNext ==
  StoredWordsAreFound' <=>
    \A t \in Types : TypeFound(t, dictFile'[t], indexFile'[t], stored'[t])
BY DEF StoredWordsAreFound, TypeFound

LEMMA BuildStores ==
  ASSUME StoreInv, NEW t \in Types, Building(t), UNCHANGED index PROVE StoreInv'
<1>1. StoredWordsAreFound'
  BY FoundByType, FoundByTypeNext DEF StoreInv, Building
<1>2. QED
  BY <1>1 DEF StoreInv, Building, Steps

LEMMA IndexStores == StoreInv /\ CreateIndex => StoreInv'
<1> SUFFICES ASSUME StoreInv, CreateIndex PROVE StoreInv'
  OBVIOUS
<1>1. /\ UNCHANGED <<type, dict, uses, dictFile, indexFile, stored>>
      /\ step = "index" /\ step' = "store" /\ index' = index \cup Indexed(dict, LetterSize)
  BY DEF CreateIndex
<1>2. StoredWordsAreFound'
  BY <1>1, FoundByType, FoundByTypeNext DEF StoreInv
<1>3. LetterSize' = LetterSize
  BY <1>1 DEF LetterSize
<1>4. Indexed(dict, LetterSize)' = Indexed(dict, LetterSize)
  BY <1>1, <1>3 DEF Indexed
<1>5. QED
  BY <1>1, <1>2, <1>4 DEF StoreInv, Steps

LEMMA StoreStores == StoreInv /\ Store => StoreInv'
<1> SUFFICES ASSUME StoreInv, Store PROVE StoreInv'
  OBVIOUS
<1>1. /\ UNCHANGED <<type, dict, index, uses>>
      /\ step = "store" /\ step' = "build"
  BY DEF Store
<1>2. PICK d \in BOOLEAN, i \in BOOLEAN :
        /\ dictFile' = IF d THEN WithFile(dictFile, type, IF i THEN dict ELSE <<>>)
                            ELSE dictFile
        /\ indexFile' = IF i THEN WithFile(indexFile, type, IF d THEN index ELSE {})
                             ELSE indexFile
        /\ stored' = [stored EXCEPT ![type] =
                        IF d /\ i THEN (IF uses = 1 THEN "fresh" ELSE "reused")
                        ELSE IF d \/ i THEN "torn" ELSE @]
  BY DEF Store
<1>3. ASSUME NEW t \in Types
      PROVE  /\ TypeFound(t, dictFile'[t], indexFile'[t], stored'[t])
             /\ stored'[t] \in {"fresh", "reused"} => t \in DOMAIN dictFile' \cap DOMAIN indexFile'
  <2>0. /\ TypeFound(t, dictFile[t], indexFile[t], stored[t])
        /\ stored[t] \in {"fresh", "reused"} => t \in DOMAIN dictFile \cap DOMAIN indexFile
    BY FoundByType DEF StoreInv
  <2>1. CASE t # type \/ (~d /\ ~i)
    <3>1. stored'[t] = stored[t]
      BY <1>2, <2>1 DEF StoreInv
    <3>2. ASSUME t \in DOMAIN dictFile \cap DOMAIN indexFile
          PROVE  /\ t \in DOMAIN dictFile' \cap DOMAIN indexFile'
                 /\ dictFile'[t] = dictFile[t] /\ indexFile'[t] = indexFile[t]
      BY <1>2, <2>1, <3>2 DEF WithFile
    <3>3. QED
      BY <2>0, <3>1, <3>2 DEF TypeFound
  <2>2. CASE t = type /\ d /\ i
    <3>1. /\ dictFile'[t] = dict /\ indexFile'[t] = index
          /\ t \in DOMAIN dictFile' \cap DOMAIN indexFile'
          /\ stored'[t] = IF uses = 1 THEN "fresh" ELSE "reused"
      BY <1>2, <2>2 DEF StoreInv, WithFile
    <3>2. LetterSize = SizeOf(t)
      BY <2>2 DEF LetterSize
    <3>3. Indexed(dict, LetterSize) \subseteq index /\ (uses = 1 => index = Indexed(dict, LetterSize))
      BY <1>1 DEF StoreInv
    <3>4. QED
      BY <3>1, <3>2, <3>3 DEF TypeFound
  <2>3. CASE t = type /\ (d \/ i) /\ ~(d /\ i)
    <3>1. stored'[t] = "torn"
      BY <1>2, <2>3 DEF StoreInv
    <3>2. QED
      BY <3>1 DEF TypeFound
  <2>4. QED
    BY <2>1, <2>2, <2>3
<1>4. StoredWordsAreFound'
  BY <1>3, FoundByTypeNext
<1>5. QED
  <2>1. DOMAIN stored' = Types
    BY <1>2 DEF StoreInv
  <2>2. QED
    BY <1>1, <1>3, <1>4, <2>1 DEF StoreInv, Steps

LEMMA ProducerStores == StoreInv /\ ProducerStep => StoreInv'
<1> SUFFICES ASSUME StoreInv, ProducerStep PROVE StoreInv'
  OBVIOUS
<1>1. CASE \E text \in EnTexts \cup {Missing} : BuildEnDict(text)
  BY <1>1, BuildStores DEF BuildEnDict, Types
<1>2. CASE \E articles \in CnTexts : BuildCnDict(articles)
  BY <1>2, BuildStores DEF BuildCnDict, Types
<1>3. CASE NewProducer
  <2>1. /\ UNCHANGED <<step, type, dictFile, indexFile, stored>>
        /\ step = "build" /\ index' = {} /\ uses' = 0
    BY <1>3 DEF NewProducer
  <2>2. StoredWordsAreFound'
    BY <2>1, FoundByType, FoundByTypeNext DEF StoreInv
  <2>3. QED
    BY <2>1, <2>2 DEF StoreInv
<1>4. QED
  BY <1>1, <1>2, <1>3, IndexStores, StoreStores DEF ProducerStep

LEMMA StartStores == StoreInv /\ StartServer => StoreInv'
<1> SUFFICES ASSUME StoreInv, StartServer PROVE StoreInv'
  OBVIOUS
<1>1. /\ UNCHANGED <<step, dictFile, indexFile, stored>>
      /\ step = "build" /\ index' = {} /\ uses' = 0 /\ type' \in Types
  BY DEF StartServer, Types
<1>2. StoredWordsAreFound'
  BY <1>1, FoundByType, FoundByTypeNext DEF StoreInv
<1>3. QED
  BY <1>1, <1>2 DEF StoreInv

LEMMA SameProducer ==
  ASSUME StoreInv, UNCHANGED producerVars PROVE StoreInv'
<1>1. UNCHANGED <<step, type, dict, index, uses, dictFile, indexFile, stored>>
  BY DEF producerVars
<1>2. StoredWordsAreFound'
  BY <1>1, FoundByType, FoundByTypeNext DEF StoreInv
<1>3. Indexed(dict, LetterSize)' = Indexed(dict, LetterSize)
  BY <1>1 DEF Indexed, LetterSize
<1>4. QED
  BY <1>1, <1>2, <1>3 DEF StoreInv

(* The key server and the web server leave what is stored alone.            *)
LEMMA ServersLeaveFiles ==
  ASSUME \/ \E w \in Workers : WorkerStep(w)
         \/ Collide
         \/ \E k \in Keys : WebAddData(k) \/ Expire(k)
  PROVE  UNCHANGED producerVars
BY DEF WorkerStep, CacheHit, CacheMiss, Take, AssignSought, DoQuery, Choose, ChooseThrows,
       GetString, AddData, RedisFails, Collide, Die, Unshared, WebAddData, Expire,
       WebUnchanged

(* The files of a type that were both written make every word found by each *)
(* of its letters, and those of a first dictionary lead nowhere else.       *)
THEOREM StoredWordsAreFoundAlways == Spec => []StoredWordsAreFound
<1>1. StoreInv /\ [Next]_vars => StoreInv'
  <2> SUFFICES ASSUME StoreInv, [Next]_vars PROVE StoreInv'
    OBVIOUS
  <2>1. CASE UNCHANGED vars
    BY <2>1, SameProducer DEF vars
  <2>2. CASE Next
    BY <2>2, ProducerStores, StartStores, SameProducer, ServersLeaveFiles DEF Next
  <2>3. QED
    BY <2>1, <2>2
<1>2. StoreInv => StoredWordsAreFound
  BY DEF StoreInv
<1>3. QED
  BY <1>1, <1>2, StoreInit, PTL DEF Spec
-----------------------------------------------------------------------------
(* The index files do not change while the server runs, and a lookup adds   *)
(* to its index only letters that have no word.                             *)
LookupInv == (up => started) /\ LookupsAddNothing

IndexIs(idx, read) ==
  /\ DOMAIN read \subseteq DOMAIN idx
  /\ \A c \in DOMAIN idx : idx[c] = IF c \in DOMAIN read THEN read[c] ELSE {}

LEMMA AddsNothing ==
  LookupsAddNothing <=> (up => \A t \in Types : IndexIs(letters[t], ReadIndex[t]))
BY DEF LookupsAddNothing, IndexIs

LEMMA AddsNothingNext ==
  LookupsAddNothing' <=>
    (up' => \A t \in Types : IndexIs(letters'[t], ReadIndex'[t]))
BY DEF LookupsAddNothing, IndexIs

LEMMA SameLetters ==
  ASSUME LookupInv, UNCHANGED indexFile, up' => up, started => started',
         up' => UNCHANGED letters
  PROVE  LookupInv'
<1>1. ReadIndex' = ReadIndex
  BY DEF ReadIndex, ReadInOrder
<1>2. QED
  BY <1>1, AddsNothing, AddsNothingNext DEF LookupInv

LEMMA QueryAddsNothing ==
  ASSUME LookupInv, NEW w \in Workers, DoQuery(w) PROVE LookupInv'
<1>1. /\ UNCHANGED <<indexFile, up, started>>
      /\ \E k : letters' = [t \in Types |-> WithLetters(letters[t], LettersOf(k, t))]
  BY DEF DoQuery, Goes, Unshared, producerVars
<1>2. PICK k : letters' = [t \in Types |-> WithLetters(letters[t], LettersOf(k, t))]
  BY <1>1
<1>3. ReadIndex' = ReadIndex
  BY <1>1 DEF ReadIndex, ReadInOrder
<1>4. ASSUME up, NEW t \in Types PROVE IndexIs(letters'[t], ReadIndex[t])
  <2>1. IndexIs(letters[t], ReadIndex[t])
    BY <1>4, AddsNothing DEF LookupInv
  <2>2. letters'[t] = WithLetters(letters[t], LettersOf(k, t))
    BY <1>2
  <2>3. QED
    BY <2>1, <2>2 DEF IndexIs, WithLetters
<1>5. QED
  BY <1>1, <1>3, <1>4, AddsNothingNext DEF LookupInv

(* Whatever is asked, by however many workers, the index in memory finds    *)
(* what the stored one does.                                                *)
THEOREM LookupsAddNothingAlways == Spec => []LookupsAddNothing
<1>1. Init => LookupInv
  BY DEF Init, LookupInv, LookupsAddNothing
<1>2. LookupInv /\ [Next]_vars => LookupInv'
  <2> SUFFICES ASSUME LookupInv, [Next]_vars PROVE LookupInv'
    OBVIOUS
  <2>1. CASE StartServer
    <3>1. UNCHANGED indexFile /\ started' = TRUE /\ letters' = ReadIndex
      BY <2>1 DEF StartServer
    <3>2. ReadIndex' = ReadIndex
      BY <3>1 DEF ReadIndex, ReadInOrder
    <3>3. \A t \in Types : IndexIs(letters'[t], ReadIndex'[t])
      BY <3>1, <3>2 DEF IndexIs
    <3>4. QED
      BY <3>1, <3>3, AddsNothingNext DEF LookupInv
  <2>2. CASE ~started /\ ProducerStep /\ UNCHANGED <<up, started, sharedVars, workerVars, tasks, cache>>
    BY <2>2, AddsNothingNext DEF LookupInv
  <2>3. CASE Die /\ UNCHANGED producerVars
    BY <2>3, AddsNothingNext DEF LookupInv, Die
  <2>4. ASSUME NEW w \in Workers, WorkerStep(w) PROVE LookupInv'
    <3>1. CASE DoQuery(w)
      BY <3>1, QueryAddsNothing
    <3>2. CASE ChooseThrows(w) \/ RedisFails(w)
      BY <2>3, <3>2 DEF ChooseThrows, RedisFails, Die
    <3>3. CASE (\E k \in Keys : CacheHit(w, k) \/ CacheMiss(w, k)) \/ AssignSought(w)
                 \/ Choose(w) \/ GetString(w) \/ AddData(w)
      <4>1. UNCHANGED <<indexFile, up, started, letters>>
        BY <3>3 DEF CacheHit, CacheMiss, Take, AssignSought, Choose, GetString, AddData,
                    Goes, Unshared, producerVars, sharedVars
      <4>2. QED
        BY <4>1, SameLetters
    <3>4. QED
      BY <2>4, <3>1, <3>2, <3>3 DEF WorkerStep
  <2>5. CASE Collide
    BY <2>3, <2>5 DEF Collide, Die
  <2>6. CASE (\E k \in Keys : WebAddData(k) \/ Expire(k)) \/ UNCHANGED vars
    <3>1. UNCHANGED <<indexFile, up, started, letters>>
      BY <2>6 DEF WebAddData, Expire, WebUnchanged, vars, producerVars, sharedVars
    <3>2. QED
      BY <3>1, SameLetters
  <2>7. QED
    BY <2>1, <2>2, <2>4, <2>5, <2>6 DEF Next
<1>3. LookupInv => LookupsAddNothing
  BY DEF LookupInv
<1>4. QED
  BY <1>1, <1>2, <1>3, PTL DEF Spec
-----------------------------------------------------------------------------
(* A set that has 0 and all successors of its members has all of Nat.       *)
LEMMA AllNaturals ==
  ASSUME NEW S, 0 \in S, \A n \in Nat : n \in S => n + 1 \in S
  PROVE  Nat \subseteq S
<1> DEFINE T == Nat \ S
<1> SUFFICES ASSUME T # {} PROVE FALSE
  OBVIOUS
<1>1. \E x \in T : \A y \in T : ~(<<y, x>> \in OpToRel(<, Nat))
  BY WFMin, NatLessThanWellFounded
<1>2. PICK x \in T : \A y \in T : ~(y < x)
  BY <1>1 DEF OpToRel
<1>3. x # 0
  OBVIOUS
<1>4. x - 1 \in Nat /\ x - 1 < x /\ (x - 1) + 1 = x
  BY <1>3
<1>5. x - 1 \in S
  BY <1>2, <1>4
<1>6. QED
  BY <1>4, <1>5

(* The equation of FlattenSeq, up to the n-th sequence.                     *)
Flattens(f, s, n) ==
  f = [i \in 1..n |-> IF i = 1 THEN s[i] ELSE f[i - 1] \o s[i]]

LEMMA FlattensMeans ==
  ASSUME NEW f, NEW s, NEW n \in Nat
  PROVE  Flattens(f, s, n) <=>
           /\ f = [i \in 1..n |-> f[i]]
           /\ \A i \in 1..n : f[i] = IF i = 1 THEN s[i] ELSE f[i - 1] \o s[i]
<1> DEFINE r == [i \in 1..n |-> IF i = 1 THEN s[i] ELSE f[i - 1] \o s[i]]
<1>1. ASSUME f = r
      PROVE  /\ f = [i \in 1..n |-> f[i]]
             /\ \A i \in 1..n : f[i] = IF i = 1 THEN s[i] ELSE f[i - 1] \o s[i]
  <2>1. PICK q : q = r
    OBVIOUS
  <2>2. /\ q = [i \in 1..n |-> q[i]]
        /\ \A i \in 1..n : q[i] = IF i = 1 THEN s[i] ELSE f[i - 1] \o s[i]
    BY <2>1
  <2> HIDE DEF r
  <2>3. QED
    BY <1>1, <2>1, <2>2
<1>2. ASSUME f = [i \in 1..n |-> f[i]],
             \A i \in 1..n : f[i] = IF i = 1 THEN s[i] ELSE f[i - 1] \o s[i]
      PROVE  f = r
  <2>1. \A i \in 1..n : f[i] = r[i]
    BY <1>2
  <2>2. r = [i \in 1..n |-> r[i]]
    OBVIOUS
  <2> HIDE DEF r
  <2>3. QED
    BY <1>2, <2>1, <2>2
<1>3. QED
  BY <1>1, <1>2 DEF Flattens

LEMMA FlattensExists ==
  ASSUME NEW s, NEW n \in Nat
  PROVE  \E f : Flattens(f, s, n)
<1> DEFINE S == {m \in Nat : \E f : Flattens(f, s, m)}
<1>1. 0 \in S
  <2>1. PICK f : f = [i \in 1..0 |-> s]
    OBVIOUS
  <2>2. f = [i \in 1..0 |-> f[i]] /\ 1..0 = {}
    BY <2>1
  <2>3. Flattens(f, s, 0)
    BY <2>2, FlattensMeans
  <2>4. QED
    BY <2>3
<1>2. ASSUME NEW m \in Nat, m \in S PROVE m + 1 \in S
  <2>1. PICK f : Flattens(f, s, m)
    BY <1>2
  <2>2. \A i \in 1..m : f[i] = IF i = 1 THEN s[i] ELSE f[i - 1] \o s[i]
    BY <2>1, FlattensMeans
  <2>3. PICK g : g = IF m + 1 = 1 THEN s[m + 1] ELSE f[m] \o s[m + 1]
    OBVIOUS
  <2>4. PICK v : v = [i \in 1..(m + 1) |-> IF i = m + 1 THEN g ELSE f[i]]
    OBVIOUS
  <2>5. /\ v = [i \in 1..(m + 1) |-> v[i]] /\ v[m + 1] = g
        /\ \A i \in 1..m : v[i] = f[i]
    BY <2>4
  <2>6. ASSUME NEW i \in 1..(m + 1)
        PROVE  v[i] = IF i = 1 THEN s[i] ELSE v[i - 1] \o s[i]
    <3>1. CASE i \in 1..m
      <4>1. i = 1 \/ i - 1 \in 1..m
        BY <3>1
      <4>2. QED
        BY <2>2, <2>5, <3>1, <4>1
    <3>2. CASE i = m + 1
      <4>1. i = 1 \/ (i - 1 = m /\ m \in 1..m)
        BY <3>2
      <4>2. QED
        BY <2>3, <2>5, <3>2, <4>1
    <3>3. QED
      BY <3>1, <3>2
  <2>7. Flattens(v, s, m + 1)
    <3>1. m + 1 \in Nat
      OBVIOUS
    <3>2. \A i \in 1..(m + 1) : v[i] = IF i = 1 THEN s[i] ELSE v[i - 1] \o s[i]
      BY <2>6
    <3>3. QED
      BY <2>5, <3>1, <3>2, FlattensMeans
  <2>8. QED
    BY <2>7
<1>3. QED
  BY <1>1, <1>2, AllNaturals

(* Sequences of a set that has the empty one and, with two, the two joined, *)
(* are a sequence of that set when they are all joined.                     *)
LEMMA FlattenSeqStays ==
  ASSUME NEW S, <<>> \in S, \A x, y \in S : x \o y \in S, NEW s \in Seq(S)
  PROVE  FlattenSeq(s) \in S
<1>1. CASE Len(s) = 0
  <2>1. s = <<>>
    BY <1>1
  <2>2. QED
    BY <1>1, <2>1 DEF FlattenSeq
<1>2. CASE Len(s) # 0
  <2> DEFINE f == CHOOSE g : Flattens(g, s, Len(s))
  <2>1. FlattenSeq(s) = f[Len(s)]
    BY <1>2 DEF FlattenSeq, Flattens
  <2>2. Flattens(f, s, Len(s))
    <3>1. Len(s) \in Nat
      OBVIOUS
    <3>2. \E g : Flattens(g, s, Len(s))
      BY <3>1, FlattensExists
    <3>3. QED
      BY <3>2
  <2> HIDE DEF f
  <2>3. \A i \in 1..Len(s) : f[i] = IF i = 1 THEN s[i] ELSE f[i - 1] \o s[i]
    BY <2>2, FlattensMeans
  <2> DEFINE T == {m \in Nat : m \in 1..Len(s) => f[m] \in S}
  <2>4. 0 \in T
    OBVIOUS
  <2>5. ASSUME NEW m \in Nat, m \in T PROVE m + 1 \in T
    <3> SUFFICES ASSUME m + 1 \in 1..Len(s) PROVE f[m + 1] \in S
      OBVIOUS
    <3>1. s[m + 1] \in S
      OBVIOUS
    <3>2. CASE m = 0
      BY <2>3, <3>1, <3>2
    <3>3. CASE m # 0
      <4>1. m \in 1..Len(s) /\ (m + 1) - 1 = m /\ m + 1 # 1
        BY <3>3
      <4>2. f[m] \in S
        BY <2>5, <4>1
      <4>3. f[m + 1] = f[m] \o s[m + 1]
        BY <2>3, <4>1
      <4>4. QED
        BY <3>1, <4>2, <4>3
    <3>4. QED
      BY <3>2, <3>3
  <2>6. Nat \subseteq T
    <3> HIDE DEF T
    <3>1. QED
      BY <2>4, <2>5, AllNaturals
  <2>7. QED
    BY <1>2, <2>1, <2>6
<1>3. QED
  BY <1>1, <1>2

Byte == Letters \X (0..3)
(* The bytes of narrow letters, and those of wide ones.                     *)
NarrowBytes == {b \in Seq(Byte) : \A j \in 1..Len(b) : b[j][2] = 0}
WideBytes ==
  {b \in Seq(Byte) : Len(b) % 3 = 0 /\ \A j \in 1..Len(b) : b[j][2] = ((j - 1) % 3) + 1}

LEMMA NarrowJoin == <<>> \in NarrowBytes /\ \A x, y \in NarrowBytes : x \o y \in NarrowBytes
<1>1. <<>> \in NarrowBytes
  BY DEF NarrowBytes
<1>2. ASSUME NEW x \in NarrowBytes, NEW y \in NarrowBytes PROVE x \o y \in NarrowBytes
  <2>1. /\ x \in Seq(Byte) /\ y \in Seq(Byte)
        /\ \A j \in 1..Len(x) : x[j][2] = 0
        /\ \A j \in 1..Len(y) : y[j][2] = 0
    BY DEF NarrowBytes
  <2>2. /\ x \o y \in Seq(Byte) /\ Len(x \o y) = Len(x) + Len(y)
        /\ \A j \in 1..(Len(x) + Len(y)) :
             (x \o y)[j] = IF j <= Len(x) THEN x[j] ELSE y[j - Len(x)]
    BY <2>1, ConcatProperties
  <2>3. ASSUME NEW j \in 1..Len(x \o y) PROVE (x \o y)[j][2] = 0
    <3>1. CASE j <= Len(x)
      BY <2>1, <2>2, <3>1
    <3>2. CASE j > Len(x)
      <4>1. PICK i \in 1..Len(y) : i = j - Len(x)
        BY <2>1, <2>2, <3>2
      <4>2. QED
        BY <2>1, <2>2, <3>2, <4>1
    <3>3. QED
      BY <2>1, <3>1, <3>2
  <2>4. QED
    BY <2>2, <2>3 DEF NarrowBytes
<1>3. QED
  BY <1>1, <1>2

LEMMA ThreesAdded ==
  ASSUME NEW m \in Nat, m % 3 = 0, NEW n \in Nat
  PROVE  (n + m) % 3 = n % 3
OBVIOUS

LEMMA WideJoin == <<>> \in WideBytes /\ \A x, y \in WideBytes : x \o y \in WideBytes
<1>1. <<>> \in WideBytes
  <2>1. <<>> \in Seq(Byte) /\ Len(<<>>) = 0 /\ 0 % 3 = 0
    OBVIOUS
  <2>2. QED
    BY <2>1 DEF WideBytes
<1>2. ASSUME NEW x \in WideBytes, NEW y \in WideBytes PROVE x \o y \in WideBytes
  <2>1. /\ x \in Seq(Byte) /\ y \in Seq(Byte)
        /\ Len(x) % 3 = 0 /\ Len(y) % 3 = 0
        /\ \A j \in 1..Len(x) : x[j][2] = ((j - 1) % 3) + 1
        /\ \A j \in 1..Len(y) : y[j][2] = ((j - 1) % 3) + 1
    BY DEF WideBytes
  <2>2. /\ x \o y \in Seq(Byte) /\ Len(x \o y) = Len(x) + Len(y)
        /\ \A j \in 1..(Len(x) + Len(y)) :
             (x \o y)[j] = IF j <= Len(x) THEN x[j] ELSE y[j - Len(x)]
    BY <2>1, ConcatProperties
  <2>0. PICK m \in Nat, n \in Nat : m = Len(x) /\ n = Len(y)
    BY <2>1
  <2>3. m + n \in Nat /\ (m + n) % 3 = 0
    <3>1. n % 3 = 0 /\ m % 3 = 0 /\ m + n = n + m
      BY <2>0, <2>1
    <3>2. QED
      BY <3>1, ThreesAdded
  <2>4. ASSUME NEW j \in 1..Len(x \o y) PROVE (x \o y)[j][2] = ((j - 1) % 3) + 1
    <3>1. CASE j <= Len(x)
      BY <2>1, <2>2, <3>1
    <3>2. CASE j > Len(x)
      <4>0. j \in Int /\ j <= m + n /\ j > m
        BY <2>0, <2>2, <3>2
      <4>1. PICK i \in 1..n : i = j - m
        BY <4>0
      <4>2. (x \o y)[j] = y[i]
        BY <2>0, <2>2, <3>2, <4>1
      <4>3. y[i][2] = ((i - 1) % 3) + 1
        BY <2>0, <2>1
      <4>4. (j - 1) % 3 = (i - 1) % 3
        <5>1. j - 1 = (i - 1) + m /\ i - 1 \in Nat
          BY <4>0, <4>1
        <5>2. m % 3 = 0
          BY <2>0, <2>1
        <5>3. QED
          BY <5>1, <5>2, ThreesAdded
      <4>5. QED
        BY <4>2, <4>3, <4>4
    <3>3. QED
      BY <2>1, <2>2, <3>1, <3>2
  <2>5. QED
    BY <2>0, <2>2, <2>3, <2>4 DEF WideBytes
<1>3. QED
  BY <1>1, <1>2

LEMMA BytesOfPure ==
  ASSUME NEW k \in Seq(Letters)
  PROVE  /\ Range(k) \subseteq Narrow => Bytes(k) \in NarrowBytes
         /\ Range(k) \subseteq Wide => Bytes(k) \in WideBytes
<1> DEFINE s == [i \in DOMAIN k |->
    IF k[i] \in Wide THEN [b \in 1..3 |-> <<k[i], b>>] ELSE << <<k[i], 0>> >>]
<1>0. DOMAIN k = 1..Len(k) /\ Bytes(k) = FlattenSeq(s)
  BY DEF Bytes
<1>1. ASSUME Range(k) \subseteq Narrow PROVE Bytes(k) \in NarrowBytes
  <2>1. ASSUME NEW i \in DOMAIN k PROVE s[i] \in NarrowBytes
    <3>1. k[i] \in Narrow /\ ~(k[i] \in Wide)
      BY <1>1, KeyDictionaryAssumption DEF Range
    <3>2. s[i] = << <<k[i], 0>> >>
      BY <3>1
    <3>3. <<k[i], 0>> \in Byte
      BY <3>1 DEF Byte
    <3>4. QED
      BY <3>2, <3>3 DEF NarrowBytes
  <2>2. s \in Seq(NarrowBytes)
    <3>1. \A i \in 1..Len(k) : s[i] \in NarrowBytes
      BY <1>0, <2>1
    <3>2. s = [i \in 1..Len(k) |-> s[i]] /\ Len(k) \in Nat
      BY <1>0
    <3> HIDE DEF s
    <3>3. QED
      BY <3>1, <3>2
  <2>3. QED
    BY <1>0, <2>2, NarrowJoin, FlattenSeqStays
<1>2. ASSUME Range(k) \subseteq Wide PROVE Bytes(k) \in WideBytes
  <2>1. ASSUME NEW i \in DOMAIN k PROVE s[i] \in WideBytes
    <3>1. k[i] \in Wide
      BY <1>2 DEF Range
    <3>2. PICK l : l = [b \in 1..3 |-> <<k[i], b>>]
      OBVIOUS
    <3>3. \A b \in 1..3 : <<k[i], b>> \in Byte
      BY <3>1 DEF Byte
    <3>4. l \in Seq(Byte) /\ Len(l) = 3 /\ \A b \in 1..3 : l[b][2] = b
      BY <3>2, <3>3
    <3>5. 3 % 3 = 0 /\ \A b \in 1..3 : b = ((b - 1) % 3) + 1
      OBVIOUS
    <3>6. l \in WideBytes
      BY <3>4, <3>5 DEF WideBytes
    <3>7. QED
      BY <3>1, <3>2, <3>6
  <2>2. s \in Seq(WideBytes)
    <3>1. \A i \in 1..Len(k) : s[i] \in WideBytes
      BY <1>0, <2>1
    <3>2. s = [i \in 1..Len(k) |-> s[i]] /\ Len(k) \in Nat
      BY <1>0
    <3> HIDE DEF s
    <3>3. QED
      BY <3>1, <3>2
  <2>3. QED
    BY <1>0, <2>2, WideJoin, FlattenSeqStays
<1>3. QED
  BY <1>1, <1>2

(* All the letters of a key of one script are of the size that its first    *)
(* byte tells.                                                              *)
LEMMA PureLetters ==
  ASSUME NEW k \in Seq(Letters), Pure(k)
  PROVE  /\ KeyLetters(k) = Chunks(Bytes(k), SizeOf(TypeOf(k)))
         /\ \A c \in KeyLetters(k) : CharLen(c) = SizeOf(TypeOf(k))
<1> DEFINE b == Bytes(k)
<1>1. b \in NarrowBytes \/ b \in WideBytes
  BY BytesOfPure DEF Pure
<1>2. b \in Seq(Byte)
  BY <1>1 DEF NarrowBytes, WideBytes
<1>3. PICK n \in {1, 3} :
        /\ CharLen(b) = n
        /\ \A i \in 1..Len(b) : (i - 1) % n = 0 => b[i][2] = IF n = 1 THEN 0 ELSE 1
  <2>1. CASE b = <<>>
    BY <2>1 DEF CharLen
  <2>2. CASE b # <<>> /\ b \in NarrowBytes
    <3>1. 1 \in 1..Len(b)
      BY <1>2, <2>2
    <3>2. \A i \in 1..Len(b) : b[i][2] = 0
      BY <2>2 DEF NarrowBytes
    <3>3. QED
      BY <2>2, <3>1, <3>2 DEF CharLen
  <2>3. CASE b # <<>> /\ b \in WideBytes
    <3>1. 1 \in 1..Len(b)
      BY <1>2, <2>3
    <3>2. \A i \in 1..Len(b) : b[i][2] = ((i - 1) % 3) + 1
      BY <2>3 DEF WideBytes
    <3>3. \A i \in 1..Len(b) : (i - 1) % 3 = 0 => b[i][2] = 1
      BY <3>2
    <3>4. b[1][2] = 1
      BY <3>1, <3>3
    <3>5. QED
      BY <2>3, <3>3, <3>4 DEF CharLen
  <2>4. QED
    BY <1>1, <2>1, <2>2, <2>3
<1>4. SizeOf(TypeOf(k)) = n /\ KeyLetters(k) = Chunks(b, n)
  BY <1>3 DEF SizeOf, TypeOf, KeyLetters
<1>5. ASSUME NEW c \in Chunks(b, n) PROVE CharLen(c) = n
  <2>1. PICK i \in DOMAIN b : (i - 1) % n = 0 /\ c = SubSeq(b, i, Least(i + n - 1, Len(b)))
    BY DEF Chunks
  <2>2. i \in 1..Len(b)
    BY <1>2
  <2>3. PICK last \in 1..Len(b) : last = Least(i + n - 1, Len(b)) /\ i <= last
    BY <1>2, <2>2 DEF Least
  <2>4. c # <<>> /\ c[1] = b[i]
    <3>1. c = SubSeq(b, i, last)
      BY <2>1, <2>3
    <3> HIDE DEF b
    <3>2. QED
      BY <1>2, <2>2, <2>3, <3>1, SubSeqProperties, SMTT(30)
  <2>5. QED
    BY <1>3, <2>1, <2>2, <2>4 DEF CharLen
<1>6. QED
  BY <1>4, <1>5
-----------------------------------------------------------------------------
LEMMA BytesOfEmpty == Bytes(<<>>) = <<>>
<1>1. PICK s : s = [i \in DOMAIN <<>> |->
    IF <<>>[i] \in Wide THEN [b \in 1..3 |-> << <<>>[i], b>>] ELSE << << <<>>[i], 0>> >>]
  OBVIOUS
<1>2. s = <<>> /\ Len(s) = 0
  BY <1>1
<1>3. FlattenSeq(s) = s
  BY <1>2 DEF FlattenSeq
<1>4. QED
  BY <1>1, <1>2, <1>3 DEF Bytes

LEMMA Joined ==
  ASSUME NEW S, NEW x \in Seq(S), NEW y \in Seq(S)
  PROVE  x \o y \in Seq(S) /\ Len(x \o y) = Len(x) + Len(y)
BY ConcatProperties

LEMMA Flattened ==
  ASSUME NEW S, NEW s \in Seq(Seq(S)) PROVE FlattenSeq(s) \in Seq(S)
<1>1. PICK T : T = Seq(S)
  OBVIOUS
<1>2. <<>> \in T
  BY <1>1
<1>3. \A x, y \in T : x \o y \in T
  BY <1>1, Joined
<1>4. QED
  BY <1>1, <1>2, <1>3, FlattenSeqStays

LEMMA BytesTyped == \A k \in Seq(Letters) : Bytes(k) \in Seq(Byte)
<1> SUFFICES ASSUME NEW k \in Seq(Letters) PROVE Bytes(k) \in Seq(Byte)
  OBVIOUS
<1>1. PICK s : s = [i \in DOMAIN k |->
    IF k[i] \in Wide THEN [b \in 1..3 |-> <<k[i], b>>] ELSE << <<k[i], 0>> >>]
  OBVIOUS
<1>2. ASSUME NEW i \in 1..Len(k) PROVE s[i] \in Seq(Byte)
  <2>1. k[i] \in Letters /\ s[i] = IF k[i] \in Wide THEN [b \in 1..3 |-> <<k[i], b>>] ELSE << <<k[i], 0>> >>
    <3>1. i \in DOMAIN k /\ k[i] \in Letters
      OBVIOUS
    <3>2. s[i] = IF k[i] \in Wide THEN [b \in 1..3 |-> <<k[i], b>>] ELSE << <<k[i], 0>> >>
      BY <1>1, <3>1, Zenon
    <3>3. QED
      BY <3>1, <3>2
  <2>2. \A b \in 0..3 : <<k[i], b>> \in Byte
    BY <2>1 DEF Byte
  <2>3. QED
    BY <2>1, <2>2
<1>3. s = [i \in 1..Len(k) |-> s[i]] /\ Len(k) \in Nat
  BY <1>1
<1>4. s \in Seq(Seq(Byte))
  BY <1>2, <1>3
<1>5. QED
  BY <1>1, <1>4, Flattened DEF Bytes

Leads(f, k) ==
  /\ f \subseteq DOMAIN words[TypeOf(k)]
  /\ f = {} => NoneShares(k)
  /\ k = <<>> => f = {}

(* With intact files the places found for a key of one script are those of  *)
(* the words of its type that have one of its letters: what the index in    *)
(* memory has more leads nowhere, and the other index has no such letter.   *)
LEMMA PureCandidates ==
  ASSUME StoreInv, LookupInv, up, words = ReadDict, Intact,
         NEW k \in Seq(Letters), Pure(k)
  PROVE  Leads(Candidates(letters, k), k)
<1> DEFINE t == TypeOf(k)
           d == dictFile[t]
           n == SizeOf(t)
<1>1. t \in Types /\ "ENG" \in Types
  BY DEF TypeOf, Types
<1>2. /\ {"ENG", t} \subseteq DOMAIN dictFile /\ {"ENG", t} \subseteq DOMAIN indexFile
      /\ indexFile[t] = Indexed(d, n)
  BY <1>1 DEF StoreInv, Intact, StoredWordsAreFound
<1>3. words[t] = d /\ ReadDict[t] = d
  BY <1>1, <1>2 DEF ReadDict, ReadInOrder
<1>4. ReadIndex[t] = [c \in {p[1] : p \in indexFile[t]} |->
                        {p[2] : p \in {p \in indexFile[t] : p[1] = c}}]
  BY <1>1, <1>2 DEF ReadIndex, ReadInOrder
<1>5. IndexIs(letters[t], ReadIndex[t])
  BY <1>1, AddsNothing DEF LookupInv
<1>6. ASSUME NEW i \in DOMAIN d, NEW c \in Chunks(Bytes(d[i].word), n)
      PROVE  c \in DOMAIN letters[t] /\ i \in letters[t][c]
  <2>1. PICK p \in indexFile[t] : p = <<c, i>>
    <3>1. PICK e : e = {<<x, i>> : x \in Chunks(Bytes(d[i].word), n)}
      OBVIOUS
    <3>2. <<c, i>> \in e
      BY <3>1
    <3>3. e \subseteq Indexed(d, n)
      BY <3>1 DEF Indexed
    <3>4. QED
      BY <1>2, <3>2, <3>3
  <2>2. c \in DOMAIN ReadIndex[t] /\ i \in ReadIndex[t][c]
    BY <1>4, <2>1
  <2>3. QED
    BY <1>5, <2>2 DEF IndexIs
<1>7. ASSUME NEW c \in DOMAIN letters[t], NEW i \in letters[t][c]
      PROVE  i \in DOMAIN d
  <2>1. c \in DOMAIN ReadIndex[t] /\ i \in ReadIndex[t][c]
    BY <1>5 DEF IndexIs
  <2>2. PICK p \in indexFile[t] : p[2] = i
    BY <1>4, <2>1
  <2>3. QED
    BY <1>2, <2>2 DEF Indexed
<1>8. /\ KeyLetters(k) = Chunks(Bytes(k), n)
      /\ \A c \in KeyLetters(k) : CharLen(c) = n
  BY PureLetters
<1>9. LettersOf(k, t) = Chunks(Bytes(k), n)
  BY <1>8 DEF LettersOf
<1>10. \A u \in Types : u # t => LettersOf(k, u) = {}
  BY <1>1, <1>8 DEF LettersOf, SizeOf, Types
<1>11. Candidates(letters, k) =
         UNION {letters[t][c] : c \in Chunks(Bytes(k), n) \cap DOMAIN letters[t]}
  BY <1>1, <1>9, <1>10 DEF Candidates
<1>12. Candidates(letters, k) \subseteq DOMAIN words[t]
  BY <1>3, <1>7, <1>11
<1>13. ASSUME Candidates(letters, k) = {} PROVE NoneShares(k)
  <2>1. ASSUME NEW i \in DOMAIN d, NEW c \in Chunks(Bytes(d[i].word), n),
               c \in Chunks(Bytes(k), n)
        PROVE  FALSE
    <3>1. c \in DOMAIN letters[t] /\ i \in letters[t][c]
      BY <1>6
    <3>2. i \in Candidates(letters, k)
      BY <1>11, <2>1, <3>1
    <3>3. QED
      BY <1>13, <3>2
  <2>2. QED
    BY <1>3, <2>1 DEF NoneShares
<1>14. ASSUME k = <<>> PROVE Candidates(letters, k) = {}
  <2>1. \A m : Chunks(<<>>, m) = {}
    BY DEF Chunks
  <2>2. Chunks(Bytes(k), n) = {}
    BY <1>14, <2>1, BytesOfEmpty
  <2>3. QED
    BY <1>11, <2>2
<1>15. QED
  BY <1>12, <1>13, <1>14 DEF Leads

(* No more letters lead to a place than the key has.                        *)
LEMMA ChunksFinite ==
  ASSUME NEW S, NEW b \in Seq(S), NEW n PROVE IsFiniteSet(Chunks(b, n))
<1>1. PICK P : P = {i \in DOMAIN b : (i - 1) % n = 0}
  OBVIOUS
<1>2. PICK f : f = [i \in P |-> SubSeq(b, i, Least(i + n - 1, Len(b)))]
  OBVIOUS
<1>3. IsFiniteSet(P)
  <2>1. P \subseteq 1..Len(b) /\ 1 \in Int /\ Len(b) \in Int
    BY <1>1
  <2>2. QED
    BY <2>1, FS_Interval, FS_Subset
<1>4. f \in Surjection(P, Range(f))
  BY <1>2 DEF Surjection, Range
<1>5. Chunks(b, n) = Range(f)
  BY <1>1, <1>2 DEF Chunks, Range
<1>6. QED
  BY <1>3, <1>4, <1>5, FS_Surjection

LEMMA LettersAreFinite ==
  ASSUME NEW k \in Seq(Letters) PROVE IsFiniteSet(KeyLetters(k))
<1>1. PICK b \in Seq(Byte) : b = Bytes(k)
  BY BytesTyped
<1>2. IsFiniteSet({b}) /\ IsFiniteSet(Chunks(b, CharLen(b)))
  BY ChunksFinite, FS_Singleton
<1>3. QED
  BY <1>1, <1>2 DEF KeyLetters

(* A word_map has a number of hits for each place, at most one a letter.    *)
Counts(h, k) == \A n \in DOMAIN h : h[n] \in Nat /\ h[n] <= Cardinality(KeyLetters(k))

LEMMA HitsCount ==
  ASSUME NEW k \in Seq(Letters), NEW idx
  PROVE  DOMAIN Hits(idx, k) = Candidates(idx, k) /\ Counts(Hits(idx, k), k)
<1>1. ASSUME NEW n
      PROVE  /\ Cardinality(Leading(idx, k, n)) \in Nat
             /\ Cardinality(Leading(idx, k, n)) <= Cardinality(KeyLetters(k))
  <2>1. Leading(idx, k, n) \subseteq KeyLetters(k)
    BY DEF Leading
  <2>2. QED
    BY <2>1, LettersAreFinite, FS_Subset, FS_CardinalityType
<1>2. PICK h : h = [n \in Candidates(idx, k) |-> Cardinality(Leading(idx, k, n))]
  OBVIOUS
<1>3. DOMAIN h = Candidates(idx, k) /\ \A n \in DOMAIN h : h[n] = Cardinality(Leading(idx, k, n))
  BY <1>2
<1>4. Hits(idx, k) = h
  BY <1>2 DEF Hits
<1>5. QED
  BY <1>1, <1>3, <1>4 DEF Counts

-----------------------------------------------------------------------------
(* What is known of a worker whose query has overlapped no other: its key   *)
(* is what is sought, what it has found is what its key leads to, and once  *)
(* it has an answer its key leads nowhere.                                  *)
AloneInv(w) ==
  w \notin raced =>
    /\ wpc[w] \in {"lookup", "choose"} => sought = msg[w]
    /\ Intact /\ Pure(msg[w]) =>
         /\ wpc[w] = "choose" =>
              Leads(DOMAIN found[w], msg[w]) /\ Counts(found[w], msg[w])
         /\ wpc[w] \in {"answer", "set"} => NoneShares(msg[w])

NothingShared == Intact => \A k \in Keys : Undisturbed(k) => NoneShares(k)

AnswersInv ==
  /\ StoreInv /\ LookupInv
  /\ DOMAIN wpc = Workers /\ DOMAIN found = Workers /\ DOMAIN cache = Keys
  /\ msg \in [Workers -> Keys \cup {<<>>}]
  /\ up => words = ReadDict
  /\ ~up => \A w \in Workers : wpc[w] = "idle"
  /\ ~started => \A k \in Keys : cache[k] = None
  /\ \A v, w \in Workers : v # w /\ wpc[v] \in InQuery /\ wpc[w] \in InQuery => v \in raced
  /\ \A w \in Workers : AloneInv(w)
  /\ NothingShared

LEMMA AnswersInit == Init => AnswersInv
<1> SUFFICES ASSUME Init PROVE AnswersInv
  OBVIOUS
<1>1. StoreInv
  BY StoreInit
<1>2. /\ up = FALSE /\ started = FALSE
      /\ wpc = [w \in Workers |-> "idle"] /\ msg = [w \in Workers |-> <<>>]
      /\ found = [w \in Workers |-> <<>>] /\ cache = [k \in Keys |-> None]
  BY DEF Init, NoTask, NoList
<1>3. LookupInv
  BY <1>2 DEF LookupInv, LookupsAddNothing
<1>4. \A w \in Workers : AloneInv(w)
  BY <1>2 DEF AloneInv
<1>5. NothingShared
  BY <1>2 DEF NothingShared, Undisturbed
<1>6. QED
  BY <1>1, <1>2, <1>3, <1>4, <1>5 DEF AnswersInv, InQuery

LEMMA SameFiles ==
  ASSUME UNCHANGED <<dictFile, stored, started>>
  PROVE  /\ ReadDict' = ReadDict /\ (Intact' <=> Intact)
         /\ \A k : NoneShares(k)' <=> NoneShares(k)
<1>1. ReadDict' = ReadDict
  BY DEF ReadDict, ReadInOrder
<1>2. Intact' <=> Intact
  BY DEF Intact
<1>3. QED
  BY <1>1, <1>2 DEF NoneShares

LEMMA AloneKept ==
  ASSUME UNCHANGED <<dictFile, stored, started, words>>,
         NEW v \in Workers, AloneInv(v),
         wpc'[v] = wpc[v], msg'[v] = msg[v], found'[v] = found[v],
         v \notin raced' => v \notin raced /\ (sought' = sought \/ wpc[v] \notin {"lookup", "choose"})
  PROVE  AloneInv(v)'
BY SameFiles DEF AloneInv, Leads, Counts

LEMMA AnswersKept ==
  ASSUME UNCHANGED <<dictFile, stored, started>>, NothingShared, UNCHANGED cache
  PROVE  NothingShared'
BY SameFiles DEF NothingShared, Undisturbed

LEMMA MessagesAreKeys ==
  ASSUME AnswersInv, NEW w \in Workers PROVE msg[w] \in Seq(Letters)
<1>1. msg[w] \in Keys \/ msg[w] = <<>>
  BY DEF AnswersInv
<1>2. CASE msg[w] = <<>>
  <2>1. <<>> \in Seq(Letters)
    OBVIOUS
  <2>2. QED
    BY <1>2, <2>1, Zenon
<1>3. CASE msg[w] \in Keys
  BY <1>3, RecommanderAssumption, Zenon
<1>4. QED
  BY <1>1, <1>2, <1>3

LEMMA AloneReads ==
  ASSUME AnswersInv, NEW w \in Workers, w \notin raced, wpc[w] \in {"lookup", "choose"}
  PROVE  SoughtReads(w) = {msg[w]}
<1>1. sought = msg[w]
  BY DEF AnswersInv, AloneInv
<1>2. ~\E v \in Workers \ {w} : wpc[v] = "assign"
  BY DEF AnswersInv, InQuery
<1>3. QED
  BY <1>1, <1>2 DEF SoughtReads
-----------------------------------------------------------------------------
(* What every step of a worker leaves alone.                                *)
Serving == UNCHANGED <<producerVars, up, started, words>>

LEMMA WorkerAnswers ==
  ASSUME AnswersInv, Serving, LookupInv', up,
         DOMAIN wpc' = Workers, DOMAIN found' = Workers, DOMAIN cache' = Keys,
         msg' \in [Workers -> Keys \cup {<<>>}],
         ~started => UNCHANGED cache,
         \A v, w \in Workers :
           v # w /\ wpc'[v] \in InQuery /\ wpc'[w] \in InQuery => v \in raced',
         \A w \in Workers : AloneInv(w)',
         NothingShared'
  PROVE  AnswersInv'
<1>1. StoreInv'
  BY SameProducer DEF AnswersInv, Serving
<1>2. up' /\ words' = ReadDict'
  <2>1. UNCHANGED <<dictFile, stored, started, words, up>>
    BY DEF Serving, producerVars
  <2>2. QED
    BY <2>1, SameFiles DEF AnswersInv
<1>3. started' = started
  BY DEF Serving
<1>4. QED
  BY <1>1, <1>2, <1>3 DEF AnswersInv

LEMMA MissAnswers ==
  ASSUME AnswersInv, NEW w \in Workers, NEW k \in Keys, CacheMiss(w, k)
  PROVE  AnswersInv'
<1>1. /\ Serving /\ up /\ wpc[w] = "idle"
      /\ UNCHANGED <<letters, sought, found, cache, dictFile, stored, started, indexFile>>
      /\ wpc' = [wpc EXCEPT ![w] = "assign"] /\ msg' = [msg EXCEPT ![w] = k]
      /\ raced' = IF Others(w) = {} THEN raced ELSE raced \cup {w} \cup Others(w)
  BY DEF CacheMiss, Take, Serving, sharedVars, producerVars
<1>2. LookupInv'
  BY <1>1, SameLetters DEF AnswersInv, Serving
<1>3. ASSUME NEW u \in Workers, NEW v \in Workers,
             u # v, wpc'[u] \in InQuery, wpc'[v] \in InQuery
      PROVE  u \in raced'
  <2>1. CASE u # w /\ v # w
    BY <1>1, <1>3, <2>1 DEF AnswersInv
  <2>2. CASE u = w
    <3>1. v \in Others(w)
      BY <1>1, <1>3, <2>2 DEF AnswersInv, Others
    <3>2. QED
      BY <1>1, <2>2, <3>1
  <2>3. CASE v = w
    <3>1. u \in Others(w)
      BY <1>1, <1>3, <2>3 DEF AnswersInv, Others
    <3>2. QED
      BY <1>1, <3>1
  <2>4. QED
    BY <2>1, <2>2, <2>3
<1>4. ASSUME NEW v \in Workers PROVE AloneInv(v)'
  <2>1. CASE v = w
    <3>1. wpc'[v] = "assign"
      BY <1>1, <2>1 DEF AnswersInv
    <3>2. QED
      BY <3>1 DEF AloneInv
  <2>2. CASE v # w
    <3>1. wpc'[v] = wpc[v] /\ msg'[v] = msg[v] /\ found'[v] = found[v] /\ (v \notin raced' => v \notin raced)
      BY <1>1, <2>2 DEF AnswersInv
    <3>2. QED
      BY <1>1, <3>1, AloneKept DEF AnswersInv, Serving
  <2>3. QED
    BY <2>1, <2>2
<1>5. NothingShared'
  BY <1>1, AnswersKept DEF AnswersInv
<1>6. QED
  BY <1>1, <1>2, <1>3, <1>4, <1>5, WorkerAnswers DEF AnswersInv

(* The steps of a worker from one use of the KeyRecommander to the next, or *)
(* to none.                                                                 *)
Advances(w, from, to) ==
  /\ Goes(w, from, to) /\ Serving
  /\ UNCHANGED <<msg, raced, cache>>
  /\ from \in InQuery /\ to \in InQuery \cup {"set"}
  /\ DOMAIN found' = Workers /\ \A v \in Workers : v # w => found'[v] = found[v]

LEMMA AdvanceAnswers ==
  ASSUME AnswersInv, LookupInv', NEW w \in Workers, NEW from, NEW to, Advances(w, from, to),
         sought' = sought \/ from = "assign", AloneInv(w)'
  PROVE  AnswersInv'
<1>1. /\ Serving /\ up /\ wpc[w] = from
      /\ UNCHANGED <<msg, raced, cache, dictFile, stored, started, words>>
      /\ wpc' = [wpc EXCEPT ![w] = to]
      /\ from \in InQuery /\ to \in InQuery \cup {"set"}
      /\ DOMAIN found' = Workers /\ \A v \in Workers : v # w => found'[v] = found[v]
  BY DEF Advances, Goes, Serving, producerVars
<1>2. DOMAIN wpc' = Workers /\ DOMAIN found' = Workers
  BY <1>1 DEF AnswersInv
<1>3. ASSUME NEW u \in Workers, NEW v \in Workers,
             u # v, wpc'[u] \in InQuery, wpc'[v] \in InQuery
      PROVE  u \in raced'
  <2>1. wpc[u] \in InQuery /\ wpc[v] \in InQuery
    BY <1>1, <1>3 DEF AnswersInv
  <2>2. QED
    BY <1>1, <1>3, <2>1 DEF AnswersInv
<1>4. ASSUME NEW v \in Workers, v # w PROVE AloneInv(v)'
  <2>1. wpc'[v] = wpc[v] /\ msg'[v] = msg[v] /\ found'[v] = found[v]
    BY <1>1, <1>4 DEF AnswersInv
  <2>2. wpc[v] \in {"lookup", "choose"} => v \in raced
    BY <1>1, <1>4 DEF AnswersInv, InQuery
  <2>3. AloneInv(v)
    BY DEF AnswersInv
  <2>4. QED
    BY <1>1, <2>1, <2>2, <2>3, AloneKept
<1>5. NothingShared'
  BY <1>1, AnswersKept DEF AnswersInv
<1>6. \A v \in Workers : AloneInv(v)'
  BY <1>4
<1>7. DOMAIN cache' = Keys /\ msg' \in [Workers -> Keys \cup {<<>>}]
  BY <1>1 DEF AnswersInv
<1>8. QED
  BY <1>1, <1>2, <1>3, <1>5, <1>6, <1>7, WorkerAnswers

LEMMA AssignAnswers ==
  ASSUME AnswersInv, NEW w \in Workers, AssignSought(w) PROVE AnswersInv'
<1>1. /\ Advances(w, "assign", "lookup") /\ UNCHANGED <<letters, indexFile>>
      /\ sought' = msg[w]
  <2>1. found' = found /\ DOMAIN found = Workers
    BY DEF AssignSought, AnswersInv
  <2>2. QED
    BY <2>1 DEF AssignSought, Goes, Advances, Serving, Unshared, producerVars, InQuery
<1>2. LookupInv'
  BY <1>1, SameLetters DEF AnswersInv, Advances, Serving
<1>3. wpc'[w] = "lookup" /\ msg' = msg
  BY <1>1 DEF Advances, Goes, AnswersInv
<1>4. AloneInv(w)'
  BY <1>1, <1>3 DEF AloneInv
<1>5. QED
  BY <1>1, <1>2, <1>4, AdvanceAnswers

LEMMA QueryAnswers ==
  ASSUME AnswersInv, NEW w \in Workers, DoQuery(w) PROVE AnswersInv'
<1>1. /\ Goes(w, "lookup", "choose") /\ Serving
      /\ UNCHANGED <<msg, raced, cache, sought, dictFile, stored, started, words>>
  BY DEF DoQuery, Serving, Unshared, producerVars
<1>2. PICK k \in SoughtReads(w) :
        found' = [found EXCEPT ![w] = Hits(letters, k)]
  BY DEF DoQuery
<1>3. found'[w] = Hits(letters, k) /\ wpc[w] = "lookup" /\ wpc'[w] = "choose"
  BY <1>1, <1>2 DEF AnswersInv, Goes
<1>4. Advances(w, "lookup", "choose")
  BY <1>1, <1>2, <1>3 DEF Advances, InQuery, AnswersInv
<1>5. LookupInv'
  BY QueryAddsNothing DEF AnswersInv
<1>6. ASSUME w \notin raced, Intact, Pure(msg[w])
      PROVE  Leads(DOMAIN found'[w], msg[w]) /\ Counts(found'[w], msg[w])
  <2>1. k = msg[w]
    BY <1>2, <1>3, <1>6, AloneReads
  <2>2. up /\ words = ReadDict /\ StoreInv /\ LookupInv
    BY <1>1 DEF AnswersInv, Goes
  <2>3. msg[w] \in Seq(Letters)
    BY MessagesAreKeys
  <2>4. DOMAIN found'[w] = Candidates(letters, msg[w]) /\ Counts(found'[w], msg[w])
    BY <1>3, <2>1, <2>3, HitsCount
  <2>5. Leads(Candidates(letters, msg[w]), msg[w])
    BY <1>6, <2>2, <2>3, PureCandidates
  <2>6. QED
    BY <2>4, <2>5
<1>7. AloneInv(w)'
  <2>1. w \notin raced => sought = msg[w]
    BY <1>3 DEF AnswersInv, AloneInv
  <2>2. QED
    BY <1>1, <1>3, <1>6, <2>1, SameFiles DEF AloneInv, Leads, Counts
<1>8. QED
  BY <1>1, <1>4, <1>5, <1>7, AdvanceAnswers

(* A key leads nowhere if the loop over what it leads to did not throw.     *)
LEMMA ChooseAlone ==
  ASSUME AnswersInv, NEW w \in Workers, wpc[w] = "choose", w \notin raced, Intact,
         Pure(msg[w]), NEW k \in SoughtReads(w), There(w, k) = {} \/ k = <<>>
  PROVE  DOMAIN found[w] = {} /\ NoneShares(msg[w])
<1>1. k = msg[w]
  BY AloneReads
<1>2. Leads(DOMAIN found[w], msg[w])
  BY DEF AnswersInv, AloneInv
<1>3. DOMAIN found[w] = {}
  BY <1>1, <1>2 DEF Leads, There
<1>4. QED
  BY <1>2, <1>3 DEF Leads

LEMMA ChooseAnswers ==
  ASSUME AnswersInv, NEW w \in Workers, Choose(w) PROVE AnswersInv'
<1>1. /\ Goes(w, "choose", "answer") /\ Serving
      /\ UNCHANGED <<msg, raced, cache, sought, dictFile, stored, started, words, letters, indexFile>>
      /\ found' = [found EXCEPT ![w] = <<>>]
  BY DEF Choose, Serving, Unshared, producerVars
<1>2. PICK k \in SoughtReads(w) : There(w, k) = {} \/ k = <<>>
  BY DEF Choose
<1>3. wpc[w] = "choose" /\ wpc'[w] = "answer"
  BY <1>1 DEF AnswersInv, Goes
<1>4. Advances(w, "choose", "answer")
  BY <1>1, <1>3 DEF Advances, InQuery, AnswersInv
<1>5. LookupInv'
  BY <1>1, SameLetters DEF AnswersInv, Serving
<1>6. w \notin raced /\ Intact /\ Pure(msg[w]) => NoneShares(msg[w])
  BY <1>2, <1>3, ChooseAlone
<1>7. AloneInv(w)'
  BY <1>1, <1>3, <1>6, SameFiles DEF AloneInv
<1>8. QED
  BY <1>1, <1>4, <1>5, <1>7, AdvanceAnswers

LEMMA GetStringAnswers ==
  ASSUME AnswersInv, NEW w \in Workers, GetString(w) PROVE AnswersInv'
<1>1. /\ Goes(w, "answer", "set") /\ Serving
      /\ UNCHANGED <<msg, raced, cache, sought, found, dictFile, stored, started, letters, indexFile>>
  BY DEF GetString, Serving, Unshared, producerVars
<1>2. wpc[w] = "answer" /\ wpc'[w] = "set" /\ DOMAIN found = Workers
  BY <1>1 DEF AnswersInv, Goes
<1>3. Advances(w, "answer", "set")
  BY <1>1, <1>2 DEF Advances, InQuery
<1>4. LookupInv'
  BY <1>1, SameLetters DEF AnswersInv, Serving
<1>5. w \notin raced /\ Intact /\ Pure(msg[w]) => NoneShares(msg[w])
  BY <1>2 DEF AnswersInv, AloneInv
<1>6. AloneInv(w)'
  BY <1>1, <1>2, <1>5, SameFiles DEF AloneInv
<1>7. QED
  BY <1>1, <1>3, <1>4, <1>6, AdvanceAnswers

LEMMA AddDataAnswers ==
  ASSUME AnswersInv, NEW w \in Workers, AddData(w) PROVE AnswersInv'
<1>1. /\ Serving /\ up /\ wpc[w] = "set" /\ wpc' = [wpc EXCEPT ![w] = "idle"]
      /\ UNCHANGED <<sought, found, letters, indexFile, dictFile, stored, started, words>>
      /\ msg' = [msg EXCEPT ![w] = <<>>] /\ raced' = raced \ {w}
      /\ cache' = [cache EXCEPT ![msg[w]] = Answer("key", result[w], w \in raced)]
  BY DEF AddData, Goes, Forget, Serving, Unshared, producerVars, sharedVars
<1>2. LookupInv'
  BY <1>1, SameLetters DEF AnswersInv, Serving
<1>3. ASSUME NEW u \in Workers, NEW v \in Workers,
             u # v, wpc'[u] \in InQuery, wpc'[v] \in InQuery
      PROVE  u \in raced'
  <2>1. u # w /\ v # w
    BY <1>1, <1>3 DEF AnswersInv, InQuery
  <2>2. QED
    BY <1>1, <1>3, <2>1 DEF AnswersInv
<1>4. ASSUME NEW v \in Workers PROVE AloneInv(v)'
  <2>1. CASE v = w
    <3>1. wpc'[v] = "idle"
      BY <1>1, <2>1 DEF AnswersInv
    <3>2. QED
      BY <3>1 DEF AloneInv
  <2>2. CASE v # w
    <3>1. wpc'[v] = wpc[v] /\ msg'[v] = msg[v] /\ found'[v] = found[v] /\ (v \notin raced' => v \notin raced)
      BY <1>1, <2>2 DEF AnswersInv
    <3>2. AloneInv(v)
      BY DEF AnswersInv
    <3>3. QED
      BY <1>1, <3>1, <3>2, AloneKept
  <2>3. QED
    BY <2>1, <2>2
<1>5. ASSUME NEW k \in Keys, Intact', Undisturbed(k)'
      PROVE  NoneShares(k)'
  <2>1. CASE k # msg[w]
    BY <1>1, <1>5, <2>1, SameFiles DEF AnswersInv, NothingShared, Undisturbed
  <2>2. CASE k = msg[w]
    <3>1. cache'[k].raced = (w \in raced)
      BY <1>1, <2>2 DEF AnswersInv, Answer
    <3>2. w \notin raced /\ Pure(k)
      BY <1>5, <3>1 DEF Undisturbed
    <3>3. QED
      BY <1>1, <1>5, <2>2, <3>2, SameFiles DEF AnswersInv, AloneInv
  <2>3. QED
    BY <2>1, <2>2
<1>6. NothingShared'
  BY <1>5 DEF NothingShared
<1>7. DOMAIN wpc' = Workers /\ DOMAIN found' = Workers /\ DOMAIN cache' = Keys
  BY <1>1 DEF AnswersInv
<1>8. msg' \in [Workers -> Keys \cup {<<>>}]
  BY <1>1 DEF AnswersInv
<1>9. started
  BY <1>1 DEF AnswersInv, LookupInv
<1>10. QED
  BY <1>1, <1>2, <1>3, <1>4, <1>6, <1>7, <1>8, <1>9, WorkerAnswers

LEMMA HitAnswers ==
  ASSUME AnswersInv, NEW w \in Workers, NEW k \in Keys, CacheHit(w, k)
  PROVE  AnswersInv'
<1>1. /\ Serving /\ up /\ UNCHANGED <<letters, indexFile, dictFile, stored, started, words>>
      /\ UNCHANGED <<sought, wpc, msg, found, raced, cache>>
  BY DEF CacheHit, Take, Serving, producerVars, sharedVars
<1>2. LookupInv'
  BY <1>1, SameLetters DEF AnswersInv, Serving
<1>3. \A v \in Workers : AloneInv(v)'
  BY <1>1, AloneKept DEF AnswersInv
<1>4. NothingShared'
  BY <1>1, AnswersKept DEF AnswersInv
<1>5. QED
  BY <1>1, <1>2, <1>3, <1>4, WorkerAnswers DEF AnswersInv

LEMMA DieAnswers ==
  ASSUME AnswersInv, Die PROVE AnswersInv'
<1>1. /\ UNCHANGED <<producerVars, started, cache, dictFile, stored>>
      /\ ~up' /\ wpc' = [w \in Workers |-> "idle"] /\ msg' = [w \in Workers |-> <<>>]
      /\ found' = [w \in Workers |-> <<>>]
  BY DEF Die, producerVars, NoTask, NoList
<1>2. StoreInv'
  BY <1>1, SameProducer DEF AnswersInv
<1>3. LookupInv'
  BY <1>1 DEF LookupInv, LookupsAddNothing
<1>4. \A w \in Workers : AloneInv(w)'
  BY <1>1 DEF AloneInv
<1>5. NothingShared'
  BY <1>1, AnswersKept DEF AnswersInv
<1>6. QED
  BY <1>1, <1>2, <1>3, <1>4, <1>5 DEF AnswersInv, InQuery

(* Before the key server starts nothing is in the cache.                    *)
LEMMA ProducerAnswers ==
  ASSUME AnswersInv, ~started, ProducerStep,
         UNCHANGED <<up, started, sharedVars, workerVars, tasks, cache>>
  PROVE  AnswersInv'
<1>1. /\ UNCHANGED <<up, started, wpc, msg, found, raced, cache>> /\ ~up
  BY DEF workerVars, AnswersInv, LookupInv
<1>2. StoreInv'
  BY ProducerStores DEF AnswersInv
<1>3. LookupInv'
  BY <1>1 DEF LookupInv, LookupsAddNothing
<1>4. \A w \in Workers : wpc[w] = "idle"
  BY <1>1 DEF AnswersInv
<1>5. \A w \in Workers : AloneInv(w)'
  BY <1>1, <1>4 DEF AloneInv
<1>6. NothingShared'
  BY <1>1 DEF NothingShared, Intact
<1>7. QED
  BY <1>1, <1>2, <1>3, <1>5, <1>6 DEF AnswersInv

LEMMA StartAnswers ==
  ASSUME AnswersInv, StartServer PROVE AnswersInv'
<1>1. /\ ~started /\ started' = TRUE /\ up' = TRUE /\ words' = ReadDict /\ letters' = ReadIndex
      /\ UNCHANGED <<dictFile, indexFile, stored, sought, wpc, msg, found, raced, cache>>
  BY DEF StartServer, workerVars
<1>2. StoreInv'
  BY StartStores DEF AnswersInv
<1>3. ReadDict' = ReadDict /\ ReadIndex' = ReadIndex
  BY <1>1 DEF ReadDict, ReadIndex, ReadInOrder
<1>4. LookupInv'
  <2>1. \A t \in Types : IndexIs(letters'[t], ReadIndex'[t])
    BY <1>1, <1>3 DEF IndexIs
  <2>2. QED
    BY <1>1, <2>1, AddsNothingNext DEF LookupInv
<1>5. \A w \in Workers : wpc[w] = "idle"
  BY <1>1 DEF AnswersInv, LookupInv
<1>6. \A w \in Workers : AloneInv(w)'
  BY <1>1, <1>5 DEF AloneInv
<1>7. NothingShared'
  BY <1>1 DEF AnswersInv, NothingShared, Undisturbed
<1>8. QED
  BY <1>1, <1>2, <1>3, <1>4, <1>5, <1>6, <1>7 DEF AnswersInv

(* The web server's answers are not the key server's.                       *)
LEMMA WebAnswers ==
  ASSUME AnswersInv, NEW k \in Keys, WebAddData(k) \/ Expire(k) PROVE AnswersInv'
<1>1. /\ UNCHANGED <<producerVars, up, started, words, letters, indexFile, dictFile, stored>>
      /\ UNCHANGED <<sought, wpc, msg, found, raced>>
  BY DEF WebAddData, Expire, WebUnchanged, producerVars, sharedVars, workerVars
<1>2. PICK a : /\ cache' = [cache EXCEPT ![k] = a] /\ (a = None \/ a.by = "web")
               /\ started \/ a = None
  BY DEF WebAddData, Expire, Answer
<1>3. StoreInv'
  BY <1>1, SameProducer DEF AnswersInv
<1>4. LookupInv'
  BY <1>1, SameLetters DEF AnswersInv
<1>5. \A v \in Workers : AloneInv(v)'
  BY <1>1, AloneKept DEF AnswersInv
<1>6. NothingShared'
  BY <1>1, <1>2, SameFiles DEF AnswersInv, NothingShared, Undisturbed
<1>7. words' = words /\ ReadDict' = ReadDict
  BY <1>1, SameFiles
<1>8. DOMAIN cache' = Keys /\ (~started' => \A x \in Keys : cache'[x] = None)
  BY <1>1, <1>2 DEF AnswersInv
<1>9. QED
  BY <1>1, <1>3, <1>4, <1>5, <1>6, <1>7, <1>8 DEF AnswersInv

LEMMA AnswersStep == AnswersInv /\ [Next]_vars => AnswersInv'
<1> SUFFICES ASSUME AnswersInv, [Next]_vars PROVE AnswersInv'
  OBVIOUS
<1>1. CASE UNCHANGED vars
  <2>1. /\ UNCHANGED <<producerVars, up, started, words, letters, indexFile, dictFile, stored>>
        /\ UNCHANGED <<sought, wpc, msg, found, raced, cache>>
    BY <1>1 DEF vars, producerVars, sharedVars, workerVars
  <2>2. StoreInv' /\ LookupInv'
    BY <2>1, SameProducer, SameLetters DEF AnswersInv
  <2>3. \A v \in Workers : AloneInv(v)'
    BY <2>1, AloneKept DEF AnswersInv
  <2>4. NothingShared' /\ ReadDict' = ReadDict
    BY <2>1, AnswersKept, SameFiles DEF AnswersInv
  <2>5. QED
    BY <2>1, <2>2, <2>3, <2>4 DEF AnswersInv
<1>2. ASSUME NEW w \in Workers, WorkerStep(w) PROVE AnswersInv'
  <2>1. CASE ChooseThrows(w) \/ RedisFails(w)
    BY <2>1, DieAnswers DEF ChooseThrows, RedisFails
  <2>2. QED
    BY <1>2, <2>1, HitAnswers, MissAnswers, AssignAnswers, QueryAnswers, ChooseAnswers,
       GetStringAnswers, AddDataAnswers DEF WorkerStep
<1>3. CASE Collide
  BY <1>3, DieAnswers DEF Collide
<1>4. CASE \E k \in Keys : WebAddData(k) \/ Expire(k)
  BY <1>4, WebAnswers
<1>5. QED
  BY <1>1, <1>2, <1>3, <1>4, ProducerAnswers, StartAnswers DEF Next

-----------------------------------------------------------------------------
(* What the recursive functions of the model return: that there is one that *)
(* satisfies its equation, when each step stays in a set.                   *)
Iterates(f, a, g, n) ==
  /\ f = [i \in 0..n |-> f[i]] /\ f[0] = a
  /\ \A i \in 1..n : f[i] = g[<<i, f[i - 1]>>]

LEMMA IteratesExists ==
  ASSUME NEW D, NEW a \in D, NEW n \in Nat, NEW g \in [(1..n) \X D -> D]
  PROVE  \E f \in [0..n -> D] : Iterates(f, a, g, n)
<1> DEFINE S == {m \in Nat : m <= n => \E f \in [0..m -> D] : Iterates(f, a, g, m)}
<1>1. 0 \in S
  <2>1. PICK f : f = [i \in 0..0 |-> a]
    OBVIOUS
  <2>2. f \in [0..0 -> D] /\ f = [i \in 0..0 |-> f[i]] /\ f[0] = a /\ 1..0 = {}
    BY <2>1
  <2>3. QED
    BY <2>2 DEF Iterates
<1>2. ASSUME NEW m \in Nat, m \in S PROVE m + 1 \in S
  <2> SUFFICES ASSUME m + 1 <= n PROVE \E f \in [0..(m + 1) -> D] : Iterates(f, a, g, m + 1)
    OBVIOUS
  <2>1. PICK f \in [0..m -> D] : Iterates(f, a, g, m)
    BY <1>2
  <2>2. f[0] = a /\ \A i \in 1..m : f[i] = g[<<i, f[i - 1]>>]
    BY <2>1 DEF Iterates
  <2>3. PICK x \in D : x = g[<<m + 1, f[m]>>]
    <3>1. m \in 0..m /\ m + 1 \in 1..n /\ f[m] \in D
      OBVIOUS
    <3>2. QED
      BY <3>1
  <2>4. PICK v : v = [i \in 0..(m + 1) |-> IF i = m + 1 THEN x ELSE f[i]]
    OBVIOUS
  <2>5. /\ v \in [0..(m + 1) -> D] /\ v = [i \in 0..(m + 1) |-> v[i]] /\ v[m + 1] = x
        /\ \A i \in 0..m : v[i] = f[i]
    BY <2>4
  <2>6. v[0] = a
    <3>1. 0 \in 0..m
      OBVIOUS
    <3>2. QED
      BY <2>2, <2>5, <3>1
  <2>7. ASSUME NEW i \in 1..(m + 1) PROVE v[i] = g[<<i, v[i - 1]>>]
    <3>1. CASE i \in 1..m
      <4>1. i \in 0..m /\ i - 1 \in 0..m
        BY <3>1
      <4>2. QED
        BY <2>2, <2>5, <3>1, <4>1
    <3>2. CASE i = m + 1
      <4>1. i - 1 = m /\ m \in 0..m
        BY <3>2
      <4>2. QED
        BY <2>3, <2>5, <3>2, <4>1
    <3>3. QED
      BY <3>1, <3>2
  <2>8. Iterates(v, a, g, m + 1)
    BY <2>5, <2>6, <2>7 DEF Iterates
  <2>9. QED
    BY <2>5, <2>8
<1>3. n \in S
  <2> HIDE DEF S
  <2>1. QED
    BY <1>1, <1>2, AllNaturals
<1>4. QED
  BY <1>3

(* A set as a sequence.                                                     *)
LEMMA SetToSeqIs ==
  ASSUME NEW S, IsFiniteSet(S)
  PROVE  Cardinality(S) \in Nat /\ SetToSeq(S) \in [1..Cardinality(S) -> S]
<1>1. Cardinality(S) \in Nat /\ ExistsBijection(1..Cardinality(S), S)
  BY FS_CardinalityType
<1>2. PICK b \in [1..Cardinality(S) -> S] : IsInjective(b)
  BY <1>1 DEF ExistsBijection, Bijection, Injection
<1>3. QED
  BY <1>1, <1>2 DEF SetToSeq

LEMMA SeqRangeFinite ==
  ASSUME NEW S, NEW s \in Seq(S)
  PROVE  IsFiniteSet(Range(s)) /\ Range(s) \subseteq S
<1>1. s \in Surjection(1..Len(s), Range(s))
  BY DEF Surjection, Range
<1>2. IsFiniteSet(1..Len(s))
  <2>1. Len(s) \in Int /\ 1 \in Int
    OBVIOUS
  <2>2. QED
    BY <2>1, FS_Interval
<1>3. IsFiniteSet(Range(s))
  BY <1>1, <1>2, FS_Surjection
<1>4. Range(s) \subseteq S
  BY DEF Range
<1>5. QED
  BY <1>3, <1>4

DictFine(d, t) == DictOK(d, t) /\ DOMAIN d = 1..Len(d) /\ Len(d) \in Nat

LEMMA NoDict == \A t : DictFine(<<>>, t)
<1>1. DOMAIN <<>> = {} /\ Len(<<>>) = 0 /\ 1..0 = {}
  OBVIOUS
<1>2. QED
  BY <1>1 DEF DictFine, DictOK

LEMMA DictPlaces ==
  ASSUME NEW d, NEW t, DictFine(d, t)
  PROVE  DOMAIN d \subseteq Nat /\ IsFiniteSet(DOMAIN d)
<1>1. PICK n \in Nat : n = Len(d) /\ DOMAIN d = 1..n
  BY DEF DictFine
<1>2. IsFiniteSet(1..n)
  <2>1. 1 \in Int /\ n \in Int
    OBVIOUS
  <2>2. QED
    BY <2>1, FS_Interval
<1>3. 1..n \subseteq Nat
  OBVIOUS
<1>4. QED
  BY <1>1, <1>2, <1>3

LEMMA CountedFine ==
  ASSUME NEW W, NEW ws \in Seq(W), NEW left, NEW t,
         W \ left \subseteq Seq(IF t = "ENG" THEN Narrow ELSE Letters),
         <<>> \in Range(ws) => <<>> \in left
  PROVE  DictFine(Counted(ws, left), t)
<1> DEFINE S == Range(ws) \ left
           d == Counted(ws, left)
<1>1. IsFiniteSet(S) /\ S \subseteq W \ left /\ <<>> \notin S
  <2>1. IsFiniteSet(Range(ws)) /\ Range(ws) \subseteq W
    BY SeqRangeFinite
  <2>2. IsFiniteSet(S)
    BY <2>1, FS_Difference
  <2>3. QED
    BY <2>1, <2>2
<1>2. PICK n \in Nat : n = Cardinality(S) /\ SetToSeq(S) \in [1..n -> S]
  BY <1>1, SetToSeqIs
<1>3. /\ DOMAIN d = 1..n
      /\ \A i \in 1..n : d[i].word = SetToSeq(S)[i] /\ d[i].freq = Occurrences(ws, SetToSeq(S)[i])
  BY <1>2 DEF Counted
<1>4. ASSUME NEW x \in S PROVE Occurrences(ws, x) \in Nat \ {0}
  <2>1. PICK P : P = {i \in DOMAIN ws : ws[i] = x}
    OBVIOUS
  <2>2. P \subseteq 1..Len(ws) /\ P # {}
    BY <2>1 DEF Range
  <2>3. IsFiniteSet(P)
    <3>1. Len(ws) \in Int /\ 1 \in Int
      OBVIOUS
    <3>2. IsFiniteSet(1..Len(ws))
      BY <3>1, FS_Interval
    <3>3. QED
      BY <2>2, <3>2, FS_Subset
  <2>4. Cardinality(P) \in Nat /\ Cardinality(P) # 0
    BY <2>2, <2>3, FS_CardinalityType, FS_EmptySet
  <2>5. QED
    BY <2>1, <2>4 DEF Occurrences
<1>5. DictOK(d, t)
  <2>1. ASSUME NEW i \in DOMAIN d
        PROVE  /\ d[i].word \in Seq(IF t = "ENG" THEN Narrow ELSE Letters) \ {<<>>}
               /\ d[i].freq \in Nat \ {0}
    <3>1. PICK x \in S : x = SetToSeq(S)[i]
      BY <1>2, <1>3
    <3>2. x \in Seq(IF t = "ENG" THEN Narrow ELSE Letters) /\ x # <<>>
      BY <1>1
    <3>3. QED
      BY <1>3, <1>4, <3>1, <3>2
  <2> HIDE DEF d
  <2>2. QED
    BY <2>1 DEF DictOK
<1>6. Len(d) = n
  <2>1. PICK e : e = d
    OBVIOUS
  <2>2. e = [i \in 1..n |-> e[i]]
    BY <1>2, <2>1 DEF Counted
  <2> HIDE DEF d
  <2>3. e \in Seq({e[i] : i \in 1..n})
    BY <2>2
  <2>4. QED
    BY <2>1, <2>2, <2>3, LenProperties
<1>7. QED
  BY <1>3, <1>5, <1>6 DEF DictFine

(* The words of a text, and nothing for each place between two spaces.      *)
NonEmptyLists == {ws \in Seq(Seq(Narrow)) : ws # <<>>}

LEMMA ExtendedStays ==
  ASSUME NEW ws \in NonEmptyLists, NEW c
  PROVE  Extended(ws, c) \in NonEmptyLists
<1>1. ws \in Seq(Seq(Narrow)) /\ ws # <<>> /\ Len(ws) \in 1..Len(ws)
  BY DEF NonEmptyLists
<1>2. CASE c \in Narrow
  <2>1. Append(ws[Len(ws)], c) \in Seq(Narrow)
    BY <1>1, <1>2
  <2>2. PICK e : e = [ws EXCEPT ![Len(ws)] = Append(@, c)]
    OBVIOUS
  <2>3. e \in Seq(Seq(Narrow)) /\ Len(e) = Len(ws)
    BY <1>1, <2>1, <2>2, ExceptSeq
  <2>4. e # <<>>
    BY <1>1, <2>3
  <2>5. QED
    BY <1>2, <2>2, <2>3, <2>4 DEF Extended, NonEmptyLists
<1>3. CASE c \notin Narrow
  <2>1. <<>> \in Seq(Narrow)
    OBVIOUS
  <2>2. Append(ws, <<>>) \in Seq(Seq(Narrow)) /\ Append(ws, <<>>) # <<>>
    BY <1>1, <2>1
  <2>3. QED
    BY <1>3, <2>2 DEF Extended, NonEmptyLists
<1>4. QED
  BY <1>2, <1>3

LEMMA WordsOfText ==
  ASSUME NEW S, NEW text \in Seq(S)
  PROVE  WordsOf(text) \in Seq(Seq(Narrow))
<1> DEFINE N == Len(text)
           Rule(f) == f = [n \in 0..N |-> IF n = 0 THEN << <<>> >> ELSE Extended(f[n - 1], text[n])]
           ws == CHOOSE f : Rule(f)
<1>1. << <<>> >> \in NonEmptyLists /\ N \in Nat
  BY DEF NonEmptyLists
<1>2. \E f : Rule(f)
  <2>1. PICK g : g = [p \in (1..N) \X NonEmptyLists |-> Extended(p[2], text[p[1]])]
    OBVIOUS
  <2>2. g \in [(1..N) \X NonEmptyLists -> NonEmptyLists]
    BY <2>1, ExtendedStays
  <2>3. PICK f \in [0..N -> NonEmptyLists] : Iterates(f, << <<>> >>, g, N)
    BY <1>1, <2>2, IteratesExists
  <2>4. ASSUME NEW n \in 0..N
        PROVE  f[n] = IF n = 0 THEN << <<>> >> ELSE Extended(f[n - 1], text[n])
    <3>1. CASE n = 0
      BY <2>3, <3>1 DEF Iterates
    <3>2. CASE n # 0
      <4>1. n \in 1..N /\ n - 1 \in 0..N
        BY <1>1, <3>2
      <4>2. f[n] = g[<<n, f[n - 1]>>] /\ <<n, f[n - 1]>> \in (1..N) \X NonEmptyLists
        BY <2>3, <4>1 DEF Iterates
      <4>3. QED
        BY <2>1, <3>2, <4>2
    <3>3. QED
      BY <3>1, <3>2
  <2>5. f = [n \in 0..N |-> f[n]]
    BY <2>3
  <2>6. [n \in 0..N |-> f[n]] = [n \in 0..N |-> IF n = 0 THEN << <<>> >> ELSE Extended(f[n - 1], text[n])]
    BY <2>4
  <2>7. QED
    BY <2>5, <2>6
<1>3. Rule(ws)
  BY <1>2
<1>4. WordsOf(text) = ws[N]
  BY DEF WordsOf
<1> DEFINE T == {n \in Nat : n <= N => ws[n] \in NonEmptyLists}
<1>5. ASSUME NEW n \in 0..N
      PROVE  ws[n] = IF n = 0 THEN << <<>> >> ELSE Extended(ws[n - 1], text[n])
  <2> HIDE DEF ws
  <2>1. PICK r : r = [k \in 0..N |-> IF k = 0 THEN << <<>> >> ELSE Extended(ws[k - 1], text[k])]
    OBVIOUS
  <2>2. r[n] = IF n = 0 THEN << <<>> >> ELSE Extended(ws[n - 1], text[n])
    BY <2>1
  <2>3. QED
    BY <1>3, <2>1, <2>2
<1>6. 0 \in T
  <2> HIDE DEF ws
  <2>1. QED
    BY <1>1, <1>5
<1>7. ASSUME NEW n \in Nat, n \in T PROVE n + 1 \in T
  <2> HIDE DEF ws
  <2> SUFFICES ASSUME n + 1 <= N PROVE ws[n + 1] \in NonEmptyLists
    OBVIOUS
  <2>1. n + 1 \in 0..N /\ n + 1 # 0 /\ (n + 1) - 1 = n /\ ws[n] \in NonEmptyLists
    BY <1>1, <1>7
  <2>2. ws[n + 1] = Extended(ws[n], text[n + 1])
    BY <1>5, <2>1
  <2>3. QED
    BY <2>1, <2>2, ExtendedStays
<1>8. N \in T
  <2> HIDE DEF T
  <2>1. QED
    BY <1>1, <1>6, <1>7, AllNaturals
<1>9. ws[N] \in NonEmptyLists
  <2> HIDE DEF ws
  <2>1. QED
    BY <1>1, <1>8
<1>10. QED
  BY <1>4, <1>9 DEF NonEmptyLists

(* The priority queue.                                                      *)
Entries == [word : Seq(Letters), freq : Int, dist : Nat, stray : BOOLEAN]
Said == [word : Seq(Letters), stray : BOOLEAN]

LEMMA InsertedStays ==
  ASSUME NEW S, NEW q \in Seq(S), NEW e \in S
  PROVE  Inserted(q, e) \in Seq(S) /\ Len(Inserted(q, e)) = Len(q) + 1
<1>1. PICK P : P = {i \in DOMAIN q : Before(q[i], e)}
  OBVIOUS
<1>2. PICK n \in Nat : n = Len(q)
  OBVIOUS
<1>3. IsFiniteSet(1..n) /\ Cardinality(1..n) = n
  BY FS_Interval
<1>4. P \subseteq 1..n
  BY <1>1, <1>2
<1>5. IsFiniteSet(P) /\ Cardinality(P) <= n /\ Cardinality(P) \in Nat
  BY <1>3, <1>4, FS_Subset, FS_CardinalityType
<1>6. PICK k \in 1..(n + 1) : k = Cardinality(P) + 1
  BY <1>5
<1>7. PICK a : a = SubSeq(q, 1, k - 1)
  OBVIOUS
<1>8. PICK b : b = SubSeq(q, k, n)
  OBVIOUS
<1>9. a \in Seq(S) /\ Len(a) = k - 1
  <2>1. \A i \in 1..(k - 1) : q[i] \in S
    BY <1>2, <1>6
  <2>2. 1 \in Int /\ k - 1 \in Int
    BY <1>6
  <2>3. QED
    BY <1>6, <1>7, <2>1, <2>2, SubSeqProperties
<1>10. b \in Seq(S) /\ Len(b) = n - k + 1
  <2>1. \A i \in k..n : q[i] \in S
    BY <1>2, <1>6
  <2>2. k \in Int /\ n \in Int
    BY <1>6
  <2>3. QED
    BY <1>6, <1>8, <2>1, <2>2, SubSeqProperties
<1>11. PICK c : c = a \o <<e>>
  OBVIOUS
<1>12. c \in Seq(S) /\ Len(c) = k
  <2>1. <<e>> \in Seq(S) /\ Len(<<e>>) = 1
    OBVIOUS
  <2>2. c \in Seq(S) /\ Len(c) = (k - 1) + 1
    BY <1>9, <1>11, <2>1, Joined, Zenon
  <2>3. QED
    BY <1>6, <2>2
<1>13. c \o b \in Seq(S) /\ Len(c \o b) = n + 1
  <2>1. c \o b \in Seq(S) /\ Len(c \o b) = k + (n - k + 1)
    BY <1>10, <1>12, Joined, Zenon
  <2>2. QED
    BY <1>6, <2>1
<1>14. Inserted(q, e) = c \o b
  BY <1>1, <1>2, <1>6, <1>7, <1>8, <1>11 DEF Inserted, InsertAt
<1>15. QED
  BY <1>2, <1>13, <1>14

LEMMA PushedStays ==
  ASSUME NEW S, prique \in Seq(S), NEW es \in Seq(S)
  PROVE  Pushed(es) \in Seq(S) /\ Len(Pushed(es)) = Len(prique) + Len(es)
<1> DEFINE N == Len(es)
           Rule(f) == f = [n \in 0..N |-> IF n = 0 THEN prique ELSE Inserted(f[n - 1], es[n])]
           q == CHOOSE f : Rule(f)
<1>1. N \in Nat /\ Len(prique) \in Nat
  OBVIOUS
<1>2. \E f : Rule(f)
  <2>1. PICK g : g = [p \in (1..N) \X Seq(S) |-> Inserted(p[2], es[p[1]])]
    OBVIOUS
  <2>2. g \in [(1..N) \X Seq(S) -> Seq(S)]
    <3>1. ASSUME NEW p \in (1..N) \X Seq(S) PROVE Inserted(p[2], es[p[1]]) \in Seq(S)
      <4>1. p[2] \in Seq(S) /\ es[p[1]] \in S
        OBVIOUS
      <4>2. QED
        BY <4>1, InsertedStays
    <3>2. QED
      BY <2>1, <3>1
  <2>3. PICK f \in [0..N -> Seq(S)] : Iterates(f, prique, g, N)
    BY <1>1, <2>2, IteratesExists
  <2>4. ASSUME NEW n \in 0..N
        PROVE  f[n] = IF n = 0 THEN prique ELSE Inserted(f[n - 1], es[n])
    <3>1. CASE n = 0
      BY <2>3, <3>1 DEF Iterates
    <3>2. CASE n # 0
      <4>1. n \in 1..N /\ n - 1 \in 0..N
        BY <1>1, <3>2
      <4>2. f[n] = g[<<n, f[n - 1]>>] /\ <<n, f[n - 1]>> \in (1..N) \X Seq(S)
        BY <2>3, <4>1 DEF Iterates
      <4>3. QED
        BY <2>1, <3>2, <4>2
    <3>3. QED
      BY <3>1, <3>2
  <2>5. f = [n \in 0..N |-> f[n]]
    BY <2>3
  <2>6. [n \in 0..N |-> f[n]] = [n \in 0..N |-> IF n = 0 THEN prique ELSE Inserted(f[n - 1], es[n])]
    BY <2>4
  <2>7. QED
    BY <2>5, <2>6
<1>3. Rule(q)
  BY <1>2
<1>4. Pushed(es) = q[N]
  BY DEF Pushed
<1> DEFINE Good(n) == q[n] \in Seq(S) /\ Len(q[n]) = Len(prique) + n
           T == {n \in Nat : n <= N => Good(n)}
<1>5. ASSUME NEW n \in 0..N
      PROVE  q[n] = IF n = 0 THEN prique ELSE Inserted(q[n - 1], es[n])
  <2> HIDE DEF q
  <2>1. PICK r : r = [k \in 0..N |-> IF k = 0 THEN prique ELSE Inserted(q[k - 1], es[k])]
    OBVIOUS
  <2>2. r[n] = IF n = 0 THEN prique ELSE Inserted(q[n - 1], es[n])
    BY <2>1
  <2>3. QED
    BY <1>3, <2>1, <2>2
<1>6. 0 \in T
  <2> HIDE DEF q
  <2>1. QED
    BY <1>1, <1>5
<1>7. ASSUME NEW n \in Nat, n \in T PROVE n + 1 \in T
  <2> HIDE DEF q
  <2> SUFFICES ASSUME n + 1 <= N PROVE Good(n + 1)
    OBVIOUS
  <2>1. n + 1 \in 0..N /\ n + 1 # 0 /\ (n + 1) - 1 = n /\ Good(n) /\ es[n + 1] \in S
    BY <1>1, <1>7
  <2>2. q[n + 1] = Inserted(q[n], es[n + 1])
    BY <1>5, <2>1
  <2>3. q[n + 1] \in Seq(S) /\ Len(q[n + 1]) = Len(q[n]) + 1
    <3>1. PICK x \in Seq(S), e \in S : x = q[n] /\ e = es[n + 1]
      BY <2>1
    <3>2. q[n + 1] = Inserted(x, e)
      BY <2>2, <3>1
    <3>3. Inserted(x, e) \in Seq(S) /\ Len(Inserted(x, e)) = Len(x) + 1
      BY InsertedStays
    <3>4. QED
      BY <3>1, <3>2, <3>3
  <2>4. QED
    BY <1>1, <2>1, <2>3
<1>8. N \in T
  <2> HIDE DEF T
  <2>1. QED
    BY <1>1, <1>6, <1>7, AllNaturals
<1>9. Good(N)
  <2> HIDE DEF q, Good
  <2>1. QED
    BY <1>1, <1>8
<1>10. QED
  BY <1>4, <1>9

LEMMA Halved ==
  ASSUME NEW n \in Nat
  PROVE  Half(n) \in Nat /\ Half(n) <= n /\ 2 * (n - Half(n)) <= n
BY DEF Half

(* What GetString leaves is at most half of what there was.                 *)
Leaves(S, n, saved, rest) ==
  /\ saved \in Nat /\ saved <= n
  /\ rest \in Seq(S) /\ 2 * Len(rest) <= n

LEMMA Dropped ==
  ASSUME NEW S, NEW q \in Seq(S), NEW l \in Nat, l = Len(q), NEW k \in 0..l
  PROVE  SubSeq(q, k + 1, l) \in Seq(S) /\ Len(SubSeq(q, k + 1, l)) = l - k
<1>1. \A i \in (k + 1)..l : q[i] \in S
  OBVIOUS
<1>2. k + 1 \in Int /\ l \in Int
  OBVIOUS
<1>3. /\ SubSeq(q, k + 1, l) \in Seq(S)
      /\ Len(SubSeq(q, k + 1, l)) = IF k + 1 <= l THEN l - (k + 1) + 1 ELSE 0
  BY <1>1, <1>2, SubSeqProperties
<1>4. (IF k + 1 <= l THEN l - (k + 1) + 1 ELSE 0) = l - k
  OBVIOUS
<1>5. QED
  BY <1>3, <1>4

LEMMA PopLeaves ==
  ASSUME NEW S, NEW q \in Seq(S), NEW saved, saved = Least(5, Half(Len(q)))
  PROVE  LET left == SubSeq(q, saved + 1, Len(q))
         IN Leaves(S, Len(q), saved, SubSeq(left, Half(Len(left)) + 1, Len(left)))
<1>1. PICK l \in Nat : l = Len(q)
  OBVIOUS
<1>2. saved \in 0..l
  <2>1. PICK n \in Nat : n = Half(l) /\ n <= l
    BY Halved
  <2>2. saved = IF 5 <= n THEN 5 ELSE n
    BY <1>1, <2>1 DEF Least
  <2>3. QED
    BY <2>1, <2>2
<1>3. PICK left \in Seq(S), m \in Nat :
        left = SubSeq(q, saved + 1, l) /\ m = Len(left) /\ m <= l
  <2>1. SubSeq(q, saved + 1, l) \in Seq(S) /\ Len(SubSeq(q, saved + 1, l)) = l - saved
    BY <1>1, <1>2, Dropped
  <2>2. l - saved \in Nat /\ l - saved <= l
    BY <1>2
  <2>3. QED
    BY <2>1, <2>2
<1>4. PICK h \in 0..m : h = Half(m) /\ 2 * (m - h) <= m
  <2>1. PICK h \in Nat : h = Half(m) /\ h <= m /\ 2 * (m - h) <= m
    BY Halved
  <2>2. h \in 0..m
    BY <2>1
  <2>3. QED
    BY <2>1, <2>2
<1>5. PICK rest \in Seq(S) : rest = SubSeq(left, h + 1, m) /\ Len(rest) = m - h
  BY <1>3, Dropped
<1>6. 2 * Len(rest) <= l
  <2>1. 2 * (m - h) <= l
    BY <1>3, <1>4
  <2>2. QED
    BY <1>5, <2>1
<1>7. Leaves(S, l, saved, rest)
  BY <1>2, <1>5, <1>6 DEF Leaves
<1>8. QED
  BY <1>1, <1>3, <1>4, <1>5, <1>7

-----------------------------------------------------------------------------
(* The producer and what it stores have their types; the places in an index *)
(* are a finite set of numbers.                                             *)
PlacesIn(i) == {p[2] : p \in i}
PlacesFine(i) == PlacesIn(i) \subseteq Nat /\ IsFiniteSet(PlacesIn(i))

ProducerTyped ==
  /\ step \in Steps /\ type \in Types /\ made \in 0..MaxBuilds /\ uses \in 0..made
  /\ stored \in [Types -> Histories]
  /\ DictFine(dict, type) /\ PlacesFine(index)
  /\ file \in Seq(Seq(Seq(Letters)))
  /\ DOMAIN indexFile \subseteq Types /\ DOMAIN dictFile \subseteq Types
  /\ \A t \in DOMAIN dictFile : DictFine(dictFile[t], t)
  /\ \A t \in DOMAIN indexFile : PlacesFine(indexFile[t])

LEMMA NoPlaces == PlacesFine({})
<1>1. PlacesIn({}) = {}
  BY DEF PlacesIn
<1>2. QED
  BY <1>1, FS_EmptySet DEF PlacesFine

LEMMA ProducerInitTyped == ProducerInit => ProducerTyped
<1>1. DOMAIN <<>> = {} /\ <<>> \in Seq(Seq(Seq(Letters)))
  OBVIOUS
<1>2. QED
  BY <1>1, NoDict, NoPlaces, KeyDictionaryAssumption
     DEF ProducerInit, ProducerTyped, Steps, Types, Histories

LEMMA BuildEnTyped ==
  ASSUME ProducerTyped, NEW text \in EnTexts \cup {Missing}, BuildEnDict(text)
  PROVE  ProducerTyped'
<1>1. /\ step' = "index" /\ type' = "ENG" /\ made < MaxBuilds /\ made' = made + 1 /\ uses' = uses + 1
      /\ UNCHANGED <<dictFile, indexFile, stored, index, file>>
  BY DEF BuildEnDict, Building
<1>2. PICK stops : dict' = IF text = Missing THEN <<>> ELSE Counted(WordsOf(text), stops \cup {<<>>})
  BY DEF BuildEnDict
<1>3. DictFine(dict', "ENG")
  <2>1. CASE text = Missing
    BY <1>2, <2>1, NoDict
  <2>2. CASE text # Missing
    <3>1. PICK S : text \in Seq(S)
      BY <2>2, KeyDictionaryAssumption
    <3>2. PICK ws \in Seq(Seq(Narrow)) : ws = WordsOf(text)
      BY <3>1, WordsOfText
    <3>3. PICK left : left = stops \cup {<<>>}
      OBVIOUS
    <3>4. Seq(Narrow) \ left \subseteq Seq(IF "ENG" = "ENG" THEN Narrow ELSE Letters)
      OBVIOUS
    <3>5. DictFine(Counted(ws, left), "ENG")
      BY <3>3, <3>4, CountedFine
    <3>6. QED
      BY <1>2, <2>2, <3>2, <3>3, <3>5
  <2>3. QED
    BY <2>1, <2>2
<1>4. made' \in 0..MaxBuilds /\ uses' \in 0..made'
  BY <1>1, KeyDictionaryAssumption DEF ProducerTyped
<1>5. step' \in Steps /\ type' \in Types
  BY <1>1 DEF Steps, Types
<1>6. QED
  BY <1>1, <1>3, <1>4, <1>5 DEF ProducerTyped

LEMMA BuildCnTyped ==
  ASSUME ProducerTyped, NEW articles \in CnTexts, BuildCnDict(articles)
  PROVE  ProducerTyped'
<1>1. /\ step' = "index" /\ type' = "CN" /\ made < MaxBuilds /\ made' = made + 1 /\ uses' = uses + 1
      /\ UNCHANGED <<dictFile, indexFile, stored, index>>
  BY DEF BuildCnDict, Building
<1>2. PICK n \in 0..Len(articles), stops \in CnStops :
        /\ \A i \in 1..n : articles[i] # Missing
        /\ file' = file \o FlattenSeq(SubSeq(articles, 1, n))
        /\ LET ws == FlattenSeq(file')
           IN dict' = IF n < Len(articles) THEN <<>>
                      ELSE Counted(ws, stops \cup {w \in Range(ws) : IsAlphaNumber(w)})
  BY DEF BuildCnDict
<1>3. file' \in Seq(Seq(Seq(Letters)))
  <2>1. articles \in Seq(Seq(Seq(Seq(Letters))) \cup {Missing})
    BY KeyDictionaryAssumption
  <2>2. \A i \in 1..n : articles[i] \in Seq(Seq(Seq(Letters)))
    BY <1>2, <2>1
  <2>3. n \in Int /\ 1 \in Int
    BY <2>1
  <2>4. SubSeq(articles, 1, n) \in Seq(Seq(Seq(Seq(Letters))))
    BY <2>2, <2>3, SubSeqProperties
  <2>5. FlattenSeq(SubSeq(articles, 1, n)) \in Seq(Seq(Seq(Letters)))
    BY <2>4, Flattened
  <2>6. QED
    BY <1>2, <2>5, Joined DEF ProducerTyped
<1>4. DictFine(dict', "CN")
  <2>1. PICK ws \in Seq(Seq(Letters)) : ws = FlattenSeq(file')
    BY <1>3, Flattened
  <2>2. PICK left : left = stops \cup {w \in Range(ws) : IsAlphaNumber(w)}
    OBVIOUS
  <2>3. dict' = IF n < Len(articles) THEN <<>> ELSE Counted(ws, left)
    BY <1>2, <2>1, <2>2
  <2>4. IsAlphaNumber(<<>>)
    BY BytesOfEmpty DEF IsAlphaNumber, CharLen
  <2>5. <<>> \in Range(ws) => <<>> \in left
    BY <2>2, <2>4
  <2>6. Seq(Letters) \ left \subseteq Seq(IF "CN" = "ENG" THEN Narrow ELSE Letters)
    OBVIOUS
  <2>7. DictFine(Counted(ws, left), "CN")
    BY <2>5, <2>6, CountedFine
  <2>8. QED
    BY <2>3, <2>7, NoDict
<1>5. made' \in 0..MaxBuilds /\ uses' \in 0..made'
  BY <1>1, KeyDictionaryAssumption DEF ProducerTyped
<1>6. step' \in Steps /\ type' \in Types
  BY <1>1 DEF Steps, Types
<1>7. QED
  BY <1>1, <1>3, <1>4, <1>5, <1>6 DEF ProducerTyped

LEMMA IndexTyped == ProducerTyped /\ CreateIndex => ProducerTyped'
<1> SUFFICES ASSUME ProducerTyped, CreateIndex PROVE ProducerTyped'
  OBVIOUS
<1>1. /\ step' = "store" /\ index' = index \cup Indexed(dict, LetterSize)
      /\ UNCHANGED <<type, dict, file, made, uses, dictFile, indexFile, stored>>
  BY DEF CreateIndex
<1>2. \A p \in Indexed(dict, LetterSize) : p[2] \in DOMAIN dict
  BY DEF Indexed
<1>3. PlacesIn(index') \subseteq PlacesIn(index) \cup DOMAIN dict
  BY <1>1, <1>2 DEF PlacesIn
<1>4. /\ PlacesIn(index) \cup DOMAIN dict \subseteq Nat
      /\ IsFiniteSet(PlacesIn(index) \cup DOMAIN dict)
  BY DictPlaces, FS_Union DEF ProducerTyped, PlacesFine
<1>5. PlacesFine(index')
  BY <1>3, <1>4, FS_Subset DEF PlacesFine
<1>6. QED
  BY <1>1, <1>5 DEF ProducerTyped, Steps

LEMMA StoreTyped == ProducerTyped /\ Store => ProducerTyped'
<1> SUFFICES ASSUME ProducerTyped, Store PROVE ProducerTyped'
  OBVIOUS
<1>1. /\ step' = "build" /\ UNCHANGED <<type, dict, index, file, made, uses>>
  BY DEF Store
<1>2. PICK d \in BOOLEAN, i \in BOOLEAN :
        /\ dictFile' = IF d THEN WithFile(dictFile, type, IF i THEN dict ELSE <<>>)
                            ELSE dictFile
        /\ indexFile' = IF i THEN WithFile(indexFile, type, IF d THEN index ELSE {})
                             ELSE indexFile
        /\ stored' = [stored EXCEPT ![type] =
                        IF d /\ i THEN (IF uses = 1 THEN "fresh" ELSE "reused")
                        ELSE IF d \/ i THEN "torn" ELSE @]
  BY DEF Store
<1>3. stored' \in [Types -> Histories]
  <2>1. stored[type] \in Histories /\ stored \in [Types -> Histories]
    BY DEF ProducerTyped
  <2>2. QED
    BY <1>2, <2>1 DEF Histories
<1>4. DOMAIN dictFile' \subseteq Types /\ \A t \in DOMAIN dictFile' : DictFine(dictFile'[t], t)
  <2>1. DictFine(IF i THEN dict ELSE <<>>, type)
    BY NoDict DEF ProducerTyped
  <2>2. QED
    BY <1>2, <2>1 DEF ProducerTyped, WithFile
<1>5. DOMAIN indexFile' \subseteq Types /\ \A t \in DOMAIN indexFile' : PlacesFine(indexFile'[t])
  <2>1. PlacesFine(IF d THEN index ELSE {})
    BY NoPlaces DEF ProducerTyped
  <2>2. QED
    BY <1>2, <2>1 DEF ProducerTyped, WithFile
<1>6. QED
  BY <1>1, <1>3, <1>4, <1>5 DEF ProducerTyped, Steps

LEMMA ProducerStepTyped == ProducerTyped /\ ProducerStep => ProducerTyped'
<1>1. ASSUME ProducerTyped, NewProducer PROVE ProducerTyped'
  <2>1. <<>> \in Seq(Seq(Seq(Letters))) /\ 0 \in 0..made
    BY <1>1 DEF ProducerTyped
  <2>2. QED
    BY <1>1, <2>1, NoDict, NoPlaces DEF NewProducer, ProducerTyped
<1>2. QED
  BY <1>1, BuildEnTyped, BuildCnTyped, IndexTyped, StoreTyped DEF ProducerStep

LEMMA StartTyped == ProducerTyped /\ StartServer => ProducerTyped'
<1> SUFFICES ASSUME ProducerTyped, StartServer PROVE ProducerTyped'
  OBVIOUS
<1>1. /\ UNCHANGED <<step, dictFile, indexFile, stored>>
      /\ dict' = <<>> /\ index' = {} /\ file' = <<>> /\ type' = "ENG" /\ made' = 0 /\ uses' = 0
  BY DEF StartServer
<1>2. <<>> \in Seq(Seq(Seq(Letters))) /\ 0 \in 0..MaxBuilds /\ 0 \in 0..0 /\ "ENG" \in Types
  BY KeyDictionaryAssumption DEF Types
<1>3. QED
  BY <1>1, <1>2, NoDict, NoPlaces DEF ProducerTyped

LEMMA ProducerSameTyped == ProducerTyped /\ UNCHANGED producerVars => ProducerTyped'
BY DEF ProducerTyped, producerVars
-----------------------------------------------------------------------------
(* The queue.  Between two uses of it that empty it by half, each query     *)
(* that is about to answer has put in at most as many words as there are    *)
(* places.                                                                  *)
Places == UNION {UNION Range(letters[t]) : t \in Types}
Answering == {w \in Workers : wpc[w] = "answer"}
Bounded(q, n, j) == q # <<>> => Len(q) < n * (1 + j)

TasksTyped ==
  /\ wpc \in [Workers -> WorkerAt] /\ msg \in [Workers -> Keys \cup {<<>>}]
  /\ raced \subseteq Workers /\ tasks \in 0..MaxTasks /\ sought \in Keys \cup {<<>>}
  /\ DOMAIN found = Workers /\ result \in [Workers -> Lists]
  /\ DOMAIN cache = Keys /\ \A k \in Keys : cache[k] # None => AnswerOK(cache[k])

MemoryFine ==
  /\ \A t \in Types : DictFine(words[t], t)
  /\ DOMAIN letters = Types /\ Places \subseteq Nat /\ IsFiniteSet(Places)
  /\ prique \in Seq(Entries)
  /\ \A w \in Workers : DOMAIN found[w] \subseteq Places

QueueInv ==
  /\ ProducerTyped /\ TasksTyped /\ MemoryFine
  /\ up => started
  /\ ~up => prique = <<>> /\ \A w \in Workers : wpc[w] = "idle" /\ found[w] = <<>>
  /\ Bounded(prique, Cardinality(Places), Cardinality(Answering))

LEMMA PushBound ==
  ASSUME NEW l \in Nat, NEW c \in Nat, NEW n \in Nat, NEW j \in Nat,
         l = 0 \/ l < n * (1 + j), c <= n, l + c # 0
  PROVE  l + c < n * (1 + (j + 1))
<1>1. PICK m \in Nat : m = n * j
  OBVIOUS
<1>2. n * (1 + j) = n + m /\ n * (1 + (j + 1)) = n + n + m
  BY <1>1
<1>3. QED
  BY <1>2

LEMMA PopBound ==
  ASSUME NEW l \in Nat, NEW r \in Nat, NEW n \in Nat, NEW j \in Nat \ {0},
         l < n * (1 + j), 2 * r <= l
  PROVE  r < n * (1 + (j - 1))
<1>1. PICK i \in Nat : j = i + 1
  <2>1. j - 1 \in Nat /\ j = (j - 1) + 1
    OBVIOUS
  <2>2. QED
    BY <2>1
<1>2. PICK m \in Nat : m = n * i
  OBVIOUS
<1>3. n * (1 + j) = n + n + m /\ n * (1 + (j - 1)) = n + m
  BY <1>1, <1>2
<1>4. QED
  BY <1>3

LEMMA QueueInit == Init => QueueInv
<1> SUFFICES ASSUME Init PROVE QueueInv
  OBVIOUS
<1>1. ProducerTyped
  BY ProducerInitTyped DEF Init
<1>2. /\ up = FALSE /\ letters = [t \in Types |-> <<>>] /\ words = [t \in Types |-> <<>>]
      /\ prique = <<>> /\ sought = <<>> /\ raced = {} /\ tasks = 0
      /\ wpc = [w \in Workers |-> "idle"] /\ msg = [w \in Workers |-> <<>>]
      /\ found = [w \in Workers |-> <<>>] /\ result = [w \in Workers |-> <<>>]
      /\ cache = [k \in Keys |-> None]
  BY DEF Init, NoWords, NoTask, NoList
<1>3. Places = {}
  BY <1>2 DEF Places, Range
<1>4. TasksTyped
  <2>1. <<>> \in Lists
    BY DEF Lists
  <2>2. QED
    BY <1>2, <2>1, RecommanderAssumption DEF TasksTyped, WorkerAt
<1>5. MemoryFine
  <2>1. <<>> \in Seq(Entries)
    OBVIOUS
  <2>2. \A t \in Types : DictFine(words[t], t)
    BY <1>2, NoDict
  <2>3. QED
    BY <1>2, <1>3, <2>1, <2>2, FS_EmptySet DEF MemoryFine
<1>6. QED
  BY <1>1, <1>2, <1>4, <1>5 DEF QueueInv, Bounded

LEMMA QueueKept ==
  ASSUME QueueInv, up, UNCHANGED <<producerVars, up, started, words, letters>>, TasksTyped',
         prique' \in Seq(Entries), \A w \in Workers : DOMAIN found'[w] \subseteq Places,
         Bounded(prique', Cardinality(Places), Cardinality(Answering'))
  PROVE  QueueInv'
<1>1. Places' = Places
  BY DEF Places
<1>2. ProducerTyped'
  BY ProducerSameTyped DEF QueueInv
<1>3. MemoryFine'
  BY <1>1 DEF QueueInv, MemoryFine
<1>4. QED
  BY <1>1, <1>2, <1>3 DEF QueueInv

LEMMA SameAnswering ==
  ASSUME TasksTyped, NEW w \in Workers, NEW to, wpc[w] # "answer", to # "answer",
         wpc' = [wpc EXCEPT ![w] = to] \/ wpc' = wpc
  PROVE  Answering' = Answering
BY DEF TasksTyped, Answering

LEMMA MissQueue ==
  ASSUME QueueInv, NEW w \in Workers, NEW k \in Keys, CacheMiss(w, k) \/ CacheHit(w, k)
  PROVE  QueueInv'
<1>1. /\ up /\ wpc[w] = "idle" /\ tasks < MaxTasks /\ tasks' = tasks + 1
      /\ UNCHANGED <<producerVars, up, started, words, letters, sought, prique, found, result, cache>>
      /\ wpc' = [wpc EXCEPT ![w] = "assign"] \/ wpc' = wpc
      /\ msg' = [msg EXCEPT ![w] = k] \/ msg' = msg
      /\ raced' \subseteq raced \cup Workers
  BY DEF CacheMiss, CacheHit, Take, sharedVars, Others
<1>2. TasksTyped'
  <2>1. tasks' \in 0..MaxTasks
    BY <1>1, RecommanderAssumption DEF QueueInv, TasksTyped
  <2>2. wpc' \in [Workers -> WorkerAt]
    BY <1>1 DEF QueueInv, TasksTyped, WorkerAt
  <2>3. msg' \in [Workers -> Keys \cup {<<>>}]
    BY <1>1 DEF QueueInv, TasksTyped
  <2>4. QED
    BY <1>1, <2>1, <2>2, <2>3 DEF QueueInv, TasksTyped
<1>3. Answering' = Answering
  BY <1>1, SameAnswering DEF QueueInv
<1>4. QED
  BY <1>1, <1>2, <1>3, QueueKept DEF QueueInv, MemoryFine

LEMMA AssignQueue ==
  ASSUME QueueInv, NEW w \in Workers, AssignSought(w) PROVE QueueInv'
<1>1. /\ up /\ wpc[w] = "assign" /\ wpc' = [wpc EXCEPT ![w] = "lookup"] /\ sought' = msg[w]
      /\ UNCHANGED <<producerVars, up, started, words, letters, prique, msg, found, result, raced, tasks, cache>>
  BY DEF AssignSought, Goes, Unshared
<1>2. TasksTyped'
  BY <1>1 DEF QueueInv, TasksTyped, WorkerAt
<1>3. Answering' = Answering
  BY <1>1, SameAnswering DEF QueueInv
<1>4. QED
  BY <1>1, <1>2, <1>3, QueueKept DEF QueueInv, MemoryFine

(* What is looked up are places, and the letters that a look-up adds have   *)
(* none.                                                                    *)
LEMMA LookupQueue ==
  ASSUME QueueInv, NEW w \in Workers, DoQuery(w) PROVE QueueInv'
<1>1. /\ up /\ wpc[w] = "lookup" /\ wpc' = [wpc EXCEPT ![w] = "choose"]
      /\ UNCHANGED <<producerVars, up, started, words, sought, prique, msg, result, raced, tasks, cache>>
  BY DEF DoQuery, Goes, Unshared
<1>2. PICK k \in SoughtReads(w) :
        /\ found' = [found EXCEPT ![w] = Hits(letters, k)]
        /\ letters' = [t \in Types |-> WithLetters(letters[t], LettersOf(k, t))]
  BY DEF DoQuery
<1>3. PICK h : h = Hits(letters, k) /\ DOMAIN h \subseteq Places
  <2>1. Candidates(letters, k) \subseteq Places
    BY DEF Candidates, Places, Range
  <2>2. PICK h : h = [n \in Candidates(letters, k) |-> Cardinality(Leading(letters, k, n))]
    OBVIOUS
  <2>3. DOMAIN h = Candidates(letters, k)
    BY <2>2
  <2>4. h = Hits(letters, k)
    BY <2>2 DEF Hits
  <2>5. QED
    BY <2>1, <2>3, <2>4
<1>4. Places' = Places
  <2>1. ASSUME NEW t \in Types PROVE UNION Range(letters'[t]) = UNION Range(letters[t])
    <3>1. PICK new : letters'[t] = WithLetters(letters[t], new)
      BY <1>2
    <3>2. PICK old : old = letters[t]
      OBVIOUS
    <3>3. UNION Range(WithLetters(old, new)) \subseteq UNION Range(old)
      BY DEF WithLetters, Range
    <3>4. UNION Range(old) \subseteq UNION Range(WithLetters(old, new))
      <4>1. ASSUME NEW c \in DOMAIN old
            PROVE  c \in DOMAIN WithLetters(old, new) /\ WithLetters(old, new)[c] = old[c]
        BY DEF WithLetters
      <4>2. QED
        BY <4>1 DEF Range
    <3>5. QED
      BY <3>1, <3>2, <3>3, <3>4
  <2>2. QED
    BY <2>1 DEF Places
<1>5. TasksTyped'
  BY <1>1, <1>2 DEF QueueInv, TasksTyped, WorkerAt
<1>6. Answering' = Answering
  BY <1>1, SameAnswering DEF QueueInv
<1>7. ProducerTyped'
  BY <1>1, ProducerSameTyped DEF QueueInv
<1>8. \A v \in Workers : DOMAIN found'[v] \subseteq Places
  BY <1>2, <1>3 DEF QueueInv, MemoryFine, TasksTyped
<1>9. MemoryFine'
  BY <1>1, <1>2, <1>4, <1>8 DEF QueueInv, MemoryFine
<1>10. QED
  BY <1>1, <1>4, <1>5, <1>6, <1>7, <1>9 DEF QueueInv

LEMMA CandidateTyped ==
  ASSUME QueueInv, NEW w \in Workers, NEW k \in SoughtReads(w), NEW n, NEW int \in Int
  PROVE  Candidate(w, k, n, int) \in Entries
<1>1. PICK d : d = words[TypeOf(k)] /\ DictOK(d, TypeOf(k))
  BY DEF TypeOf, Types, QueueInv, MemoryFine, DictFine
<1>2. PICK freq \in Int : freq = IF FreqPlace(w, k, n) \in DOMAIN d
                                THEN d[FreqPlace(w, k, n)].freq ELSE int
  BY <1>1 DEF DictOK
<1>3. PICK stray \in BOOLEAN : stray = (w \in raced \/ ~Pure(msg[w]))
  <2>1. CASE w \in raced \/ ~Pure(msg[w])
    BY <2>1
  <2>2. CASE ~(w \in raced \/ ~Pure(msg[w]))
    BY <2>2
  <2>3. QED
    BY <2>1, <2>2
<1>4. Candidate(w, k, n, int) =
        IF n \in DOMAIN d THEN Entry(d[n].word, freq, Len(d[n].word), stray)
                          ELSE Entry(<<>>, freq, Len(Bytes(k)), stray)
  BY <1>1, <1>2, <1>3 DEF Candidate
<1>5. CASE n \in DOMAIN d
  <2>1. PICK x : x = d[n].word /\ x \in Seq(IF TypeOf(k) = "ENG" THEN Narrow ELSE Letters)
    BY <1>1, <1>5 DEF DictOK
  <2>2. x \in Seq(Letters)
    <3>1. Narrow \subseteq Letters
      BY DEF Letters
    <3>2. QED
      BY <2>1, <3>1, SeqMonotonic
  <2>3. Len(x) \in Nat
    BY <2>2
  <2>4. Entry(x, freq, Len(x), stray) \in Entries
    BY <2>2, <2>3 DEF Entry, Entries
  <2>5. QED
    BY <1>4, <1>5, <2>1, <2>4
<1>6. CASE n \notin DOMAIN d
  <2>1. k \in Seq(Letters)
    <3>1. k \in Keys \/ k = <<>>
      BY DEF SoughtReads, QueueInv, TasksTyped
    <3>2. <<>> \in Seq(Letters)
      OBVIOUS
    <3>3. k \in Keys => k \in Seq(Letters)
      BY RecommanderAssumption
    <3>4. QED
      BY <3>1, <3>2, <3>3
  <2>2. Bytes(k) \in Seq(Byte)
    BY <2>1, BytesTyped
  <2>3. <<>> \in Seq(Letters) /\ Len(Bytes(k)) \in Nat
    BY <2>2
  <2>4. Entry(<<>>, freq, Len(Bytes(k)), stray) \in Entries
    BY <2>3 DEF Entry, Entries
  <2>5. QED
    BY <1>4, <1>6, <2>4
<1>7. QED
  BY <1>5, <1>6

(* What a query puts in the queue: a word for each place, and each of them   *)
(* is marked if it overlapped or its key is of both scripts.                *)
LEMMA EmplacedTyped ==
  ASSUME QueueInv, NEW w \in Workers, NEW k \in SoughtReads(w),
         NEW ints \in [DOMAIN found[w] -> Ints]
  PROVE  /\ IsFiniteSet(DOMAIN found[w])
         /\ Emplaced(w, k, ints) \in Seq(Entries)
         /\ Len(Emplaced(w, k, ints)) = Cardinality(DOMAIN found[w])
         /\ w \in raced \/ ~Pure(msg[w]) =>
              \A i \in 1..Cardinality(DOMAIN found[w]) : Emplaced(w, k, ints)[i].stray
<1>1. PICK F : F = DOMAIN found[w]
  OBVIOUS
<1>2. IsFiniteSet(F)
  BY <1>1, FS_Subset DEF QueueInv, MemoryFine
<1>3. PICK h \in Nat : h = Cardinality(F)
  BY <1>2, FS_CardinalityType
<1>4. PICK order \in [1..h -> F] : order = SetToSeq(F)
  BY <1>2, <1>3, SetToSeqIs
<1>5. PICK es : es = [i \in 1..h |-> Candidate(w, k, order[i], ints[order[i]])]
  OBVIOUS
<1>6. Emplaced(w, k, ints) = es
  BY <1>1, <1>3, <1>4, <1>5 DEF Emplaced
<1>7. ASSUME NEW i \in 1..h
      PROVE  es[i] \in Entries /\ (w \in raced \/ ~Pure(msg[w]) => es[i].stray)
  <2>1. PICK n \in F, int \in Int : n = order[i] /\ int = ints[order[i]]
    <3>1. order[i] \in F /\ ints[order[i]] \in Ints /\ Ints \subseteq Int
      BY <1>1, RecommanderAssumption
    <3>2. QED
      BY <3>1
  <2>2. es[i] = Candidate(w, k, n, int)
    BY <1>5, <2>1
  <2>3. w \in raced \/ ~Pure(msg[w]) => Candidate(w, k, n, int).stray
    BY DEF Candidate, Entry
  <2>4. QED
    BY <2>2, <2>3, CandidateTyped
<1>8. es = [i \in 1..h |-> es[i]]
  BY <1>5
<1>9. es \in Seq(Entries) /\ Len(es) = h
  BY <1>7, <1>8
<1>10. QED
  BY <1>1, <1>2, <1>3, <1>6, <1>7, <1>9

LEMMA ChooseQueue ==
  ASSUME QueueInv, NEW w \in Workers, Choose(w) PROVE QueueInv'
<1>1. /\ up /\ wpc[w] = "choose" /\ wpc' = [wpc EXCEPT ![w] = "answer"]
      /\ found' = [found EXCEPT ![w] = <<>>]
      /\ UNCHANGED <<producerVars, up, started, words, letters, sought, msg, result, raced, tasks, cache>>
  BY DEF Choose, Goes, Unshared
<1>2. PICK k \in SoughtReads(w), ints \in [DOMAIN found[w] -> Ints] :
        prique' = Pushed(Emplaced(w, k, ints))
  BY DEF Choose
<1>3. PICK es \in Seq(Entries), h \in Nat :
        /\ prique' = Pushed(es) /\ Len(es) = h
        /\ h = Cardinality(DOMAIN found[w]) /\ IsFiniteSet(DOMAIN found[w])
  BY <1>2, EmplacedTyped, FS_CardinalityType
<1>4. PICK n \in Nat : n = Cardinality(Places)
  BY FS_CardinalityType DEF QueueInv, MemoryFine
<1>5. h <= n
  BY <1>3, <1>4, FS_Subset DEF QueueInv, MemoryFine
<1>6. prique \in Seq(Entries)
  BY DEF QueueInv, MemoryFine
<1>7. prique' \in Seq(Entries) /\ Len(prique') = Len(prique) + h
  BY <1>3, <1>6, PushedStays
<1>8. PICK j \in Nat : j = Cardinality(Answering) /\ Cardinality(Answering') = j + 1
  <2>1. Answering' = Answering \cup {w} /\ w \notin Answering /\ Answering \subseteq Workers
    BY <1>1 DEF Answering, QueueInv, TasksTyped
  <2>2. IsFiniteSet(Answering)
    BY <2>1, RecommanderAssumption, FS_Subset
  <2>3. QED
    BY <2>1, <2>2, FS_AddElement, FS_CardinalityType
<1>9. Bounded(prique', n, j + 1)
  <2>1. PICK l \in Nat : l = Len(prique)
    BY <1>6
  <2>2. l = 0 \/ l < n * (1 + j)
    BY <1>4, <1>6, <1>8, <2>1 DEF QueueInv, Bounded
  <2>3. prique' # <<>> => l + h # 0
    BY <1>7, <2>1
  <2>4. l + h # 0 => l + h < n * (1 + (j + 1))
    BY <1>5, <2>2, PushBound, Zenon
  <2>5. QED
    BY <1>7, <2>1, <2>3, <2>4 DEF Bounded
<1>10. TasksTyped'
  BY <1>1 DEF QueueInv, TasksTyped, WorkerAt
<1>11. \A v \in Workers : DOMAIN found'[v] \subseteq Places
  <2>1. DOMAIN <<>> = {}
    OBVIOUS
  <2>2. QED
    BY <1>1, <2>1 DEF QueueInv, MemoryFine, TasksTyped
<1>12. QED
  BY <1>1, <1>4, <1>7, <1>8, <1>9, <1>10, <1>11, QueueKept

LEMMA PopQueue ==
  ASSUME QueueInv, NEW w \in Workers, GetString(w) PROVE QueueInv'
<1>1. /\ up /\ wpc[w] = "answer" /\ wpc' = [wpc EXCEPT ![w] = "set"]
      /\ UNCHANGED <<producerVars, up, started, words, letters, sought, msg, found, raced, tasks, cache>>
  BY DEF GetString, Goes, Unshared
<1>2. PICK saved : saved = Least(5, Half(Len(prique)))
  OBVIOUS
<1>3. PICK left : left = SubSeq(prique, saved + 1, Len(prique))
  OBVIOUS
<1>4. /\ result' = [result EXCEPT ![w] = [i \in 1..saved |-> Answered(prique[i])]]
      /\ prique' = SubSeq(left, Half(Len(left)) + 1, Len(left))
  BY <1>2, <1>3 DEF GetString
<1>5. PICK l \in Nat : l = Len(prique)
  BY DEF QueueInv, MemoryFine
<1>6. Leaves(Entries, l, saved, prique')
  BY <1>2, <1>3, <1>4, <1>5, PopLeaves DEF QueueInv, MemoryFine
<1>7. saved \in Nat /\ saved <= l /\ prique' \in Seq(Entries) /\ 2 * Len(prique') <= l
  BY <1>6 DEF Leaves
<1>8. PICK n \in Nat : n = Cardinality(Places)
  BY FS_CardinalityType DEF QueueInv, MemoryFine
<1>9. PICK j \in Nat \ {0} : j = Cardinality(Answering) /\ Cardinality(Answering') = j - 1
  <2>1. Answering' = Answering \ {w} /\ w \in Answering /\ Answering \subseteq Workers
    BY <1>1 DEF Answering, QueueInv, TasksTyped
  <2>2. IsFiniteSet(Answering)
    BY <2>1, RecommanderAssumption, FS_Subset
  <2>3. Cardinality(Answering) \in Nat /\ Cardinality(Answering) # 0
    BY <2>1, <2>2, FS_CardinalityType, FS_EmptySet
  <2>4. Cardinality(Answering') = Cardinality(Answering) - 1
    BY <2>1, <2>2, FS_RemoveElement
  <2>5. QED
    BY <2>3, <2>4
<1>10. Bounded(prique', n, j - 1)
  <2>1. ASSUME prique' # <<>> PROVE Len(prique') < n * (1 + (j - 1))
    <3>1. PICK r \in Nat : 2 * r <= l /\ r = Len(prique')
      BY <1>7
    <3>2. r # 0
      BY <1>7, <2>1, <3>1
    <3>3. prique # <<>>
      BY <1>5, <3>1, <3>2
    <3>4. l < n * (1 + j)
      BY <1>5, <1>8, <1>9, <3>3 DEF QueueInv, Bounded
    <3>5. r < n * (1 + (j - 1))
      BY <3>1, <3>4, PopBound, Zenon
    <3>6. QED
      BY <3>1, <3>5
  <2>2. QED
    BY <2>1 DEF Bounded
<1>11. TasksTyped'
  <2>1. [i \in 1..saved |-> Answered(prique[i])] \in Lists
    <3>1. ASSUME NEW i \in 1..saved PROVE Answered(prique[i]) \in Said
      <4>1. i \in 1..l
        BY <1>5, <1>7
      <4>2. prique[i] \in Entries
        BY <1>5, <4>1 DEF QueueInv, MemoryFine
      <4>3. QED
        BY <4>2 DEF Entries, Said, Answered
    <3>2. [i \in 1..saved |-> Answered(prique[i])] \in Seq(Said)
      BY <1>7, <3>1
    <3>3. QED
      BY <3>2 DEF Lists, Said
  <2>2. QED
    BY <1>1, <1>4, <2>1 DEF QueueInv, TasksTyped, WorkerAt
<1>12. QED
  BY <1>1, <1>7, <1>8, <1>9, <1>10, <1>11, QueueKept DEF QueueInv, MemoryFine

LEMMA AddDataQueue ==
  ASSUME QueueInv, NEW w \in Workers, AddData(w) PROVE QueueInv'
<1>1. /\ up /\ wpc[w] = "set" /\ wpc' = [wpc EXCEPT ![w] = "idle"]
      /\ UNCHANGED <<producerVars, up, started, words, letters, sought, prique, found, tasks>>
      /\ msg' = [msg EXCEPT ![w] = <<>>] /\ result' = [result EXCEPT ![w] = <<>>]
      /\ raced' = raced \ {w}
      /\ cache' = [cache EXCEPT ![msg[w]] = Answer("key", result[w], w \in raced)]
  BY DEF AddData, Goes, Forget, Unshared, sharedVars
<1>2. TasksTyped'
  <2>1. AnswerOK(Answer("key", result[w], w \in raced))
    <3>1. result[w] \in Lists
      BY DEF QueueInv, TasksTyped
    <3>2. CASE w \in raced
      <4>1. (w \in raced) = TRUE
        BY <3>2
      <4>2. AnswerOK(Answer("key", result[w], TRUE))
        BY <3>1 DEF AnswerOK, Answer
      <4>3. QED
        BY <4>1, <4>2
    <3>3. CASE w \notin raced
      <4>1. (w \in raced) = FALSE
        BY <3>3
      <4>2. AnswerOK(Answer("key", result[w], FALSE))
        BY <3>1 DEF AnswerOK, Answer
      <4>3. QED
        BY <4>1, <4>2
    <3>4. QED
      BY <3>2, <3>3
  <2>2. PICK a : a = Answer("key", result[w], w \in raced)
    OBVIOUS
  <2>3. DOMAIN cache' = Keys /\ \A k \in Keys : cache'[k] # None => AnswerOK(cache'[k])
    BY <1>1, <2>1, <2>2 DEF QueueInv, TasksTyped
  <2>4. <<>> \in Lists
    BY DEF Lists
  <2>5. QED
    BY <1>1, <2>3, <2>4 DEF QueueInv, TasksTyped, WorkerAt
<1>3. Answering' = Answering
  BY <1>1, SameAnswering DEF QueueInv
<1>4. QED
  BY <1>1, <1>2, <1>3, QueueKept DEF QueueInv, MemoryFine

LEMMA DieQueue == QueueInv /\ Die => QueueInv'
<1> SUFFICES ASSUME QueueInv, Die PROVE QueueInv'
  OBVIOUS
<1>1. /\ up' = FALSE /\ letters' = [t \in Types |-> <<>>] /\ words' = [t \in Types |-> <<>>]
      /\ prique' = <<>> /\ sought' = <<>> /\ raced' = {}
      /\ wpc' = [w \in Workers |-> "idle"] /\ msg' = [w \in Workers |-> <<>>]
      /\ found' = [w \in Workers |-> <<>>] /\ result' = [w \in Workers |-> <<>>]
      /\ UNCHANGED <<producerVars, started, tasks, cache>>
  BY DEF Die, NoWords, NoTask, NoList
<1>2. Places' = {}
  BY <1>1 DEF Places, Range
<1>3. ProducerTyped'
  BY <1>1, ProducerSameTyped DEF QueueInv
<1>4. TasksTyped'
  <2>1. <<>> \in Lists
    BY DEF Lists
  <2>2. QED
    BY <1>1, <2>1 DEF QueueInv, TasksTyped, WorkerAt
<1>5. MemoryFine'
  <2>1. <<>> \in Seq(Entries)
    OBVIOUS
  <2>2. \A t \in Types : DictFine(words'[t], t)
    BY <1>1, NoDict
  <2>3. QED
    BY <1>1, <1>2, <2>1, <2>2, FS_EmptySet DEF MemoryFine
<1>6. QED
  BY <1>1, <1>3, <1>4, <1>5 DEF QueueInv, Bounded

LEMMA ProducerQueue ==
  ASSUME QueueInv, ~started, ProducerStep,
         UNCHANGED <<up, started, sharedVars, workerVars, tasks, cache>>
  PROVE  QueueInv'
<1>1. UNCHANGED <<up, started, words, letters, sought, prique, wpc, msg, found, result, raced, tasks, cache>>
  BY DEF sharedVars, workerVars
<1>2. ProducerTyped'
  BY ProducerStepTyped DEF QueueInv
<1>3. Places' = Places /\ Answering' = Answering
  BY <1>1 DEF Places, Answering
<1>4. QED
  BY <1>1, <1>2, <1>3 DEF QueueInv, TasksTyped, MemoryFine

(* What is read is what was stored, so that there are finitely many places. *)
LEMMA StartQueue == QueueInv /\ StartServer => QueueInv'
<1> SUFFICES ASSUME QueueInv, StartServer PROVE QueueInv'
  OBVIOUS
<1>1. /\ ~started /\ started' = TRUE /\ up' = TRUE /\ words' = ReadDict /\ letters' = ReadIndex
      /\ UNCHANGED <<sought, prique, wpc, msg, found, result, raced, tasks, cache>>
  BY DEF StartServer, workerVars
<1>2. prique = <<>> /\ \A w \in Workers : wpc[w] = "idle" /\ found[w] = <<>>
  BY <1>1 DEF QueueInv
<1>3. ProducerTyped'
  BY StartTyped DEF QueueInv
<1>4. \A t \in Types : DictFine(ReadDict[t], t)
  BY NoDict DEF ReadDict, ReadInOrder, QueueInv, ProducerTyped
<1>5. ASSUME NEW t \in Types
      PROVE  /\ UNION Range(ReadIndex[t]) \subseteq Nat
             /\ IsFiniteSet(UNION Range(ReadIndex[t]))
  <2>1. PICK i : i = ReadInOrder(indexFile, t, {})
    OBVIOUS
  <2>2. PlacesFine(i)
    BY <2>1, NoPlaces DEF ReadInOrder, QueueInv, ProducerTyped
  <2>3. PICK f : f = [c \in {p[1] : p \in i} |-> {p[2] : p \in {p \in i : p[1] = c}}]
    OBVIOUS
  <2>4. UNION Range(f) \subseteq PlacesIn(i)
    <3>1. \A c \in DOMAIN f : f[c] \subseteq PlacesIn(i)
      BY <2>3 DEF PlacesIn
    <3>2. QED
      BY <3>1 DEF Range
  <2>5. ReadIndex[t] = f
    BY <2>1, <2>3 DEF ReadIndex
  <2>6. QED
    BY <2>2, <2>4, <2>5, FS_Subset DEF PlacesFine
<1>6. Places' \subseteq Nat /\ IsFiniteSet(Places')
  <2>1. Places' = (UNION Range(ReadIndex["ENG"])) \cup (UNION Range(ReadIndex["CN"]))
    BY <1>1 DEF Places, Types
  <2>2. "ENG" \in Types /\ "CN" \in Types
    BY DEF Types
  <2>3. QED
    BY <1>5, <2>1, <2>2, FS_Union
<1>7. DOMAIN ReadIndex = Types
  BY DEF ReadIndex
<1>8. MemoryFine'
  BY <1>1, <1>2, <1>4, <1>6, <1>7 DEF QueueInv, MemoryFine
<1>9. TasksTyped'
  BY <1>1 DEF QueueInv, TasksTyped
<1>10. QED
  BY <1>1, <1>2, <1>3, <1>8, <1>9 DEF QueueInv, Bounded

LEMMA WebQueue ==
  ASSUME QueueInv, NEW k \in Keys, WebAddData(k) \/ Expire(k) PROVE QueueInv'
<1>1. UNCHANGED <<producerVars, up, started, words, letters, sought, prique, wpc, msg, found, result, raced, tasks>>
  BY DEF WebAddData, Expire, WebUnchanged, sharedVars, workerVars
<1>2. PICK a : cache' = [cache EXCEPT ![k] = a] /\ (a # None => AnswerOK(a))
  <2>1. AnswerOK(Answer("web", <<>>, FALSE))
    BY DEF AnswerOK, Answer, Lists
  <2>2. QED
    BY <2>1 DEF WebAddData, Expire
<1>3. TasksTyped'
  BY <1>1, <1>2 DEF QueueInv, TasksTyped
<1>4. ProducerTyped' /\ Places' = Places /\ Answering' = Answering
  BY <1>1, ProducerSameTyped DEF QueueInv, Places, Answering
<1>5. QED
  BY <1>1, <1>3, <1>4 DEF QueueInv, MemoryFine

LEMMA QueueStep == QueueInv /\ [Next]_vars => QueueInv'
<1> SUFFICES ASSUME QueueInv, [Next]_vars PROVE QueueInv'
  OBVIOUS
<1>1. CASE UNCHANGED vars
  <2>1. UNCHANGED <<producerVars, up, started, words, letters, sought, prique, wpc, msg, found, result, raced, tasks, cache>>
    BY <1>1 DEF vars, sharedVars, workerVars
  <2>2. ProducerTyped' /\ Places' = Places /\ Answering' = Answering
    BY <2>1, ProducerSameTyped DEF QueueInv, Places, Answering
  <2>3. QED
    BY <2>1, <2>2 DEF QueueInv, TasksTyped, MemoryFine
<1>2. ASSUME NEW w \in Workers, WorkerStep(w) PROVE QueueInv'
  <2>1. CASE ChooseThrows(w) \/ RedisFails(w)
    BY <2>1, DieQueue DEF ChooseThrows, RedisFails
  <2>2. QED
    BY <1>2, <2>1, MissQueue, AssignQueue, LookupQueue, ChooseQueue, PopQueue, AddDataQueue
       DEF WorkerStep
<1>3. CASE Collide
  BY <1>3, DieQueue DEF Collide
<1>4. CASE \E k \in Keys : WebAddData(k) \/ Expire(k)
  BY <1>4, WebQueue
<1>5. QED
  BY <1>1, <1>2, <1>3, <1>4, ProducerQueue, StartQueue DEF Next

(* The states have their types, look-ups add nothing, and what a query      *)
(* leaves in the queue stays smaller than what one query can find, however  *)
(* many workers put in and take out at once.                                *)
THEOREM NothingAddsUpAlways == Spec => []NothingAddsUp
<1>1. QueueInv => TypeOK
  <2>1. \A S, T : S \subseteq T /\ T \subseteq Nat => S \subseteq Nat
    OBVIOUS
  <2>2. QED
    BY <2>1 DEF QueueInv, ProducerTyped, TasksTyped, MemoryFine, TypeOK, DictFine
<1>2. QueueInv => LeftoversAreBounded
  <2> SUFFICES ASSUME QueueInv, up, \A w \in Workers : wpc[w] \notin InQuery, prique # <<>>
               PROVE  Len(prique) < Cardinality(Places)
    BY DEF LeftoversAreBounded, Places
  <2>1. Answering = {}
    BY DEF Answering, InQuery
  <2>2. Cardinality(Answering) = 0
    BY <2>1, FS_EmptySet
  <2>3. PICK n \in Nat : n = Cardinality(Places)
    BY FS_CardinalityType DEF QueueInv, MemoryFine
  <2>4. QED
    BY <2>2, <2>3 DEF QueueInv, Bounded
<1>3. QueueInv /\ LookupsAddNothing => NothingAddsUp
  BY <1>1, <1>2 DEF NothingAddsUp
<1>4. QED
  BY <1>3, QueueInit, QueueStep, LookupsAddNothingAlways, PTL DEF Spec
-----------------------------------------------------------------------------
(* With intact dictionaries and one query at a time the words that a key of *)
(* one script leads to are in the dictionary its type selects; and so are   *)
(* the frequencies that go with them, unless the key is Chinese and has as   *)
(* many letters as that dictionary has words.                               *)
THEOREM CandidatesAreInRangeAlways == Spec => []CandidatesAreInRange
<1>1. AnswersInv /\ QueueInv => CandidatesAreInRange
  <2> SUFFICES ASSUME AnswersInv, QueueInv, Intact, NEW w \in Workers,
                      wpc[w] = "choose", w \notin raced, Pure(msg[w]),
                      NEW read, read = words[TypeOf(msg[w])]
               PROVE  /\ DOMAIN found[w] \subseteq DOMAIN read
                      /\ TypeOf(msg[w]) = "ENG" \/ Len(read) > Cardinality(KeyLetters(msg[w])) =>
                           Beyond(w, msg[w]) = {}
    BY DEF CandidatesAreInRange
  <2>1. Leads(DOMAIN found[w], msg[w]) /\ Counts(found[w], msg[w])
    BY DEF AnswersInv, AloneInv
  <2>2. DOMAIN found[w] \subseteq DOMAIN read
    BY <2>1 DEF Leads
  <2>3. ASSUME NEW n \in DOMAIN found[w],
               TypeOf(msg[w]) = "ENG" \/ Len(read) > Cardinality(KeyLetters(msg[w]))
        PROVE  FreqPlace(w, msg[w], n) \in DOMAIN read
    <3>1. CASE TypeOf(msg[w]) = "ENG"
      <4>1. FreqPlace(w, msg[w], n) = n
        BY <3>1 DEF FreqPlace
      <4>2. QED
        BY <2>2, <4>1
    <3>2. CASE TypeOf(msg[w]) # "ENG"
      <4>1. TypeOf(msg[w]) = "CN"
        BY <3>2 DEF TypeOf
      <4>2. FreqPlace(w, msg[w], n) = found[w][n] + 1
        BY <4>1 DEF FreqPlace
      <4>3. PICK size \in Nat : size = Len(read) /\ DOMAIN read = 1..size
        BY DEF QueueInv, MemoryFine, DictFine, TypeOf, Types
      <4>4. PICK many \in Nat : many = Cardinality(KeyLetters(msg[w]))
        <5>1. msg[w] \in Seq(Letters)
          BY MessagesAreKeys
        <5>2. QED
          BY <5>1, LettersAreFinite, FS_CardinalityType
      <4>5. found[w][n] \in Nat /\ found[w][n] <= many
        BY <2>1, <4>4 DEF Counts
      <4>6. size > many
        BY <2>3, <3>2, <4>3, <4>4
      <4>7. found[w][n] + 1 \in 1..size
        BY <4>5, <4>6
      <4>8. QED
        BY <4>2, <4>3, <4>7
    <3>3. QED
      BY <3>1, <3>2
  <2>4. QED
    BY <2>2, <2>3 DEF Beyond
<1>2. QED
  BY <1>1, AnswersInit, AnswersStep, QueueInit, QueueStep, PTL DEF Spec
-----------------------------------------------------------------------------
(* With intact dictionaries all that is in the queue, in an answer, or in an *)
(* undisturbed answer in the cache was left by a query that overlapped      *)
(* another or whose key was of both scripts.                                *)
StrayEntries == {e \in Entries : e.stray}
StraySaid == {a \in Said : a.stray}

Undisturbing ==
  \A k \in Keys : Undisturbed(k) => cache[k].list \in Seq(StraySaid)

StrayInv ==
  /\ AnswersInv /\ QueueInv
  /\ ~up => \A w \in Workers : result[w] = <<>>
  /\ Intact => /\ prique \in Seq(StrayEntries)
               /\ \A w \in Workers : result[w] \in Seq(StraySaid)
               /\ Undisturbing

LEMMA StrayInit == Init => StrayInv
<1>1. ASSUME Init PROVE ~up /\ ~Intact /\ \A w \in Workers : result[w] = <<>>
  BY <1>1 DEF Init, Intact, NoList
<1>2. QED
  BY <1>1, AnswersInit, QueueInit DEF StrayInv

LEMMA StrayKept ==
  ASSUME StrayInv, AnswersInv', QueueInv', UNCHANGED <<stored, started, up, result, cache>>,
         Intact => prique' \in Seq(StrayEntries)
  PROVE  StrayInv'
<1>1. Intact' <=> Intact
  BY DEF Intact
<1>2. Undisturbing' <=> Undisturbing
  BY DEF Undisturbing, Undisturbed
<1>3. QED
  BY <1>1, <1>2 DEF StrayInv

(* A query with a key of one script that overlaps no other puts in nothing: *)
(* either its key leads nowhere, or the server dies.                        *)
LEMMA ChooseStray ==
  ASSUME StrayInv, AnswersInv', QueueInv', NEW w \in Workers, Choose(w) PROVE StrayInv'
<1>1. wpc[w] = "choose" /\ UNCHANGED <<stored, started, up, result, cache>>
  BY DEF Choose, Goes, Unshared, producerVars
<1>2. PICK k \in SoughtReads(w), ints \in [DOMAIN found[w] -> Ints] :
        (There(w, k) = {} \/ k = <<>>) /\ prique' = Pushed(Emplaced(w, k, ints))
  BY DEF Choose
<1>3. PICK es \in Seq(Entries), h \in Nat :
        /\ prique' = Pushed(es) /\ Len(es) = h /\ h = Cardinality(DOMAIN found[w])
        /\ w \in raced \/ ~Pure(msg[w]) => \A i \in 1..h : es[i].stray
  BY <1>2, EmplacedTyped, FS_CardinalityType DEF StrayInv
<1>4. ASSUME Intact PROVE prique' \in Seq(StrayEntries)
  <2>1. \A i \in 1..h : es[i].stray
    <3>1. CASE w \in raced \/ ~Pure(msg[w])
      BY <1>3, <3>1
    <3>2. CASE ~(w \in raced \/ ~Pure(msg[w]))
      <4>1. DOMAIN found[w] = {}
        BY <1>1, <1>2, <1>4, <3>2, ChooseAlone DEF StrayInv
      <4>2. h = 0
        BY <1>3, <4>1, FS_EmptySet
      <4>3. QED
        BY <4>2
    <3>3. QED
      BY <3>1, <3>2
  <2>2. es \in Seq(StrayEntries)
    <3>1. es = [i \in 1..h |-> es[i]] /\ \A i \in 1..h : es[i] \in Entries
      BY <1>3
    <3>2. \A i \in 1..h : es[i] \in StrayEntries
      BY <2>1, <3>1 DEF StrayEntries
    <3>3. QED
      BY <3>1, <3>2
  <2>3. prique \in Seq(StrayEntries)
    BY <1>4 DEF StrayInv
  <2>4. QED
    BY <1>3, <2>2, <2>3, PushedStays
<1>5. QED
  BY <1>1, <1>4, StrayKept

LEMMA GetStringStray ==
  ASSUME StrayInv, AnswersInv', QueueInv', NEW w \in Workers, GetString(w) PROVE StrayInv'
<1>1. up /\ UNCHANGED <<stored, started, up, cache>>
  BY DEF GetString, Goes, Unshared, producerVars
<1>2. PICK saved : saved = Least(5, Half(Len(prique)))
  OBVIOUS
<1>3. PICK left : left = SubSeq(prique, saved + 1, Len(prique))
  OBVIOUS
<1>4. /\ result' = [result EXCEPT ![w] = [i \in 1..saved |-> Answered(prique[i])]]
      /\ prique' = SubSeq(left, Half(Len(left)) + 1, Len(left))
  BY <1>2, <1>3 DEF GetString
<1>5. ASSUME Intact
      PROVE  prique' \in Seq(StrayEntries) /\ \A v \in Workers : result'[v] \in Seq(StraySaid)
  <2>1. prique \in Seq(StrayEntries)
    BY <1>5 DEF StrayInv
  <2>2. PICK l \in Nat : l = Len(prique)
    BY <2>1
  <2>3. Leaves(StrayEntries, l, saved, prique')
    BY <1>2, <1>3, <1>4, <2>1, <2>2, PopLeaves
  <2>4. saved \in Nat /\ saved <= l /\ prique' \in Seq(StrayEntries)
    BY <2>3 DEF Leaves
  <2>5. ASSUME NEW i \in 1..saved PROVE Answered(prique[i]) \in StraySaid
    <3>1. i \in 1..l
      BY <2>4
    <3>2. prique[i] \in StrayEntries
      BY <2>1, <2>2, <3>1
    <3>3. QED
      BY <3>2 DEF StrayEntries, Entries, StraySaid, Said, Answered
  <2>6. PICK list : list = [i \in 1..saved |-> Answered(prique[i])]
    OBVIOUS
  <2>7. list \in Seq(StraySaid)
    BY <2>4, <2>5, <2>6
  <2>8. \A v \in Workers : result'[v] \in Seq(StraySaid)
    BY <1>4, <1>5, <2>6, <2>7 DEF StrayInv, QueueInv, TasksTyped
  <2>9. QED
    BY <2>4, <2>8
<1>6. Intact' <=> Intact
  BY <1>1 DEF Intact
<1>7. Undisturbing' <=> Undisturbing
  BY <1>1 DEF Undisturbing, Undisturbed
<1>8. QED
  BY <1>1, <1>5, <1>6, <1>7 DEF StrayInv

LEMMA AddDataStray ==
  ASSUME StrayInv, AnswersInv', QueueInv', NEW w \in Workers, AddData(w) PROVE StrayInv'
<1>1. /\ up /\ UNCHANGED <<stored, started, up, prique>>
      /\ result' = [result EXCEPT ![w] = <<>>]
      /\ cache' = [cache EXCEPT ![msg[w]] = Answer("key", result[w], w \in raced)]
  BY DEF AddData, Goes, Forget, Unshared, producerVars, sharedVars
<1>2. Intact' <=> Intact
  BY <1>1 DEF Intact
<1>3. ASSUME Intact PROVE \A v \in Workers : result'[v] \in Seq(StraySaid)
  <2>1. <<>> \in Seq(StraySaid)
    OBVIOUS
  <2>2. QED
    BY <1>1, <1>3, <2>1 DEF StrayInv, QueueInv, TasksTyped
<1>4. ASSUME Intact, NEW k \in Keys, Undisturbed(k)' PROVE cache'[k].list \in Seq(StraySaid)
  <2>1. CASE k # msg[w]
    <3>1. cache'[k] = cache[k]
      BY <1>1, <2>1 DEF StrayInv, QueueInv, TasksTyped
    <3>2. Undisturbed(k)
      BY <1>4, <3>1 DEF Undisturbed
    <3>3. QED
      BY <1>4, <3>1, <3>2 DEF StrayInv, Undisturbing
  <2>2. CASE k = msg[w]
    <3>1. cache'[k].list = result[w]
      BY <1>1, <2>2 DEF StrayInv, QueueInv, TasksTyped, Answer
    <3>2. QED
      BY <1>4, <3>1 DEF StrayInv
  <2>3. QED
    BY <2>1, <2>2
<1>5. Intact => Undisturbing'
  BY <1>4 DEF Undisturbing
<1>6. QED
  BY <1>1, <1>2, <1>3, <1>5 DEF StrayInv

LEMMA DieStray ==
  ASSUME StrayInv, AnswersInv', QueueInv', Die PROVE StrayInv'
<1>1. /\ ~up' /\ prique' = <<>> /\ result' = [w \in Workers |-> <<>>]
      /\ UNCHANGED <<stored, started, cache>>
  BY DEF Die, producerVars, NoList
<1>2. <<>> \in Seq(StrayEntries) /\ <<>> \in Seq(StraySaid)
  OBVIOUS
<1>3. Intact' <=> Intact
  BY <1>1 DEF Intact
<1>4. Undisturbing' <=> Undisturbing
  BY <1>1 DEF Undisturbing, Undisturbed
<1>5. QED
  BY <1>1, <1>2, <1>3, <1>4 DEF StrayInv

(* When the server starts nothing has been put anywhere.                    *)
LEMMA StartStray ==
  ASSUME StrayInv, AnswersInv', QueueInv',
         \/ StartServer
         \/ ~started /\ UNCHANGED <<up, started, sharedVars, workerVars, tasks, cache>>
  PROVE  StrayInv'
<1>1. ~started /\ ~up /\ UNCHANGED <<prique, result, cache>>
  BY DEF StartServer, sharedVars, workerVars, StrayInv, QueueInv
<1>2. prique = <<>> /\ \A w \in Workers : result[w] = <<>>
  BY <1>1 DEF StrayInv, QueueInv
<1>3. \A k \in Keys : cache[k] = None
  BY <1>1 DEF StrayInv, AnswersInv
<1>4. <<>> \in Seq(StrayEntries) /\ <<>> \in Seq(StraySaid)
  OBVIOUS
<1>5. Undisturbing'
  BY <1>1, <1>3 DEF Undisturbing, Undisturbed
<1>6. QED
  BY <1>1, <1>2, <1>4, <1>5 DEF StrayInv

LEMMA WebStray ==
  ASSUME StrayInv, AnswersInv', QueueInv', NEW k \in Keys, WebAddData(k) \/ Expire(k)
  PROVE  StrayInv'
<1>1. UNCHANGED <<stored, started, up, prique, result>>
  BY DEF WebAddData, Expire, WebUnchanged, producerVars, sharedVars, workerVars
<1>2. PICK a : cache' = [cache EXCEPT ![k] = a] /\ (a = None \/ a.by = "web")
  BY DEF WebAddData, Expire, Answer
<1>3. Intact' <=> Intact
  BY <1>1 DEF Intact
<1>4. Undisturbing => Undisturbing'
  BY <1>2 DEF Undisturbing, Undisturbed, StrayInv, QueueInv, TasksTyped
<1>5. QED
  BY <1>1, <1>3, <1>4 DEF StrayInv

LEMMA WorkerStray ==
  ASSUME StrayInv, AnswersInv', QueueInv', NEW w \in Workers, WorkerStep(w) PROVE StrayInv'
<1>1. CASE Choose(w)
  BY <1>1, ChooseStray
<1>2. CASE GetString(w)
  BY <1>2, GetStringStray
<1>3. CASE AddData(w)
  BY <1>3, AddDataStray
<1>4. CASE ChooseThrows(w) \/ RedisFails(w)
  BY <1>4, DieStray DEF ChooseThrows, RedisFails
<1>5. CASE (\E k \in Keys : CacheHit(w, k) \/ CacheMiss(w, k)) \/ AssignSought(w) \/ DoQuery(w)
  <2>1. UNCHANGED <<stored, started, up, prique, result, cache>>
    BY <1>5 DEF CacheHit, CacheMiss, Take, AssignSought, DoQuery, Goes, Unshared,
                producerVars, sharedVars
  <2>2. QED
    BY <2>1, StrayKept DEF StrayInv
<1>6. QED
  BY <1>1, <1>2, <1>3, <1>4, <1>5 DEF WorkerStep

LEMMA StrayStep == StrayInv /\ [Next]_vars => StrayInv'
<1> SUFFICES ASSUME StrayInv, [Next]_vars PROVE StrayInv'
  OBVIOUS
<1>1. AnswersInv' /\ QueueInv'
  BY AnswersStep, QueueStep DEF StrayInv
<1>2. CASE UNCHANGED vars
  <2>1. UNCHANGED <<stored, started, up, prique, result, cache>>
    BY <1>2 DEF vars, producerVars, sharedVars, workerVars
  <2>2. QED
    BY <1>1, <2>1, StrayKept DEF StrayInv
<1>3. CASE Collide
  BY <1>1, <1>3, DieStray DEF Collide
<1>4. CASE Next
  BY <1>1, <1>3, <1>4, WorkerStray, StartStray, WebStray DEF Next
<1>5. QED
  BY <1>2, <1>4

(* With intact dictionaries what the key server puts into the cache under a *)
(* key of one script, when its query overlapped no other, is no word of the *)
(* files: none has a letter of that key, and all that is in the answer was  *)
(* left by queries that overlapped or had a key of both scripts.            *)
THEOREM StoredAnswersAreTrueAlways == Spec => []StoredAnswersAreTrue
<1>1. StrayInv => StoredAnswersAreTrue
  <2> SUFFICES ASSUME StrayInv, Intact, NEW k \in Keys, Undisturbed(k)
               PROVE  /\ NoneShares(k)
                      /\ \A i \in DOMAIN cache[k].list : cache[k].list[i].stray
    BY DEF StoredAnswersAreTrue
  <2>1. NoneShares(k)
    BY DEF StrayInv, AnswersInv, NothingShared
  <2>2. PICK list \in Seq(StraySaid) : list = cache[k].list
    BY DEF StrayInv, Undisturbing
  <2>3. \A i \in DOMAIN list : list[i].stray
    <3>1. DOMAIN list = 1..Len(list) /\ \A i \in 1..Len(list) : list[i] \in StraySaid
      OBVIOUS
    <3>2. QED
      BY <3>1 DEF StraySaid
  <2>4. QED
    BY <2>1, <2>2, <2>3
<1>2. QED
  BY <1>1, StrayInit, StrayStep, PTL DEF Spec
=============================================================================
