----------------------------- MODULE WebPageQuery -----------------------------
(***************************************************************************)
(* A query of WebPageQuery::DoQuery on the library PageLibrary has built.  *)
(* Queries only read the library, so one stands for all that the workers   *)
(* run at once.                                                            *)
(*                                                                         *)
(* log2(N / (DF + 1)) is replaced by an integer with the same sign and the *)
(* same order, N - (DF + 1), and cosines are compared exactly by their     *)
(* squares (they are never negative).  Where two are equal the rounding of *)
(* the code's doubles may put either first or make them equal, except for  *)
(* a query of one word, whose cosines all are exactly 1.                   *)
(***************************************************************************)
EXTENDS PageLibrary, FiniteSetsExt, SequencesExt

CONSTANT MaxAsked   \* how often a query may have a word (bound)

ASSUME QueryAssumption == MaxAsked \in Nat /\ IsFiniteSet(Words)

VARIABLES
  query,     \* the query's word counts
  left,      \* the words GetRelativePages has not looked up
  hits,      \* its document_frequencies: how many words a doc id was under
  relative,  \* the relative pages GetPagesOrder has not inserted
  answer,    \* the doc ids in its map, by descending cosine
  qpc        \* how far DoQuery has come

queryVars == <<query, left, hits, relative, answer, qpc>>
vars == <<libraryVars, queryVars>>

QueryAt == {"none", "lookup", "order", "answered", "noAnswer"}

Init ==
  /\ LibraryInit
  /\ query = [w \in Words |-> 0]
  /\ left = {} /\ hits = <<>> /\ relative = {} /\ answer = <<>>
  /\ qpc = "none"

Asked == {w \in Words : query[w] > 0}

Idf(w) == Len(list) - (df[w] + 1)
QueryWeight(w) == query[w] * Idf(w)
PageWeight(d, w) == rss[d].terms[w] * Idf(w)
Dot(d) == MapThenSumSet(LAMBDA w : QueryWeight(w) * PageWeight(d, w), Asked)
Norm2(d) == MapThenSumSet(LAMBDA w : PageWeight(d, w) * PageWeight(d, w), Asked)

(* Every weight of the query is 0, so that its cosines are 0 / 0.           *)
NoWeight == \A w \in Asked : Idf(w) = 0

Above(c, d) == ~NoWeight /\ Dot(c) * Dot(c) * Norm2(d) > Dot(d) * Dot(d) * Norm2(c)
Level(c, d) == ~Above(c, d) /\ ~Above(d, c)
-----------------------------------------------------------------------------
(* DoQuery cuts what was asked; stop words are gone, so nothing may be left. *)
Ask ==
  /\ pc = "ready" /\ qpc = "none"
  /\ query' \in [Words -> 0..MaxAsked]
  /\ left' = {w \in Words : query'[w] > 0}
  /\ hits' = [d \in byId |-> 0]
  /\ qpc' = "lookup"
  /\ UNCHANGED <<libraryVars, relative, answer>>

(* GetRelativePages looks the words up in any order and gives up at one     *)
(* that is not in the table.                                                *)
LookUp(w) ==
  /\ qpc = "lookup" /\ w \in left
  /\ left' = left \ {w}
  /\ IF index[w] = {}
       THEN qpc' = "noAnswer" /\ UNCHANGED hits
       ELSE /\ hits' = [d \in DOMAIN hits |-> IF d \in index[w] THEN hits[d] + 1 ELSE hits[d]]
            /\ UNCHANGED qpc
  /\ UNCHANGED <<libraryVars, query, relative, answer>>

FoundIn(n) == {d \in DOMAIN hits : hits[d] > 0 /\ hits[d] = n}

(* Mutant: a page under any of the words is relative.                       *)
CollectAny ==
  /\ qpc = "lookup" /\ left = {}
  /\ relative' = {d \in DOMAIN hits : hits[d] > 0}
  /\ qpc' = IF relative' = {} THEN "noAnswer" ELSE "order"
  /\ UNCHANGED <<libraryVars, query, left, hits, answer>>

Collect ==
  /\ qpc = "lookup" /\ left = {}
  /\ relative' = FoundIn(Cardinality(Asked))
  /\ qpc' = IF relative' = {} THEN "noAnswer" ELSE "order"
  /\ UNCHANGED <<libraryVars, query, left, hits, answer>>

(* Where GetPagesOrder's map, which keeps the first of two equal keys, may  *)
(* put a page: with no better one behind it and no worse one before it.     *)
Places(d) == {k \in 1..(Len(answer) + 1) :
  /\ \A i \in 1..(k - 1) : ~Above(d, answer[i])
  /\ \A i \in k..Len(answer) : ~Above(answer[i], d)}

(* Mutant: only a page better than the best so far is kept.                 *)
InsertedIfBest(d) ==
  {IF answer = <<>> \/ Above(d, answer[1]) THEN <<d>> \o answer ELSE answer}

Inserted(d) ==
  LET exact == Cardinality(Asked) = 1 \/ NoWeight
      level == \E i \in 1..Len(answer) : Level(answer[i], d)
  IN (IF level THEN {answer} ELSE {})
       \cup (IF level /\ exact THEN {} ELSE {InsertAt(answer, k, d) : k \in Places(d)})

OrderPage(d) ==
  /\ qpc = "order" /\ d \in relative
  /\ relative' = relative \ {d}
  /\ answer' \in Inserted(d)
  /\ qpc' = IF relative' = {} THEN "answered" ELSE "order"
  /\ UNCHANGED <<libraryVars, query, left, hits>>

Next ==
  \/ LibraryStep /\ UNCHANGED queryVars
  \/ Ask \/ Collect
  \/ \E w \in Words : LookUp(w)
  \/ \E d \in byId : OrderPage(d)

Spec == Init /\ [][Next]_vars
-----------------------------------------------------------------------------
Found == {d \in Elements(list) : Asked # {} /\ Asked \subseteq WordsOf(d)}

TypeOK ==
  /\ LibraryTypeOK
  /\ query \in [Words -> 0..MaxAsked] /\ left \subseteq Asked
  /\ DOMAIN hits \subseteq byId /\ \A d \in DOMAIN hits : hits[d] \in 0..Cardinality(Words)
  /\ relative \subseteq byId /\ Elements(answer) \subseteq byId
  /\ qpc \in QueryAt

(* The pages found are the kept pages that contain every word asked for:    *)
(* the word-by-word counting, and giving up at an unknown word, come to     *)
(* the conjunction.  So CaculateCosSimilarity never misses a word and       *)
(* throws, and CreateJson finds every page in the map by doc id.            *)
FoundIsConjunction ==
  /\ qpc = "noAnswer" => Found = {}
  /\ qpc \in {"order", "answered"} =>
       Found # {} /\ relative \subseteq Found /\ Elements(answer) \subseteq Found

(* The pages answered are ordered by cosine.                                *)
BestFirst ==
  \A i, j \in 1..Len(answer) : i < j =>
    answer[i] # answer[j] /\ ~Above(answer[j], answer[i])

(* A page found and not answered has the cosine of one that is answered: a  *)
(* better page is never lost to a worse one.                                *)
OnlyEqualsAreDropped ==
  qpc = "answered" =>
    \A d \in Found : \E i \in 1..Len(answer) : answer[i] = d \/ Level(answer[i], d)

(* The answer ranks what was found: in order, and with one page of every    *)
(* rank.                                                                    *)
AnswerRanksFound == TypeOK /\ BestFirst /\ OnlyEqualsAreDropped

(* The pages found are sorted, so all of them are in the answer.            *)
AllFoundAreAnswered == qpc = "answered" => Found \subseteq Elements(answer)
=============================================================================
