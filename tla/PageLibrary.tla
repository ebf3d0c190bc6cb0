----------------------------- MODULE PageLibrary -----------------------------
(***************************************************************************)
(* The offline half of the web search: RssParser and PageLib load the      *)
(* items of the RSS files, PageLibPreprocessor makes a page of each,       *)
(* removes the pages whose simhash is close to an earlier page's, counts   *)
(* words and builds the inverted index; both can be stored on disk.        *)
(*                                                                         *)
(* A page is known by its doc id, which is its item's place in _rss; what  *)
(* an item holds is reduced to its simhash, its word counts and the size   *)
(* of its page.                                                            *)
(***************************************************************************)
EXTENDS Integers, Sequences, FiniteSets

CONSTANTS
  Items,      \* what an RSS item with a description may be
  Words,      \* the words SplitTool can cut, stop words left out
  Hashes,     \* simhash values
  Similar,    \* the pairs of them that Simhasher::isEqual accepts
  Blanks,     \* how many empty items RssParser starts with (1000)
  MaxItems    \* how many items the files have (bound)

ASSUME LibraryAssumption ==
  /\ Blanks \in Nat /\ MaxItems \in Nat
  /\ \A i \in Items : /\ i.hash \in Hashes
                      /\ i.terms \in [Words -> Nat]
                      /\ i.size \in Nat \ {0}
  /\ Similar \subseteq Hashes \X Hashes
  /\ \A h \in Hashes : <<h, h>> \in Similar
  /\ \A g, h \in Hashes : <<g, h>> \in Similar => <<h, g>> \in Similar

NoHash == "none"
(* An item without a description.                                          *)
Blank == [hash |-> NoHash, terms |-> [w \in Words |-> 0], size |-> 1]

VARIABLES
  rss,     \* RssParser's _rss; the k-th ripe page is made from the k-th item
  hash,    \* _simhash_value of the pages created, by doc id
  list,    \* the doc ids in _page_lib_list
  it, pos, \* RmRedundantPages' two iterators
  next,    \* the page the loops of Cut and BuildInvertIndexTable are at
  df,      \* _document_frequencies
  index,   \* _invert_index_table: the doc ids listed under a word
  byId,    \* the doc ids in _indexed_page_lib_list
  pc       \* how far Load and Do have come

libraryVars == <<rss, hash, list, it, pos, next, df, index, byId, pc>>

LibraryAt == {"load", "create", "dedupe", "cut", "build", "ready", "crashed"}

LibraryInit ==
  /\ rss = [i \in 1..Blanks |-> Blank]     \* _rss.resize(1000)
  /\ hash = <<>> /\ list = <<>>
  /\ it = 1 /\ pos = 2 /\ next = 1
  /\ df = [w \in Words |-> 0]
  /\ index = [w \in Words |-> {}]
  /\ byId = {}
  /\ pc = "load"

WordsOf(id) == {w \in Words : rss[id].terms[w] > 0}
Elements(s) == {s[i] : i \in 1..Len(s)}
-----------------------------------------------------------------------------
(* PageLib::Load.  A file that is not XML, or has no <rss>, or an item with *)
(* an empty element, makes the parser use a null pointer.                   *)
LoadItem ==
  /\ pc = "load"
  /\ Len(rss) < Blanks + MaxItems
  /\ \E i \in Items \cup {Blank} : rss' = Append(rss, i)
  /\ UNCHANGED <<hash, list, it, pos, next, df, index, byId, pc>>

LoadFails ==
  /\ pc = "load"
  /\ pc' = "crashed"
  /\ UNCHANGED <<rss, hash, list, it, pos, next, df, index, byId>>

LoadEnds ==
  /\ pc = "load"
  /\ pc' = "create"
  /\ UNCHANGED <<rss, hash, list, it, pos, next, df, index, byId>>

(* CreatePageLibList.  SimHash() leaves _simhash_value unwritten when the   *)
(* description is empty.                                                    *)
HashesOf(item) == IF item = Blank THEN Hashes ELSE {item.hash}
(* Mutant: doc ids from zero.                                               *)
CreatePageFromZero ==
  /\ pc = "create"
  /\ Len(list) < Len(rss)
  /\ \E h \in HashesOf(rss[Len(list) + 1]) : hash' = Append(hash, h)
  /\ list' = Append(list, Len(list))
  /\ UNCHANGED <<rss, it, pos, next, df, index, byId, pc>>

CreatePage ==
  /\ pc = "create"
  /\ Len(list) < Len(rss)
  /\ \E h \in HashesOf(rss[Len(list) + 1]) : hash' = Append(hash, h)
  /\ list' = Append(list, Len(list) + 1)
  /\ UNCHANGED <<rss, it, pos, next, df, index, byId, pc>>

CreateEnds ==
  /\ pc = "create"
  /\ Len(list) = Len(rss)
  /\ pc' = "dedupe"
  /\ UNCHANGED <<rss, hash, list, it, pos, next, df, index, byId>>
-----------------------------------------------------------------------------
(* RmRedundantPages: every page is compared with every later one.           *)
Without(s, k) == [i \in 1..(Len(s) - 1) |-> IF i < k THEN s[i] ELSE s[i + 1]]
Alike(c, d) == <<hash[c], hash[d]>> \in Similar

(* Mutant: the iterator moves on after an erase as well.                    *)
ErasePageAndSkip ==
  /\ pc = "dedupe"
  /\ it <= Len(list) /\ pos <= Len(list)
  /\ Alike(list[it], list[pos])
  /\ list' = Without(list, pos)
  /\ pos' = pos + 1
  /\ UNCHANGED <<rss, hash, it, next, df, index, byId, pc>>

(* Mutant: the earlier of the two pages is erased.                          *)
ErasePageEarlier ==
  /\ pc = "dedupe"
  /\ it <= Len(list) /\ pos <= Len(list)
  /\ Alike(list[it], list[pos])
  /\ list' = Without(list, it)
  /\ UNCHANGED <<rss, hash, it, pos, next, df, index, byId, pc>>

ErasePage ==
  /\ pc = "dedupe"
  /\ it <= Len(list) /\ pos <= Len(list)
  /\ Alike(list[it], list[pos])
  /\ list' = Without(list, pos)
  /\ UNCHANGED <<rss, hash, it, pos, next, df, index, byId, pc>>

KeepPage ==
  /\ pc = "dedupe"
  /\ it <= Len(list) /\ pos <= Len(list)
  /\ ~Alike(list[it], list[pos])
  /\ pos' = pos + 1
  /\ UNCHANGED <<rss, hash, list, it, next, df, index, byId, pc>>

NextPage ==
  /\ pc = "dedupe"
  /\ it <= Len(list) /\ pos > Len(list)
  /\ it' = it + 1 /\ pos' = it + 2
  /\ UNCHANGED <<rss, hash, list, next, df, index, byId, pc>>

DedupeEnds ==
  /\ pc = "dedupe"
  /\ it > Len(list)
  /\ pc' = "cut" /\ next' = 1
  /\ UNCHANGED <<rss, hash, list, it, pos, df, index, byId>>
-----------------------------------------------------------------------------
(* Cut: one page's words are counted.                                       *)
(* Mutant: a word counts as often as the page has it.                       *)
CutPageTerms ==
  /\ pc = "cut" /\ next <= Len(list)
  /\ df' = [w \in Words |-> df[w] + rss[list[next]].terms[w]]
  /\ next' = next + 1
  /\ UNCHANGED <<rss, hash, list, it, pos, index, byId, pc>>

CutPage ==
  /\ pc = "cut" /\ next <= Len(list)
  /\ df' = [w \in Words |-> IF w \in WordsOf(list[next]) THEN df[w] + 1 ELSE df[w]]
  /\ next' = next + 1
  /\ UNCHANGED <<rss, hash, list, it, pos, index, byId, pc>>

CutEnds ==
  /\ pc = "cut" /\ next > Len(list)
  /\ pc' = "build" /\ next' = 1
  /\ UNCHANGED <<rss, hash, list, it, pos, df, index, byId>>

(* BuildInvertIndexTable.  The weights it stores are never read.            *)
(* Mutant: the page's place in the list is taken for its doc id.            *)
IndexPagePlace ==
  /\ pc = "build" /\ next <= Len(list)
  /\ index' = [w \in Words |-> IF w \in WordsOf(list[next])
                               THEN index[w] \cup {next} ELSE index[w]]
  /\ next' = next + 1
  /\ UNCHANGED <<rss, hash, list, it, pos, df, byId, pc>>

IndexPage ==
  /\ pc = "build" /\ next <= Len(list)
  /\ index' = [w \in Words |-> IF w \in WordsOf(list[next])
                               THEN index[w] \cup {list[next]} ELSE index[w]]
  /\ next' = next + 1
  /\ UNCHANGED <<rss, hash, list, it, pos, df, byId, pc>>

(* The last page is followed by LoadIndexPageList.                          *)
IndexEnds ==
  /\ pc = "build" /\ next > Len(list)
  /\ byId' = Elements(list)
  /\ pc' = "ready"
  /\ UNCHANGED <<rss, hash, list, it, pos, next, df, index>>

LibraryStep ==
  \/ LoadItem \/ LoadFails \/ LoadEnds \/ CreatePage \/ CreateEnds
  \/ ErasePage \/ KeepPage \/ NextPage \/ DedupeEnds
  \/ CutPage \/ CutEnds \/ IndexPage \/ IndexEnds

LibrarySpec == LibraryInit /\ [][LibraryStep]_libraryVars
-----------------------------------------------------------------------------
LibraryTypeOK ==
  /\ rss \in Seq(Items \cup {Blank})
  /\ hash \in Seq(Hashes) /\ Len(hash) <= Len(rss)
  /\ list \in Seq(1..Len(hash))
  /\ it \in Nat \ {0} /\ pos \in Nat \ {0} /\ next \in Nat \ {0}
  /\ df \in [Words -> Nat]
  /\ index \in [Words -> SUBSET (1..Len(hash))]
  /\ byId \subseteq 1..Len(hash)
  /\ pc \in LibraryAt

Deduped == pc \in {"cut", "build", "ready"}

(* The pages kept are in the order of their doc ids, each once, and no two  *)
(* have close simhash values, although erase() moves the pages behind the   *)
(* iterators and closeness is not transitive.                               *)
KeptAreDistinct ==
  /\ \A i, j \in 1..Len(list) : i < j => list[i] < list[j]
  /\ Deduped => \A i, j \in 1..Len(list) : i < j => ~Alike(list[i], list[j])

(* A page is gone only because of an earlier page that is close to it and   *)
(* was itself kept to the end.                                              *)
RemovedHaveTwins ==
  \A d \in 1..Len(hash) :
    d \in Elements(list) \/ \E c \in Elements(list) : c < d /\ Alike(c, d)

(* What WebPageQuery relies on without testing it: a word is in the table   *)
(* exactly with the kept pages that contain it, the document frequency is   *)
(* their number, and every doc id under a word is in the map by id.         *)
IndexMatchesLibrary ==
  pc = "ready" =>
    /\ byId = Elements(list)
    /\ \A w \in Words : index[w] = {d \in Elements(list) : w \in WordsOf(d)}

FrequenciesMatchIndex ==
  pc = "ready" => \A w \in Words : df[w] = Cardinality(index[w])
=============================================================================
