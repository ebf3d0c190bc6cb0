---------------------------- MODULE KeyRecommander ----------------------------
(***************************************************************************)
(* The queries of the key server: its workers run MyTask::Process, all on  *)
(* one KeyRecommander and one Dictionary, without a lock; and the redis    *)
(* cache that they share with WebPageSearcher::Process.                    *)
(***************************************************************************)
EXTENDS KeyDictionary

CONSTANTS
  Workers,    \* the key server's threads
  Keys,       \* the lines clients send
  MaxTasks,   \* how many tasks are begun (bound)
  Ints,       \* what an int beyond the end of a vector may be (bound)
  None        \* no query, no answer

ASSUME RecommanderAssumption ==
  /\ IsFiniteSet(Workers) /\ MaxTasks \in Nat /\ Ints \subseteq Int
  /\ Keys \subseteq Seq(Letters) /\ None \notin Keys

VARIABLES
  up,                 \* whether the key server runs: TRUE once it has begun
  started,            \* whether its Dictionary has been made
  words, letters,     \* the dictionaries and indexes it has read
  sought, prique,     \* KeyRecommander's _sought and _prique
  wpc, msg, found,    \* where each worker is, its task's _msg, its word_map
  result,             \* its answer
  raced,              \* the workers whose query overlapped another's
  tasks,              \* how many tasks have been begun
  cache               \* redis

sharedVars == <<words, letters, sought, prique>>
workerVars == <<wpc, msg, found, result, raced>>
vars == <<producerVars, up, started, sharedVars, workerVars, tasks, cache>>

WorkerAt == {"idle", "assign", "lookup", "choose", "answer", "set"}
(* Where a worker is about to use the KeyRecommander.                       *)
InQuery == {"assign", "lookup", "choose", "answer"}

Answer(by, list, mixed) == [by |-> by, list |-> list, raced |-> mixed]

NoWords == [t \in Types |-> <<>>]
NoTask == [w \in Workers |-> "idle"]
NoList == [w \in Workers |-> <<>>]

Init ==
  /\ ProducerInit
  /\ up = FALSE /\ started = FALSE
  /\ words = NoWords /\ letters = NoWords /\ sought = <<>> /\ prique = <<>>
  /\ wpc = NoTask /\ msg = NoList /\ found = NoList /\ result = NoList
  /\ raced = {} /\ tasks = 0
  /\ cache = [k \in Keys |-> None]

(* An exception that no one catches, or an access to what is not there: all  *)
(* the key server has in memory is gone.                                    *)
Die ==
  /\ up /\ up' = FALSE
  /\ words' = NoWords /\ letters' = NoWords /\ sought' = <<>> /\ prique' = <<>>
  /\ wpc' = NoTask /\ msg' = NoList /\ found' = NoList /\ result' = NoList
  /\ raced' = {}
  /\ UNCHANGED <<producerVars, started, tasks, cache>>

Goes(w, from, to) == up /\ wpc[w] = from /\ wpc' = [wpc EXCEPT ![w] = to]

(* The program that made the dictionaries has ended.                        *)
StartServer ==
  /\ ~started /\ step = "build"
  /\ started' = TRUE /\ up' = TRUE
  /\ words' = ReadDict /\ letters' = ReadIndex
  /\ dict' = <<>> /\ index' = {} /\ file' = <<>> /\ type' = "ENG" /\ made' = 0 /\ uses' = 0
  /\ UNCHANGED <<step, dictFile, indexFile, stored, sought, prique, workerVars, tasks, cache>>
-----------------------------------------------------------------------------
(* MyTask::Process.                                                         *)
Unshared == UNCHANGED <<producerVars, started, tasks>>

(* The task is destroyed.                                                   *)
Forget(w) ==
  /\ msg' = [msg EXCEPT ![w] = <<>>] /\ result' = [result EXCEPT ![w] = <<>>]
  /\ raced' = raced \ {w} /\ found' = found

(* A task is taken, and its key looked up in the cache.  The answer found    *)
(* goes nowhere.                                                            *)
Take(w, k) ==
  /\ up /\ tasks < MaxTasks /\ tasks' = tasks + 1
  /\ wpc[w] = "idle"
  /\ UNCHANGED <<producerVars, up, started, sharedVars, found, result, cache>>

CacheHit(w, k) ==
  /\ Take(w, k)
  /\ cache[k] # None
  /\ UNCHANGED <<wpc, msg, raced>>

Others(w) == {v \in Workers \ {w} : wpc[v] \in InQuery}

CacheMiss(w, k) ==
  /\ Take(w, k)
  /\ cache[k] = None
  /\ wpc' = [wpc EXCEPT ![w] = "assign"] /\ msg' = [msg EXCEPT ![w] = k]
  /\ raced' = IF Others(w) = {} THEN raced ELSE raced \cup {w} \cup Others(w)

AssignSought(w) ==
  /\ Goes(w, "assign", "lookup")
  /\ sought' = msg[w]
  /\ Unshared /\ UNCHANGED <<up, words, letters, prique, msg, found, result, raced, cache>>

(* What _sought may be read as while another worker may be writing it.      *)
SoughtReads(w) ==
  IF \E v \in Workers \ {w} : wpc[v] = "assign" THEN Keys ELSE {sought}

(* Two workers that use the KeyRecommander or the same map at once may do   *)
(* worse.                                                                   *)
Collide ==
  /\ \E v, w \in Workers : v # w /\ wpc[v] \in InQuery /\ wpc[w] \in InQuery
  /\ Die

(* Redis may be away.                                                       *)
RedisFails(w) == wpc[w] \in {"idle", "set"} /\ Die
-----------------------------------------------------------------------------
(* Dictionary::DoQuery: the letters of the key (-1 makes one turn), and the *)
(* places of the words that have one, each with the number of letters that  *)
(* lead there.  operator[] adds the letters that are not in the index.      *)
KeyLetters(k) ==
  IF CharLen(Bytes(k)) = -1 THEN {Bytes(k)} ELSE Chunks(Bytes(k), CharLen(Bytes(k)))
LettersOf(k, t) ==
  {c \in KeyLetters(k) : CharLen(c) = SizeOf(t)}
WithLetters(idx, new) ==
  [c \in DOMAIN idx \cup new |-> IF c \in DOMAIN idx THEN idx[c] ELSE {}]
Candidates(idx, k) ==
  UNION {UNION {idx[t][c] : c \in LettersOf(k, t) \cap DOMAIN idx[t]} : t \in Types}
Leading(idx, k, n) ==
  {c \in KeyLetters(k) :
     \E t \in Types : c \in LettersOf(k, t) \cap DOMAIN idx[t] /\ n \in idx[t][c]}
Hits(idx, k) == [n \in Candidates(idx, k) |-> Cardinality(Leading(idx, k, n))]

DoQuery(w) ==
  /\ Goes(w, "lookup", "choose")
  /\ \E k \in SoughtReads(w) :
       /\ found' = [found EXCEPT ![w] = Hits(letters, k)]
       /\ letters' = [t \in Types |-> WithLetters(letters[t], LettersOf(k, t))]
  /\ Unshared /\ UNCHANGED <<up, words, sought, prique, msg, result, raced, cache>>

TypeOf(k) == IF CharLen(Bytes(k)) = 3 THEN "CN" ELSE "ENG"

(* A key of one script; the server can tell its type by its first letter.   *)
Pure(k) == Range(k) \subseteq Narrow \/ Range(k) \subseteq Wide

(* CrCompare: the nearest first, the most frequent of those.  (stray is no  *)
(* part of the program: it marks what a query put in that overlapped another *)
(* or whose key is of both scripts.)                                        *)
Entry(word, freq, dist, stray) ==
  [word |-> word, freq |-> freq, dist |-> dist, stray |-> stray]
Before(a, b) == a.dist < b.dist \/ (a.dist = b.dist /\ a.freq >= b.freq)
Inserted(queue, e) ==
  InsertAt(queue, Cardinality({i \in DOMAIN queue : Before(queue[i], e)}) + 1, e)
Pushed(entries) ==
  LET queue[n \in 0..Len(entries)] ==
        IF n = 0 THEN prique ELSE Inserted(queue[n - 1], entries[n])
  IN queue[Len(entries)]

(* The word of a candidate is read at its place; the frequency of a Chinese *)
(* one at the place that its number of hits is, counted from 0.             *)
FreqPlace(w, k, n) == IF TypeOf(k) = "CN" THEN found[w][n] + 1 ELSE n
There(w, k) == DOMAIN found[w] \cap DOMAIN words[TypeOf(k)]
Beyond(w, k) ==
  (DOMAIN found[w] \cup {FreqPlace(w, k, n) : n \in DOMAIN found[w]})
    \ DOMAIN words[TypeOf(k)]

(* What lies beyond the end of a dictionary may look like an empty word,    *)
(* the one kind of word whose distance to any key can be computed, and like *)
(* any frequency.                                                           *)
Candidate(w, k, n, int) ==
  LET read == words[TypeOf(k)]
      place == FreqPlace(w, k, n)
      freq == IF place \in DOMAIN read THEN read[place].freq ELSE int
      stray == w \in raced \/ ~Pure(msg[w])
  IN IF n \in DOMAIN read THEN Entry(read[n].word, freq, Len(read[n].word), stray)
                          ELSE Entry(<<>>, freq, Len(Bytes(k)), stray)

Emplaced(w, k, ints) ==
  LET order == SetToSeq(DOMAIN found[w])
  IN [i \in 1..Cardinality(DOMAIN found[w]) |-> Candidate(w, k, order[i], ints[order[i]])]

(* Mutant: the exception is caught where the distance is computed.          *)
ChooseCatches(w) ==
  /\ Goes(w, "choose", "answer")
  /\ \E k \in SoughtReads(w), ints \in [DOMAIN found[w] -> Ints] :
       /\ found[w] = <<>> \/ words[TypeOf(k)] # <<>>
       /\ prique' = Pushed(Emplaced(w, k, ints))
  /\ found' = [found EXCEPT ![w] = <<>>]
  /\ Unshared /\ UNCHANGED <<up, words, letters, sought, msg, result, raced, cache>>

(* The loop over the candidates.  MinimumEditDist reads the letter before   *)
(* the first of a word that is not empty, and throws; but to a key that is  *)
(* empty, as _sought may have become, the distance is the word's length.    *)
(* A vector that nothing was put in has no memory at all.                   *)
Choose(w) ==
  /\ Goes(w, "choose", "answer")
  /\ \E k \in SoughtReads(w), ints \in [DOMAIN found[w] -> Ints] :
       /\ There(w, k) = {} \/ k = <<>>
       /\ found[w] = <<>> \/ words[TypeOf(k)] # <<>>
       /\ prique' = Pushed(Emplaced(w, k, ints))
  /\ found' = [found EXCEPT ![w] = <<>>]
  /\ Unshared /\ UNCHANGED <<up, words, letters, sought, msg, result, raced, cache>>

ChooseThrows(w) ==
  /\ wpc[w] = "choose"
  /\ \E k \in SoughtReads(w) : (There(w, k) # {} /\ k # <<>>) \/ Beyond(w, k) # {}
  /\ Die

(* GetString.  Each of its loops runs while i is less than a size that goes *)
(* down as i goes up.                                                       *)
Half(n) == (n + 1) \div 2
Answered(e) == [word |-> e.word, stray |-> e.stray]

(* Mutant: the words are not popped.                                        *)
GetStringKeeps(w) ==
  /\ Goes(w, "answer", "set")
  /\ result' = [result EXCEPT ![w] =
                  [i \in 1..Least(5, Half(Len(prique))) |-> Answered(prique[i])]]
  /\ Unshared /\ UNCHANGED <<up, sharedVars, msg, found, raced, cache>>

GetString(w) ==
  /\ Goes(w, "answer", "set")
  /\ LET saved == Least(5, Half(Len(prique)))
         left == SubSeq(prique, saved + 1, Len(prique))
     IN /\ result' = [result EXCEPT ![w] = [i \in 1..saved |-> Answered(prique[i])]]
        /\ prique' = SubSeq(left, Half(Len(left)) + 1, Len(left))
  /\ Unshared /\ UNCHANGED <<up, words, letters, sought, msg, found, raced, cache>>

AddData(w) ==
  /\ Goes(w, "set", "idle") /\ Forget(w)
  /\ cache' = [cache EXCEPT ![msg[w]] = Answer("key", result[w], w \in raced)]
  /\ Unshared /\ UNCHANGED <<up, sharedVars>>

WorkerStep(w) ==
  \/ \E k \in Keys : CacheHit(w, k) \/ CacheMiss(w, k)
  \/ AssignSought(w) \/ DoQuery(w) \/ Choose(w) \/ ChooseThrows(w)
  \/ GetString(w) \/ AddData(w) \/ RedisFails(w)
-----------------------------------------------------------------------------
(* WebPageSearcher::Process, in the web server.  What is in the cache,      *)
(* whoever put it there, is sent; an answer that was not there when its     *)
(* task began is put there later, whatever is there by then.  (One at a      *)
(* time: bound.)                                                            *)
WebUnchanged == UNCHANGED <<producerVars, up, started, sharedVars, workerVars, tasks>>

WebAddData(k) ==
  /\ started /\ Answer("web", <<>>, FALSE) \notin Range(cache)
  /\ cache' = [cache EXCEPT ![k] = Answer("web", <<>>, FALSE)]
  /\ WebUnchanged

(* The time to live of an answer runs out.                                  *)
Expire(k) ==
  /\ cache[k] # None
  /\ cache' = [cache EXCEPT ![k] = None]
  /\ WebUnchanged

Next ==
  \/ /\ ~started /\ ProducerStep
     /\ UNCHANGED <<up, started, sharedVars, workerVars, tasks, cache>>
  \/ StartServer
  \/ \E w \in Workers : WorkerStep(w)
  \/ Collide
  \/ \E k \in Keys : WebAddData(k) \/ Expire(k)

Spec == Init /\ [][Next]_vars
-----------------------------------------------------------------------------
Lists == Seq([word : Seq(Letters), stray : BOOLEAN])
AnswerOK(a) == a.by \in {"key", "web"} /\ a.list \in Lists /\ a.raced \in BOOLEAN

DictOK(d, t) ==
  \A i \in DOMAIN d :
    /\ d[i].word \in Seq(IF t = "ENG" THEN Narrow ELSE Letters) \ {<<>>}
    /\ d[i].freq \in Nat \ {0}

TypeOK ==
  /\ step \in Steps /\ type \in Types /\ made \in 0..MaxBuilds /\ uses \in 0..made
  /\ stored \in [Types -> Histories]
  /\ DOMAIN indexFile \subseteq Types /\ DOMAIN dictFile \subseteq Types
  /\ \A t \in DOMAIN dictFile : DictOK(dictFile[t], t)
  /\ wpc \in [Workers -> WorkerAt] /\ msg \in [Workers -> Keys \cup {<<>>}]
  /\ raced \subseteq Workers /\ tasks \in 0..MaxTasks
  /\ sought \in Keys \cup {<<>>}
  /\ \A w \in Workers : DOMAIN found[w] \subseteq Nat /\ result[w] \in Lists
  /\ \A k \in Keys : cache[k] # None => AnswerOK(cache[k])

(* The files of a type, when both were written, make every word be found by *)
(* each of its letters; and if their DictProducer made nothing else before, *)
(* a letter leads to no other words and no place is beyond the dictionary.  *)
(* One that is used again keeps the places of its earlier dictionaries.     *)
StoredWordsAreFound ==
  \A t \in Types :
    LET exact == Indexed(dictFile[t], SizeOf(t)) IN
    /\ stored[t] \in {"fresh", "reused"} => exact \subseteq indexFile[t]
    /\ stored[t] = "fresh" => indexFile[t] = exact

(* The dictionaries read are those two, and each was stored whole.          *)
Intact == started /\ \A t \in Types : stored[t] = "fresh"
(* With intact dictionaries and one query at a time no key of one script    *)
(* leads to a word beyond the end of the dictionary its type selects,       *)
(* although the index and the dictionary come from different files and are  *)
(* selected by different letters; nor to a frequency there, unless the key  *)
(* is Chinese and has as many letters as the dictionary has words.          *)
CandidatesAreInRange ==
  Intact =>
    \A w \in Workers : wpc[w] = "choose" /\ w \notin raced /\ Pure(msg[w]) =>
      LET k == msg[w]
          read == words[TypeOf(k)]
      IN /\ DOMAIN found[w] \subseteq DOMAIN read
         /\ TypeOf(k) = "ENG" \/ Len(read) > Cardinality(KeyLetters(k)) =>
              Beyond(w, k) = {}

(* What the key server puts into the cache under a key of one script, when   *)
(* its query did not overlap another, is not what the files hold for it: no *)
(* word has a letter of that key (of any other it dies), and all that is in *)
(* the answer was left in the queue by queries that overlapped or had a key *)
(* of both scripts.  So that is what the web server, which keeps its answers *)
(* under the same keys, sends for it instead of its own.  The letters of a  *)
(* Chinese word are those that begin a multiple of three bytes into it:     *)
(* behind a narrow letter no wide one does, until two more have come.       *)
NoneShares(k) ==
  LET t == TypeOf(k) IN
  \A i \in DOMAIN ReadDict[t] :
    Chunks(Bytes(ReadDict[t][i].word), SizeOf(t)) \cap Chunks(Bytes(k), SizeOf(t)) = {}

Undisturbed(k) ==
  /\ cache[k] # None /\ cache[k].by = "key" /\ ~cache[k].raced
  /\ Pure(k)

StoredAnswersAreTrue ==
  Intact =>
    \A k \in Keys : Undisturbed(k) =>
      /\ NoneShares(k)
      /\ \A i \in DOMAIN cache[k].list : cache[k].list[i].stray

(* Queries change the index they read, but not what it finds.               *)
LookupsAddNothing ==
  up => \A t \in Types :
    LET read == ReadIndex[t] IN
    /\ DOMAIN read \subseteq DOMAIN letters[t]
    /\ \A c \in DOMAIN letters[t] :
         letters[t][c] = IF c \in DOMAIN read THEN read[c] ELSE {}

(* GetString leaves a part of the queue to the next query, which answers    *)
(* with it; but from query to query that part stays smaller than what one   *)
(* query can find, so that the queue does not grow while the server runs.   *)
LeftoversAreBounded ==
  up /\ (\A w \in Workers : wpc[w] \notin InQuery) /\ prique # <<>> =>
    Len(prique) < Cardinality(UNION {UNION Range(letters[t]) : t \in Types})

(* What a query leaves behind for the next does not add up.                 *)
NothingAddsUp == TypeOK /\ LookupsAddNothing /\ LeftoversAreBounded
=============================================================================
