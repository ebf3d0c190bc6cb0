# Verification of the search engine

TLA+ models of the two query servers in `src/src` (keyword recommendation and
web page search), their thread pool and event loop, the offline pipeline and the
query of the web search, the dictionaries and queries of the keyword server, and
the XML document in which feeds are read; configurations that check the models with TLC;
and proofs of their main safety properties with TLAPS. Names in the modules are
the code's names where TLA+ allows it. `PROJECT.json` maps every definition to
the lines it stands for and lists hazards, runs, mutants, findings and theorems.

## The system

| Component | State it keeps | Operations | Hard to get right | Module |
|---|---|---|---|---|
| Thread pool: `ThreadPool`, `TaskQueue`, `Thread`, `MutexLock`, `Condition` | `_que`, `_flag`, `_isExit`, mutex, two condition variables, threads | Start, AddTask/Push, GetTask/Pop, ThreadFunc, Stop/Wakeup/Join | signals, `_flag` and `_isExit` written without the mutex, Stop against AddTask | `TaskPool` (abstract), `ThreadPool` |
| Event loop: `EventLoop`, `Acceptor`, `TcpConnection`, `SocketIO`, `Socket`, `TcpServer` | `_conns`, epoll set, eventfd, `_pengings_callback`, `_is_looping`, sockets | Loop, accept, message, close, RunInLoop, DoPengingFunctors, Unloop | batches of events, descriptor reuse, wakeups, lines in pieces, lifetimes | `EventLoop` |
| `KeyServer`, `WebServer` with `MyTask`, `WebPageSearcher` | nothing of their own beyond pool, loop and the captured task | Start, OnMessage, Process, SendInLoop, Stop | everything above at once | `Server` |
| RSS and page library: `RssParser`, `PageLib`, `WebPage` | `_rss`, `_ripe_pages`, `_offset_lib` | Load, StoreOnDisk | items without elements, files that do not parse, offsets | `PageLibrary`, `PageStore` |
| `PageLibPreprocessor` | `_page_lib_list`, `_document_frequencies`, `_invert_index_table`, `_indexed_page_lib_list`, `_offset_lib` | Do (five stages), StoreOnDisk | erasing in a double loop; four structures that must agree | `PageLibrary`, `PageStore` |
| `WebPageQuery`, `CaculateValue` | local to a query | DoQuery | relevance by counting, equal and NaN cosines | `WebPageQuery` |
| `LruCache` | list, map of iterators, pending list | AddRecord | list and map in step at the limit | `LruCache` |
| `DictProducer` | `_dict`, `_index`, `_file`, the files it writes | BuildEnDict, BuildCnDict, CreateIndex, Store | state left from the dictionary before, files written by halves | `KeyDictionary` |
| `Dictionary`, `KeyRecommander` | dictionaries, indexes; `_sought`, `_prique` shared by all workers | reading the files, DoQuery, Query, GetString | shared without a lock, a queue that is not emptied, places that fit another dictionary, edit distance | `KeyDictionary`, `KeyRecommander` |
| `RedisCache` | redis | DoQuery, AddData | two servers, one key space; expiry; exceptions | `KeyRecommander` |
| `XMLDocument` (tinyxml2): nodes, parser, printer, `StrPair`, `MemPoolT` | node links, `_unlinked`, pools, `_errorID`, the recursion of ParseDeep, the printer's depths | LoadFile, Parse, searches, Insert*, Delete*, attributes, SetText, Clear, Print, Value | errors at any depth, closing tags that travel up, links, counters, decoding in place, white space that is content | `XmlTree`, `XmlParser`, `XmlPrinter`, `XmlText`, `XmlDocument` |
| Configuration, `file`, `SplitTool`, logger, `DirScanner` | read at start-up | | | data of the other models |
| `CacheManager`, `MyTimer`, `EchoServer` | | no bodies; a stopwatch nothing uses; does not compile | | not modelled |

How they interact. A server's loop thread waits in epoll. A readable connection
makes it read one line (`OnMessage`) and queue a task with a copy of the
connection's `shared_ptr`; `AddTask` blocks the loop while the queue is full. A
worker takes the task, asks redis, computes and stores the answer, and (web
server only) queues a functor on the loop with a raw pointer to the connection,
writes the eventfd, and drops its copy. The loop swaps the functors out and
writes the answers. Another thread may call `Stop`, which stops the pool and
then the loop. Both servers keep answers in one redis under the bare query.
Before that, offline, the dictionaries are made and stored, and the page library
is loaded, reduced and indexed; workers only read it. The repository has no
`main`; the modules use each class the way the classes that hold it do.
`TcpConnection::GetPeerAddr` is declared and has no body, so that a link of the
servers is still open work there; the model takes it as a getter.

## Modules and their correspondence to the code

**`TaskPool`** is what the servers need of the pool: a log of the tasks pushed,
how many were popped, who holds which, what is done. **`ThreadPool`** is the
code at the grain at which threads can interfere. Code under the mutex is one
step, except between two reads of `_flag`, which `Wakeup` writes without the
mutex: so Pop is lock, test, (wait), take. `Condition::Wait` is a step that
frees the mutex and sleeps, a wakeup (by signal, by broadcast or spurious), and
locking again. `Stop`'s `Empty()` runs without the mutex and is two loads.
`pthread_create` may fail. `_flag` begins with whatever its byte holds
(`FlagReads`). `INSTANCE TaskPool` states the refinement with the variables of
the same names.

**`EventLoop`** has one action per kernel call or callback of the loop thread,
the clients (who connect, send half lines, hang up or reset whenever they like)
and the pieces other threads run. Half a line is enough to tell a whole line,
part of one and several apart. A client connects once and so stands for its
`TcpConnection`; descriptors are numbers and are reused, the lowest first. The
events of a batch are handled in any order. A raw pointer to a destroyed
connection may write to nothing, to any connection alive, or end the process.

**`Server`** composes `EventLoop` (by EXTENDS) with `TaskPool` (by INSTANCE):
`OnMessage` is `MessageHandled /\ Pool!Submit`, a task's end is `Release /\
Pool!Finish`. The answer to a query is the query itself as a token: what matters
is whether, where and in which order it arrives. `Service` chooses the server;
they differ in that the key server does not send.

**`PageLibrary`** is the pipeline: one action per item loaded, page created,
comparison in `RmRedundantPages`, page counted and page indexed, because erasing
under two iterators is what can go wrong. An item is its simhash, its word counts
and its size; closeness of hashes is any reflexive symmetric relation, *not*
transitive. An item without a description has any hash, since nobody writes it.
A file that does not parse ends the process. **`PageStore`** adds the two
`StoreOnDisk`; texts are sequences of bytes labelled with the page they belong
to, so that a wrong offset shows. **`WebPageQuery`** adds a query on a ready
library: words are looked up one by one in any order, pages are put in the map
one by one. **`LruCache`** has one action per branch of `AddRecord`; a list node
is known by the time it was made, so a dangling iterator is an id no node has.

**`KeyDictionary`** is `DictProducer` and the constructor of `Dictionary`. Words
are sequences of letters, a letter one byte or three, and what the code cuts by
bytes is cut by bytes: an odd mixture gives the broken letters it gives in the
code. A place in a dictionary is a line number. The files are partial functions: a
type in neither domain has no file. `stored` remembers whether the files of a type
were written by a fresh producer, a used one, or by halves.
**`KeyRecommander`** puts the workers' `MyTask::Process` on top, with the steps at
which two of them can interfere: the cache miss, `_sought`, the look-up, the loop
over the candidates, `GetString`, the store. A look-up gives places and, for each,
the number of letters of the key that lead there; the frequency of a Chinese
candidate is read at that number (`FreqPlace`), as in the code. What lies beyond the
end of a dictionary may be any of `Ints`, may look like an empty word, or may end the
process. The priority queue is the order in which it gives its entries back; an
entry is put in behind those that come before it. Its field `stray` is no part of
the program: it marks what was put in by a query that overlapped another or whose
key is of both scripts, and goes into the answers with the word. While another
worker assigns `_sought` it reads as any key, and two workers that use the
recommender at once may end the process (`Collide`), so that what overlapping
queries store is marked `raced` and no property speaks of it. The edit distance is its two outcomes:
it throws as soon as both strings have a letter (`ChooseThrows`; its inner loop
starts one column early), and is a length otherwise. The web server appears as
what it does to the cache (`WebAddData`), one answer of its at a time.

**`XmlTree`** is a document's nodes as a record of pointer functions; every
operation on the tree is a function from record to record, with the pools'
counters and the list of unlinked nodes. **`XmlParser`** is `ParseDeep` with its
recursion as a stack of nodes: one action for each thing that the next characters
of the file may be (a leaf, an endless leaf, a tag's name, an attribute, `>`,
`/>`, junk, the end) and for each level of the unwinding after an error. The
file is not given in advance but chosen as it is read, and `read` remembers it, so
that the tree can be compared with it. **`XmlPrinter`** has one action for each
call of the visitor, **`XmlText`** one for each turn of the loop in
`StrPair::GetStr`, on bytes. **`XmlDocument`** puts them together: files loaded one
after the other, from disk or memory, changes of the tree in between, printing
and reading a text. The one write through a null pointer that a legal call leads
to is an action (`InsertAfterCrash`) after which the model stops.

The repository has tinyxml2 twice. `src/src/CMakeLists.txt` compiles the library from
`third_party/tinyxml2` (version 11) and only `*.cc` from `src`, so that
`src/tinyxml2/tinyxml2.cpp` (version 9) is in no build; but the header that
`rss_parser.h` includes is the one beside it. The models follow the copy that is
compiled. `PROJECT.json` maps a definition to `third_party` where the two copies
differ in its lines (`GetCharacterRef`, `ParseDeep`, `DeleteNode`, `Identify`, the
pools), and to `src/tinyxml2` where they have the same text. What a program does in
which the header's inline functions and layouts are not the library's is beyond
these models.

Abstractions worth knowing: `log2(N/(DF+1))` is the integer `N - (DF+1)`, which
has the same sign and order; cosines are compared exactly, and where two are
equal the doubles may round either way, except with one word, where they are
exactly 1 (`sqrt(x*x) = |x|` in IEEE arithmetic), or with all weights 0, where
they are NaN. Redis, the recommender and the text of answers are not in
`Server`; that they may throw is.

## Runs

All are small instances; every property named has a mutant in `PROJECT.json`, a
plausible bug in a mapped definition under which the same run fails.

| Run | Bounds | Shows |
|---|---|---|
| `ThreadPool` | 3 tasks, 2 producers, 2 workers, 1 slot | Type, mutual exclusion, no over- or underrun, exactly-once, no lost signal in either direction (`NoSignalIsLost`), Stop waits for the work it saw; queued tasks run unless no thread could be made; Stop returns unless a worker missed the broadcast (the one way it can hang); the pool is a `TaskPool`. Three tasks fill the queue with both producers still pushing, and two workers race for one task. |
| `ServerSafety` | 2 clients of 2 lines, 1 descriptor, 2 workers, 1 slot | No wakeup lost, references exact, lines become queries and queries answers (`QueriesAreConserved`). One descriptor makes accept fail and reuse happen. |
| `ServerLive` | 2 clients of 1 line, 2 descriptors, 1 worker | Events fresh and descriptors unique (`DescriptorsAreCurrent`), answers in order; lines are answered, the loop leaves AddTask, and it ends after Stop, each up to the causes the property names: `LinesAreAnswered` excuses a loop that is blocked in ReadLine (`Stuck`) and a process that has ended, and catches a lost wakeup or task. Accept does not fail here, where there is a descriptor for each client. |
| `PageLibrary` | up to 5 items, 3 hashes in a chain, 1 word 0 to 2 times | What is kept, why the rest is gone, table, frequencies and map agree, offsets on disk. Three hashes in a chain are the smallest non-transitive closeness, and with five pages several are removed in a row and between others. |
| `WebPageQuery` | up to 4 items, 2 words 0 to 2 times, queries up to 2 of each | Relevance is the conjunction, the best pages come first, and only pages of equal cosine are dropped. |
| `KeyRecommander` | 2 dictionaries built, 1 English and 4 Chinese inputs and one that cannot be opened, 2 workers, 2 queries, 4 keys, 2 values of what lies beyond a vector (`Ints`) | Every letter of a word leads to it and, with a fresh producer, to nothing else; the words found lie within the dictionary, and the frequencies too unless a Chinese key has as many letters as the dictionary has words; an answer stored for an undisturbed query has only words that disturbed ones left behind; index and queue do not accumulate. Two builds are enough to reuse a producer; the second query finds what the first left; the keys are one of each script, one of both and the empty one. The English dictionary has more words than the Chinese ones, so that places of one lie beyond the other, and a Chinese dictionary of one word is one whose frequency is read beyond its end. |
| `XmlDocument` | 3 nodes, 2 names, 1 attribute, files of up to 4 and then 1 piece, depth 3, 2 changes, texts of up to 2 of 16 chunks | The tree is linked and counted, is the file it was loaded from, or whole items of it after an error; searches meet every child; what is printed is the tree; texts decode as they should and survive printing; the first error is the one reported. Three nodes are an element with two children, or two siblings one of which is moved; with depth 3 an opened element in an opened element is too deep; a second load meets what the first one left. |
| `LruCache` | 4 keys, 2 values, size 2, 6 calls | Map and list in step, the most recent are kept, with their last values. Six calls let a key be added, renewed, evicted and added again. |

Several of the properties are conjunctions of parts that each have a name and a
comment in their module (`QueueIsSafe`, `AnswerRanksFound`, `LoadedTreeIsFile`,
`TextIsExpected`, ...); type invariants that no theorem states are the first part
of one of them. Six calls, three tasks and the like are bounds of the model, named
as constants (`MaxAdds`, `Tasks`, `MaxLines`, `MaxItems`, `MaxAsked`, `MaxCount`,
`MaxBuilds`, `MaxTasks`, `Ints`, `MaxNodes`, `Lengths`, `MaxEdits`, `MaxChunks`). Other
bounds are in actions, with a comment: a document is changed and printed only
when it has no error, a text that is there changes in place, texts are read in
the first document, and the web server has one answer in the cache at a time.
Deadlock is not checked: every system here may stop (a pool that is stopped,
clients that have nothing more to say, a query answered, a cache, a document or a
recommender at its last call, a process that died).

Four runs show disagreements with what the repository says of itself:

| Run | Property | Disagreement |
|---|---|---|
| `ServerFlagUnset` | `LinesAreProcessed` | `TaskQueue` never initialises `_flag`; if the byte reads as false no query is processed. |
| `KeyServerAnswers` | `LinesAreAnswered` | `KeyServer`'s task never sends the answer its comment says is to be sent. |
| `ServerMisdelivery` | `AnswerGoesToAsker` | The functor's raw pointer outlives the connection; the answer may go to another client. |
| `EqualCosines` | `AllFoundAreAnswered` | Sorting in a map keyed by cosine drops equals; a query of one word answers one page. |

Also met while modelling, without a run of their own; the models do what the code
does:

- Both `_offset_lib` maps are filled after doc id and offset have moved on
  (`MapEntries`), and `new_offset_lib.dat` has other pages' sizes (`SizesRead`);
  nothing reads either.
- An item without a description keeps an unwritten simhash, of which there are
  always 1000, and a page may be removed because of one.
- `MinimumEditDist` throws for every candidate and key that are not empty, so the
  key server dies at the first query that shares a letter with a word, and
  answers only those that share none: with nothing, or with words that earlier
  queries left in the queue, of which only those that overlapped or had a key of both
  scripts leave any. The web server, with the same keys in the same redis, serves
  these answers as its own.
- `key_recommander.cc:22` reads the frequency of a Chinese candidate at the place that
  is its number of hits (`elem.second`) and not at its own (`elem.first`, line 30): it
  is another word's frequency, and beyond the end of the dictionary when the key has
  as many letters as the dictionary has words.
- A key of both scripts, or dictionary and index files that do not belong
  together, lead beyond the end of a dictionary.
- `CreateIndex` cuts Chinese words every three bytes and keeps what it cut, so
  that a word of both scripts, which `BuildCnDict` lets in when its first letter
  is Chinese, is indexed under parts of letters. Queries are cut by letters: they
  find such a word only where the two ways of cutting agree.
- A closing tag at the level of the document ends the parse with success; what
  follows it is not read. `</a/>` becomes an empty element.
- `LoadFile` does not clear the pools after an error (`Parse` does). In the copy that
  is compiled the counters agree all the same, since `ParseDeep` deletes through the
  document's `DeleteNode`, which counts the node as tracked (`PoolsAreExact`).
- A reference to a number above 0x10FFFF stays as it is written, except that a 1 with
  at least six hexadecimal or seven decimal zeros behind it reads as U+10FFFF: the
  multiplier stops there (`third_party/tinyxml2/tinyxml2.cpp:533`), and 1 times it is
  not too large.
- Moving the last child behind the one before it with `InsertAfterChild` writes
  through a null pointer.
- `&` before something that is no entity reads as itself only while nothing
  before it in the text became shorter; an unfinished `&#` at the end of a text
  is dropped, `&#0;` ends the text, and a carriage return from `&#13;` comes back
  as a newline after printing.
- A comment (`third_party/tinyxml2/tinyxml2.cpp:1991`) says that duplicate attributes
  are not detected; line 1986 detects them.

### Fairness

Weak fairness of each thread's own steps: the system schedules threads that can
run. Strong fairness of locking the mutex: a thread that finds it free again and
again gets it (pthread mutexes give no order but do not starve a thread for ever
on a fair scheduler). In `Server`, the loop, each worker and a Stop that was
called go on. No fairness for clients, for calling Stop, for spurious wakeups or
for exceptions: nothing in the code makes them happen.

## Proofs

TLAPS proves the following for every value of the constants that satisfies the
modules' named assumptions (`PoolAssumption`: the queue size is a natural number,
`_flag` reads as some set of Booleans, the thread sets are finite and disjoint;
`LibraryAssumption`: items are well formed and closeness is reflexive and symmetric;
`QueryAssumption`: finitely many words; `RecommanderAssumption`: keys are made of
letters, there are finitely many workers and what is read beyond a vector is an
integer; and the types of the rest). A module
`X_proofs` holds the theorems about `X`; `PageStore_proofs` has those about
`PageLibrary` too, which `WebPageQuery_proofs` uses as well, and `XmlOutput_proofs`
those about `XmlPrinter` and `XmlText` within `XmlDocument`.

**`ThreadPool`**: `TypeCorrect`, `MutualExclusion`, `QueueIsAlwaysSafe`
(from `Bounded` and `NoUnderflow`), `ExactlyOnce`, `StopIsGraceful`,
`SignalsSuffice`, `Refinement`. Mutual exclusion comes first: with it, only the
owner changes what an owner has tested, so `Full` and `Empty` stay true from test
to use even though `_flag` may change between. Exactly-once needs that the log has
no task twice and that what a worker holds was popped and is not held by another.
`StopIsGraceful` needs the phase of Stop: once it looked, the head has reached the
tail it saw, and a worker that has exited holds nothing. `SignalsSuffice` counts
threads in both directions at once. The refinement maps each step to `Submit`,
`Take`, `Finish`, `Close` or a stutter.

**`Server`**: `DescriptorsAreCurrentAlways`, `PendingIsAlwaysAnnounced`,
`RefsAreAlwaysExact`, `QueriesAreAlwaysConserved`, and, for one worker,
`AnswersAreInOrder`. The invariant has a part for each of the things that must
agree: the loop's batch and the epoll set (`LoopInv`), who owns which descriptor
(`Owned`), the tasks in the pool and the lines they were made from (`TaskInv`,
`LinesInv`), the references that tasks, functors and table hold (`RefsInv`), and
the answers between worker and client (`AnswerInv`). None of them is inductive
alone: that a reference count is exact needs that a client is in the table as long
as its descriptor is watched, and that needs that a batch has no stale event.
That a line of a client becomes exactly one query is stated by positions (the n-th
query of a client is its n-th line), which an induction can follow. The order of
answers is proved of one worker because with two it does not hold.

**`PageLibrary`**: `LibraryTypeCorrect`, `KeptAreDistinctAlways`,
`RemovedHaveTwinsAlways`, `IndexMatchesLibraryAlways`,
`FrequenciesMatchIndexAlways`. The invariant `IInv` says, besides the types, that
the list is increasing (`Increasing`), that every page before the first iterator
has been compared with all after it and every page between the iterators with
the first one's (`Compared`), and that a removed page has its twin *at or before*
the first iterator (`TwinsStay`): later erasures are behind it, so the twin is
never erased in turn. That is the point of the proof: `RemovedHaveTwins` alone is
not inductive, because the twin could be removed for a page that is not close to
the first (closeness is not transitive). `Counted` and `Indexed` are the loop
invariants of the two passes, with the frequency as the cardinality of the pages
listed so far.

**`PageStore`**: `OffsetsAlwaysLocatePages`, for pages of any size. What is on disk
is a recursive function of the list of pages; that one satisfies its equation, and
that a text once appended stays where it is, are inductions over the pages.

**`WebPageQuery`**: `ImplementsLibrary` (queries leave the library alone, so all of
the above holds while they run), `FoundIsConjunctionAlways` (a page's count of hits
is the number of words looked up so far that it has, hence it reaches the number
of words exactly for the pages with all of them) and `AnswerRanksFoundAlways`.
Nothing is assumed of the comparison of cosines for the last: a page may lose its
place in the map only to one it was compared equal with.

**`LruCache`**: `MapAlwaysMatches`, `RecentAlwaysKept`, for any size and any number
of calls.

**`KeyRecommander`**: `StoredWordsAreFoundAlways` (before it has begun a dictionary
a producer's `_index` is empty, and what Store writes after the first is the index
of that one), `LookupsAddNothingAlways`, `CandidatesAreInRangeAlways`,
`StoredAnswersAreTrueAlways` and `NothingAddsUpAlways`. The third and fourth follow
a query that overlaps no other: what was found for its key was found in the files'
index, so it lies in the dictionary, a hit count is at most the number of the key's
letters, and when nothing was found no word has a letter of the key, for the letters
a text is cut into are those of its bytes (`PureLetters`). For the words in the
answer, `StrayInv` says of the queue, of the answers on their way and of those stored
that all their entries are stray: a query of one script that overlaps no other puts
nothing in, because it found nothing or died, and `GetString` only takes out. It
holds while the dictionaries are intact, which fixes `words` to the files. The last bounds a queue that is never emptied: with j queries
about to answer it has fewer entries than places times (1 + j), and `GetString`
takes out half.

**`XmlDocument`**: `TreeIsAlwaysLinked`, `PoolsAreAlwaysExact`, `FirstErrorIsAlwaysKept`
and `DepthIsAlwaysLimited`, for any number of nodes, files of any length and any
number of changes, from `TreeAssumption` (the null pointer is no node and no name),
`ParserAssumption` (the kinds of node and the depth limit are in their ranges) and
`EditAssumption`. All but the third rest on `DocInv`, which has two halves.
`Whole` is what each operation on the tree keeps, and says nothing of the parser: every
node's children form one chain from `_firstChild` to `_lastChild`, linked both
ways (`Chained`), only the document and elements have children (`Holding`), every set
of nodes has one whose parent is outside it, so that no node is below itself
(`Acyclic`), `_unlinked` lists what is in no tree, each node once (`Listed`), and the
pools count what is allocated (`Counted`). The chain is why the pointers are
right: `Unlink` and the insertions change it at one place, and the three insertions
are one lemma about a place in a chain. Acyclicity is why deletion ends and frees
each node once. `Position` says where the parser is: while a file is
read, what is in no tree is exactly the opened elements and the node just
recognised (`Opened`). So nothing is in no tree once a file has been read, and
unwinding frees what it must. `Clear`, `Subtree` and `Children` are loops;
`Turns` states once that a loop's function over a range exists and obeys its
equation, and `ChildrenAre` that following `_next` gives the chain.

**The loaded tree.** `LoadedTreeIsAlwaysFile` and `FailedTreeIsAlwaysWhole`. What a
node is written as is defined by recursion over the tree (`Unfold`); that there are
such items, and only one choice of them, holds because the tree is acyclic: nodes
are given their items one after the other, each after its children (`ItemsExist`,
`ItemsAgree`), and nodes that a change does not touch keep theirs. `ReadInv` is the
invariant on top of `DocInv`. While a file is read, what the opened elements hold so
far, one behind the other along the stack (`Opening`), is what was read with every
sealed tag taken apart (`Expand`). And `Sound` says how far the file balances: the
finished nodes of the document are a prefix of it, and behind that prefix the
nesting never falls to zero and is now the number of opened elements. From this follow
both theorems: with nothing open the prefix is all of the file, and after an error
it is what is left in the tree (`Given`), since each level of the unwinding deletes
a node that is in no tree.

**Searches.** `SearchesAlwaysMeetEachChild`: a search that begins at a place in a
chain stops at the first node of the name behind it, so that a loop of searches
walks along the chain with the other nodes sifted out, once forwards and once
backwards.

**The printed tree.** `PrintedIsAlwaysTree`. `Walking` gives for the node that is
visited the way to it from the document (`Trail`), and for each node on it what was
written before it was entered: what its parent opened with and the items of its
earlier siblings. The one character that is late is the `>` of an element just
opened (`Pending`). `Spacing` is about white space: the output has as many open
elements as `_depth`, and inside one it never ends with white space, and with a text
only while `_textDepth` is set, which keeps white space away (`Guarded`).
`_textDepth` is one number for all levels; the proof needs no more of it, because it
is reset only when an element ends, whose tag then stands between.

**Texts.** `TextIsAlwaysExpected` and `PrintedTextAlwaysReadsBack`, for texts of any
bytes and any length, from `RawAssumption` (bytes that are not zero). A reference's
digits are added up from the last with multipliers that stop at 0x10FFFF; the number
they stand for is defined from the first digit (`Number`). That the two agree as far as
it matters (`UcsIsNumber`) is shown by induction over the digits: while no product is
capped the sums are the same (`TurnsCompare`); once one is, any further digit that is not
zero makes both too large, a 1 with nothing but zeros excepted (`OneAndZerosSum`). `TextInv`: the write pointer
is not ahead of the read pointer, behind which the bytes are those of the file; and
what has been written followed by what the rest of the file stands for is what the
whole stands for (`WrittenTo`). The last needs the meaning of every suffix, which is
a recursive function with a result for each place. After printing, the text read is
a prefix of the one printed at every step (`PrintedTo`): no escape is cut.

Recursive functions. The provers cannot instantiate an induction theorem, whose
parameter is an operator. The inductions over naturals here take the set of numbers
for which the claim holds and show that it is all of them (`NaturalsReached`,
`AllNaturals`, from the well-foundedness of <); that a recursive function satisfies
its equation is shown the same way (`IteratesExists`, `WrittenExists`). What this
cannot do is quantify over the function's definition, so each recursion has its own
short lemma. The recursions over trees and texts (`Unfold`, `Expected`, the loops of
searches) are taken the same way: a function that obeys the equation on a set of
nodes or places is extended by one more until the set is everything, and two that
obey it agree.

Only model-checked: liveness (`QueuedTasksRun`, `StopReturns`, everything of
`ServerLive` under fairness), which is beyond TLAPS here, and the properties of the
four runs that end in a violation. Every invariant and safety action property of the
passing runs is stated by a theorem.

## Plan

Done, in order of importance: the pool and its refinement; loop and servers on
top of the abstract pool; the page pipeline; queries; stores; the LRU cache;
the keyword dictionaries, recommender and answer cache; the XML document.

Next: `XMLNode::DeepClone` and comparison; `PageLibrary`'s `LoadItem` on an
`XmlDocument` instead of on an item given as data; the proofs of `XmlDocument`,
which are two thirds of all proof text, in shorter form.

Not modelled: logging, formatting, addresses, blocking writes and lines beyond
the 65535-byte buffer; errors of socket set-up; configuration and word splitting
(their results are data); of tinyxml2 white space collapsing, conversions of
values to numbers, clones and comparisons, `XMLHandle`, the byte order mark, the
failures of `SaveFile` and printing without a document; `CacheManager`, `MyTimer`,
`EchoServer`; nlohmann json, simhash, cppjieba, redis++ and the kernel, which are
external. The repository has no program that runs `DictProducer` or starts the
key server; the models take any order of their calls.
