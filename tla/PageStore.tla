------------------------------- MODULE PageStore -------------------------------
(***************************************************************************)
(* PageLib::StoreOnDisk and PageLibPreprocessor::StoreOnDisk on the pages  *)
(* of PageLibrary.  A page's text is as many copies of its doc id as it    *)
(* has bytes.  Nothing in the repository reads the files back.             *)
(***************************************************************************)
EXTENDS PageLibrary

CONSTANT Garbage   \* the sizes a string that is not there may seem to have

VARIABLES
  file, records, offsetLib,          \* ripe_page.dat, offset_lib.dat, _offset_lib
  newFile, newRecords, newOffsetLib  \* the same of the preprocessor

storeVars == <<file, records, offsetLib, newFile, newRecords, newOffsetLib>>
pipelineVars == <<libraryVars, storeVars>>

PipelineInit ==
  /\ LibraryInit
  /\ file = <<>> /\ records = <<>> /\ offsetLib = {}
  /\ newFile = <<>> /\ newRecords = <<>> /\ newOffsetLib = {}

Text(id) == [b \in 1..rss[id].size |-> id]

(* What is in a file after its first k pages, and how long that is.         *)
Written(ids) ==
  LET upTo[k \in 0..Len(ids)] == IF k = 0 THEN <<>> ELSE upTo[k - 1] \o Text(ids[k])
  IN upTo
Offset(ids, k) == Len(Written(ids)[k])

Record(id, offset, size) == [id |-> id, offset |-> offset, size |-> size]
RipeIds == [i \in 1..Len(rss) |-> i]

(* PageLib's loop writes an offset and then adds the page's size to it.     *)
(* Mutant: it adds the size first.                                          *)
RecordsAfter(ids) == [k \in 1..Len(ids) |-> Record(ids[k], Offset(ids, k), rss[ids[k]].size)]

Records(ids) == [k \in 1..Len(ids) |-> Record(ids[k], Offset(ids, k - 1), rss[ids[k]].size)]

(* Both loops fill the map after they have incremented the doc id and added *)
(* the size to the offset.                                                  *)
MapEntries(ids, size) ==
  {Record(ids[k] + 1, Offset(ids, k), size[k]) : k \in 1..Len(ids)}

StoreLibrary ==
  /\ pc \notin {"load", "crashed"}
  /\ records = <<>>
  /\ file' = Written(RipeIds)[Len(rss)]
  /\ records' = Records(RipeIds)
  /\ offsetLib' = MapEntries(RipeIds, [k \in 1..Len(rss) |-> rss[k].size])
  /\ UNCHANGED <<libraryVars, newFile, newRecords, newOffsetLib>>

(* The preprocessor takes the size from _page_lib_list[doc_id]: place       *)
(* doc_id + 1 when places count from 1, which may be beyond the end.        *)
SizesRead(id) == IF id + 1 <= Len(list) THEN {rss[list[id + 1]].size} ELSE Garbage

StoreNewLibrary ==
  /\ pc = "ready"
  /\ newRecords = <<>>
  /\ newFile' = Written(list)[Len(list)]
  /\ \E size \in [1..Len(list) -> UNION {SizesRead(list[k]) : k \in 1..Len(list)}] :
       /\ \A k \in 1..Len(list) : size[k] \in SizesRead(list[k])
       /\ newRecords' = [k \in 1..Len(list) |-> Record(list[k], Offset(list, k - 1), size[k])]
       /\ newOffsetLib' = MapEntries(list, size)
  /\ UNCHANGED <<libraryVars, file, records, offsetLib>>

PipelineNext ==
  \/ LibraryStep /\ UNCHANGED storeVars
  \/ StoreLibrary \/ StoreNewLibrary

PipelineSpec == PipelineInit /\ [][PipelineNext]_pipelineVars
-----------------------------------------------------------------------------
LocatesIn(text, id, offset, size) ==
  offset + size <= Len(text) /\ SubSeq(text, offset + 1, offset + size) = Text(id)

(* Every record of offset_lib.dat gives the place of its own page's text in *)
(* ripe_page.dat, and every page has one.                                   *)
RecordsLocatePages ==
  /\ \A k \in 1..Len(records) :
       LocatesIn(file, records[k].id, records[k].offset, records[k].size)
  /\ records # <<>> => {records[k].id : k \in 1..Len(records)} = 1..Len(rss)

(* new_offset_lib.dat has every kept page once, in order, and the place     *)
(* where its text begins in new_ripe_page.data.  The sizes in it are wrong. *)
NewOffsetsLocatePages ==
  newRecords # <<>> =>
    /\ [k \in 1..Len(newRecords) |-> newRecords[k].id] = list
    /\ \A k \in 1..Len(newRecords) :
         LocatesIn(newFile, list[k], newRecords[k].offset, rss[list[k]].size)

(* Whoever reads a text by an offset stored on disk reads that page's text. *)
OffsetsLocatePages == RecordsLocatePages /\ NewOffsetsLocatePages
=============================================================================
