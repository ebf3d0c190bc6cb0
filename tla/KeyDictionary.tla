----------------------------- MODULE KeyDictionary -----------------------------
(***************************************************************************)
(* DictProducer, which makes the two dictionaries of the key server from   *)
(* texts and stores them, each with an index from letters to the words     *)
(* that have them; and Dictionary, which reads the four files.  A letter   *)
(* is one byte or three.  Places in a dictionary count from 1.             *)
(***************************************************************************)
EXTENDS Integers, Sequences, FiniteSets, SequencesExt

CONSTANTS
  Narrow, Wide,     \* the letters of one byte and of three
  EnTexts,          \* what english.txt may be
  CnTexts,          \* what the articles may be: files, each of lines of words
  EnStops, CnStops, \* what the stop words of each may be
  MaxBuilds,        \* how many dictionaries are built (bound)
  Missing           \* a file that cannot be opened

Letters == Narrow \cup Wide

ASSUME KeyDictionaryAssumption ==
  /\ Narrow \cap Wide = {}
  /\ EnTexts \subseteq Seq(UNION {Range(text) : text \in EnTexts})
  /\ CnTexts \subseteq Seq(Seq(Seq(Seq(Letters))) \cup {Missing})
  /\ MaxBuilds \in Nat

VARIABLES
  step,     \* the producer's next call
  type,     \* the type it is building
  dict,     \* DictProducer's _dict
  index,    \* its _index, as pairs of a letter and a place
  file,     \* its _file
  made,     \* how many dictionaries have been begun
  uses,     \* how many of them with this DictProducer
  dictFile, indexFile,   \* the files of the types that have one
  stored    \* how the files of a type were written last

producerVars == <<step, type, dict, index, file, made, uses, dictFile,
                  indexFile, stored>>

Types == {"ENG", "CN"}
Steps == {"build", "index", "store"}
Histories == {"none", "fresh", "reused", "torn"}

Least(a, b) == IF a <= b THEN a ELSE b

(* The bytes of a text; a byte is a letter and its number in the letter, 0   *)
(* in a narrow one.                                                         *)
Bytes(text) ==
  FlattenSeq([i \in DOMAIN text |->
    IF text[i] \in Wide THEN [b \in 1..3 |-> <<text[i], b>>] ELSE << <<text[i], 0>> >>])

(* Dictionary::CharLen; the first byte of "" is NUL.                        *)
CharLen(bytes) ==
  IF bytes = <<>> \/ bytes[1][2] = 0 THEN 1
  ELSE IF bytes[1][2] = 1 THEN 3 ELSE -1

(* What a loop over bytes in steps of n takes for letters.                  *)
Chunks(bytes, n) ==
  {SubSeq(bytes, i, Least(i + n - 1, Len(bytes))) :
     i \in {i \in DOMAIN bytes : (i - 1) % n = 0}}

ProducerInit ==
  /\ step = "build" /\ type = "ENG" /\ made = 0 /\ uses = 0
  /\ dict = <<>> /\ index = {} /\ file = <<>>
  /\ dictFile = <<>> /\ indexFile = <<>>
  /\ stored = [t \in Types |-> "none"]
-----------------------------------------------------------------------------
(* The map from the words that are not left out to frequencies, copied to a *)
(* vector.  (The order is that of the words; nothing depends on it.)        *)
Occurrences(words, word) == Cardinality({i \in DOMAIN words : words[i] = word})
Counted(words, left) ==
  LET order == SetToSeq(Range(words) \ left)
  IN [i \in DOMAIN order |-> [word |-> order[i], freq |-> Occurrences(words, order[i])]]

(* PreProcess makes a space of everything that is no letter of the English  *)
(* alphabet; what is between two spaces is a word, or nothing.              *)
Extended(words, c) ==
  IF c \in Narrow THEN [words EXCEPT ![Len(words)] = Append(@, c)]
                  ELSE Append(words, <<>>)
WordsOf(text) ==
  LET words[n \in 0..Len(text)] ==
        IF n = 0 THEN << <<>> >> ELSE Extended(words[n - 1], text[n])
  IN words[Len(text)]

Building(t) ==
  /\ step = "build" /\ made < MaxBuilds
  /\ step' = "index" /\ type' = t /\ made' = made + 1 /\ uses' = uses + 1
  /\ UNCHANGED <<dictFile, indexFile, stored>>

(* A file of stop words that cannot be opened has none.                     *)
BuildEnDict(text) ==
  /\ Building("ENG")
  /\ \E stops \in EnStops :
       dict' = IF text = Missing THEN <<>> ELSE Counted(WordsOf(text), stops \cup {<<>>})
  /\ UNCHANGED <<index, file>>

(* Words that begin with no wide letter are left out.                       *)
IsAlphaNumber(word) == CharLen(Bytes(word)) # 3

(* _file is filled before it is looked through, and never emptied.  n is    *)
(* how many articles come before the first that cannot be opened.           *)
BuildCnDict(articles) ==
  /\ Building("CN")
  /\ \E n \in 0..Len(articles), stops \in CnStops :
       /\ \A i \in 1..n : articles[i] # Missing
       /\ n < Len(articles) => articles[n + 1] = Missing
       /\ file' = file \o FlattenSeq(SubSeq(articles, 1, n))
       /\ LET words == FlattenSeq(file')
          IN dict' = IF n < Len(articles) THEN <<>>
                     ELSE Counted(words, stops \cup {w \in Range(words) : IsAlphaNumber(w)})
  /\ UNCHANGED index

SizeOf(t) == IF t = "CN" THEN 3 ELSE 1
LetterSize == SizeOf(type)
Indexed(d, size) ==
  UNION {{<<c, i>> : c \in Chunks(Bytes(d[i].word), size)} : i \in DOMAIN d}

(* Mutant: only the first letter of a word is indexed.                      *)
CreateIndexFirst ==
  /\ step = "index" /\ step' = "store"
  /\ index' = index \cup {<<SubSeq(Bytes(dict[i].word), 1, LetterSize), i>> : i \in DOMAIN dict}
  /\ UNCHANGED <<type, dict, file, made, uses, dictFile, indexFile, stored>>

(* Mutant: the places are one too high.                                     *)
CreateIndexNext ==
  /\ step = "index" /\ step' = "store"
  /\ index' = index \cup {<<p[1], p[2] + 1>> : p \in Indexed(dict, LetterSize)}
  /\ UNCHANGED <<type, dict, file, made, uses, dictFile, indexFile, stored>>

(* _index is added to, and never emptied.                                   *)
CreateIndex ==
  /\ step = "index" /\ step' = "store"
  /\ index' = index \cup Indexed(dict, LetterSize)
  /\ UNCHANGED <<type, dict, file, made, uses, dictFile, indexFile, stored>>

WithFile(f, t, content) ==
  [x \in DOMAIN f \cup {t} |-> IF x = t THEN content ELSE f[x]]

(* Opening a file to write it empties it, also when the other cannot be     *)
(* opened.                                                                  *)
Store ==
  /\ step = "store" /\ step' = "build"
  /\ \E d, i \in BOOLEAN :
       /\ dictFile' = IF d THEN WithFile(dictFile, type, IF i THEN dict ELSE <<>>)
                           ELSE dictFile
       /\ indexFile' = IF i THEN WithFile(indexFile, type, IF d THEN index ELSE {})
                            ELSE indexFile
       /\ stored' = [stored EXCEPT ![type] =
                       IF d /\ i THEN (IF uses = 1 THEN "fresh" ELSE "reused")
                       ELSE IF d \/ i THEN "torn" ELSE @]
  /\ UNCHANGED <<type, dict, index, file, made, uses>>

(* The program makes another DictProducer for the next dictionary.          *)
NewProducer ==
  /\ step = "build"
  /\ dict' = <<>> /\ index' = {} /\ file' = <<>> /\ uses' = 0
  /\ UNCHANGED <<step, type, made, dictFile, indexFile, stored>>

ProducerStep ==
  \/ \E text \in EnTexts \cup {Missing} : BuildEnDict(text)
  \/ \E articles \in CnTexts : BuildCnDict(articles)
  \/ CreateIndex \/ Store \/ NewProducer
-----------------------------------------------------------------------------
(* Dictionary's constructor.  The English file is read first, and the       *)
(* Chinese one not at all when there is none.                               *)
ReadInOrder(f, t, nothing) ==
  IF {"ENG", t} \subseteq DOMAIN f THEN f[t] ELSE nothing

ReadDict == [t \in Types |-> ReadInOrder(dictFile, t, <<>>)]
ReadIndex ==
  [t \in Types |->
    LET pairs == ReadInOrder(indexFile, t, {})
    IN [c \in {p[1] : p \in pairs} |-> {p[2] : p \in {p \in pairs : p[1] = c}}]]
=============================================================================
