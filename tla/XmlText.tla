------------------------------- MODULE XmlText -------------------------------
(***************************************************************************)
(* StrPair::GetStr, which turns the text of a node into what the program   *)
(* reads, in place, the first time it is read; and XMLPrinter::PrintString, *)
(* which writes it out again.  One step is one turn of GetStr's loop.  The  *)
(* characters are bytes, with 0 behind the last one.                        *)
(***************************************************************************)
EXTENDS Integers, Sequences, SequencesExt

CONSTANT Raws   \* the texts that files have

(* A text is a C string.                                                    *)
ASSUME RawAssumption == Raws \subseteq Seq(1..255)

VARIABLES
  raw,       \* the text as it is in the file
  buf,       \* the same bytes as GetStr rewrites them
  p, q,      \* the read pointer and the write pointer
  pass,      \* 0: not read yet, 1: read, 2: printed and read again
  wanted     \* the text that was printed

textVars == <<raw, buf, p, q, pass, wanted>>

LF == 10  CR == 13  Amp == 38  Hash == 35  Semicolon == 59  Letter_x == 120
Entities == {
  [pattern |-> <<113, 117, 111, 116>>, value |-> 34],   \* quot
  [pattern |-> <<97, 109, 112>>, value |-> 38],         \* amp
  [pattern |-> <<97, 112, 111, 115>>, value |-> 39],    \* apos
  [pattern |-> <<108, 116>>, value |-> 60],             \* lt
  [pattern |-> <<103, 116>>, value |-> 62]}             \* gt

At(s, i) == IF i \in DOMAIN s THEN s[i] ELSE 0
HasAt(s, i, t) == \A j \in DOMAIN t : At(s, i + j - 1) = t[j]

TextInit ==
  /\ raw = <<>> /\ buf = <<>> /\ p = 1 /\ q = 1
  /\ pass = 0 /\ wanted = <<>>
-----------------------------------------------------------------------------
(* ConvertUTF32ToUTF8.                                                      *)
Low(u) == 128 + (u % 64)
ConvertUTF32ToUTF8(u) ==
  IF u < 128 THEN <<u>>
  ELSE IF u < 2048 THEN <<192 + u \div 64, Low(u)>>
  ELSE IF u < 65536 THEN <<224 + u \div 4096, Low(u \div 64), Low(u)>>
  ELSE IF u < 2097152
       THEN <<240 + u \div 262144, Low(u \div 4096), Low(u \div 64), Low(u)>>
  ELSE <<>>

Digit(c, base) ==
  IF c \in 48..57 THEN c - 48
  ELSE IF base = 16 /\ c \in 97..102 THEN c - 87
  ELSE IF base = 16 /\ c \in 65..70 THEN c - 55
  ELSE -1

(* GetCharacterRef at i, where the text has &#.  The digits are read         *)
(* backwards from the semicolon to the nearest x, or #; RefDigits is where   *)
(* they are.                                                                *)
IsHex(s, i) == At(s, i + 2) = Letter_x
Base(s, i) == IF IsHex(s, i) THEN 16 ELSE 10
RefEnds(s, i) ==
  {j \in (IF IsHex(s, i) THEN i + 3 ELSE i + 2)..Len(s) : s[j] = Semicolon}
RefEnd(s, i) == Min(RefEnds(s, i))
RefMarks(s, i) ==
  {j \in i..RefEnd(s, i) : s[j] = IF IsHex(s, i) THEN Letter_x ELSE Hash}
RefDigits(s, i) ==
  LET last == Max(RefMarks(s, i)) IN
  [k \in 1..(RefEnd(s, i) - last - 1) |-> Digit(s[last + k], Base(s, i))]

(* ucs as the loop adds it up from the last digit to the first.  mult stops  *)
(* at the largest code point, so that no product needs more than 32 bits.    *)
(* The loop gives up as soon as ucs is too large; later it could only grow.  *)
MaxCodePoint == 1114111
Capped(n) == IF n > MaxCodePoint THEN MaxCodePoint ELSE n
Mults(n, base) ==
  LET mult[k \in 0..n] == IF k = 0 THEN 1 ELSE Capped(mult[k - 1] * base) IN mult
Ucs(digits, mult) ==
  LET ucs[k \in 0..Len(digits)] ==
        IF k = 0 THEN 0 ELSE ucs[k - 1] + mult[k - 1] * digits[Len(digits) - k + 1]
  IN ucs[Len(digits)]
RefValue(s, i) ==
  Ucs(RefDigits(s, i), Mults(Len(RefDigits(s, i)), Base(s, i)))

IsRef(s, i) ==
  /\ RefEnds(s, i) # {} /\ -1 \notin Range(RefDigits(s, i))
  /\ RefValue(s, i) <= MaxCodePoint /\ ConvertUTF32ToUTF8(RefValue(s, i)) # <<>>

NoRef == [bytes |-> <<Amp>>, skip |-> 1]     \* & is copied like any character
(* Mutant: the number is not compared with the largest code point.          *)
GetCharacterRefAny(s, i) ==
  IF At(s, i + 2) = 0 THEN [bytes |-> <<>>, skip |-> 1]
  ELSE IF RefEnds(s, i) = {} \/ -1 \in Range(RefDigits(s, i)) THEN NoRef
  ELSE [bytes |-> ConvertUTF32ToUTF8(RefValue(s, i)), skip |-> RefEnd(s, i) - i + 1]

GetCharacterRef(s, i) ==
  IF At(s, i + 2) = 0 THEN [bytes |-> <<>>, skip |-> 1]
  ELSE IF ~IsRef(s, i) THEN NoRef
  ELSE [bytes |-> ConvertUTF32ToUTF8(RefValue(s, i)), skip |-> RefEnd(s, i) - i + 1]

EntitiesAt(s, i) ==
  {e \in Entities : HasAt(s, i + 1, Append(e.pattern, Semicolon))}
-----------------------------------------------------------------------------
(* GetStr.                                                                  *)
Flushing == pass > 0 /\ p <= Len(buf)

StartReading(r) ==
  /\ pass = 0
  /\ raw' = r /\ buf' = r /\ p' = 1 /\ q' = 1 /\ pass' = 1
  /\ UNCHANGED wanted

Put(bytes, next) ==
  /\ buf' = [i \in DOMAIN buf |->
               IF i \in q..(q + Len(bytes) - 1) THEN bytes[i - q + 1] ELSE buf[i]]
  /\ q' = q + Len(bytes) /\ p' = next
  /\ UNCHANGED <<raw, pass, wanted>>

(* CR-LF, LF-CR, CR and LF become LF.                                       *)
CopyNewline ==
  /\ Flushing /\ buf[p] \in {CR, LF}
  /\ LET other == IF buf[p] = CR THEN LF ELSE CR IN
     Put(<<LF>>, IF At(buf, p + 1) = other THEN p + 2 ELSE p + 1)

IsCharacterRef == buf[p] = Amp /\ At(buf, p + 1) = Hash

CopyCharacterRef ==
  /\ Flushing /\ IsCharacterRef
  /\ LET ref == GetCharacterRef(buf, p) IN Put(ref.bytes, p + ref.skip)

CopyEntity ==
  /\ Flushing /\ buf[p] = Amp /\ ~IsCharacterRef
  /\ \E e \in EntitiesAt(buf, p) : Put(<<e.value>>, p + Len(e.pattern) + 2)

(* What begins like an entity and is none: nothing is written.              *)
PassUnknownEntity ==
  /\ Flushing /\ buf[p] = Amp /\ ~IsCharacterRef
  /\ EntitiesAt(buf, p) = {}
  /\ p' = p + 1 /\ q' = q + 1
  /\ UNCHANGED <<raw, buf, pass, wanted>>

CopyCharacter ==
  /\ Flushing /\ buf[p] \notin {CR, LF, Amp}
  /\ Put(<<buf[p]>>, p + 1)
-----------------------------------------------------------------------------
(* What GetStr returns, and what a reader of a C string sees of it.         *)
Result == SubSeq(buf, 1, q - 1)
Seen == SubSeq(Result, 1,
          CHOOSE n \in 0..Len(Result) :
            /\ \A i \in 1..n : Result[i] # 0
            /\ n = Len(Result) \/ Result[n + 1] = 0)
Flushed == pass > 0 /\ p > Len(buf)

(* PrintString with the entities that PushText escapes, & < and >.          *)
(* Mutant: & is not among them.                                             *)
PrintStringBare(s) ==
  FlattenSeq([i \in DOMAIN s |->
    IF s[i] \in {60, 62}
    THEN <<Amp>> \o (CHOOSE e \in Entities : e.value = s[i]).pattern \o <<Semicolon>>
    ELSE <<s[i]>>])

PrintString(s) ==
  FlattenSeq([i \in DOMAIN s |->
    IF s[i] \in {Amp, 60, 62}
    THEN <<Amp>> \o (CHOOSE e \in Entities : e.value = s[i]).pattern \o <<Semicolon>>
    ELSE <<s[i]>>])

PrintAndReadAgain ==
  /\ Flushed /\ pass = 1
  /\ wanted' = Seen
  /\ raw' = PrintString(Seen) /\ buf' = raw' /\ p' = 1 /\ q' = 1 /\ pass' = 2

TextStep ==
  \/ CopyNewline \/ CopyCharacterRef \/ CopyEntity \/ PassUnknownEntity
  \/ CopyCharacter \/ PrintAndReadAgain
-----------------------------------------------------------------------------
(* What the text should read as.  Kept stands for the & of what begins like *)
(* an entity and is none.                                                   *)
Kept == -1
EntityAt(s, i) == CHOOSE e \in EntitiesAt(s, i) : TRUE
Meant(s, i) ==
  IF s[i] \in {CR, LF}
  THEN [bytes |-> <<LF>>, skip |-> IF {s[i], At(s, i + 1)} = {CR, LF} THEN 2 ELSE 1]
  ELSE IF s[i] # Amp THEN [bytes |-> <<s[i]>>, skip |-> 1]
  ELSE IF At(s, i + 1) = Hash THEN GetCharacterRef(s, i)
  ELSE IF EntitiesAt(s, i) = {} THEN [bytes |-> <<Kept>>, skip |-> 1]
  ELSE [bytes |-> <<EntityAt(s, i).value>>, skip |-> Len(EntityAt(s, i).pattern) + 2]
Expected(s) ==
  LET from[i \in 1..(Len(s) + 1)] ==
        IF i > Len(s) THEN <<>> ELSE Meant(s, i).bytes \o from[i + Meant(s, i).skip]
  IN from[1]

(* The code point that a UTF-8 sequence stands for.                         *)
Decoded(b) ==
  LET Tail6(k) == b[k] - 128 IN
  CASE Len(b) = 1 /\ b[1] \in 0..127 -> b[1]
    [] Len(b) = 2 /\ b[1] \in 194..223 -> (b[1] - 192) * 64 + Tail6(2)
    [] Len(b) = 3 /\ b[1] \in 224..239 ->
         (b[1] - 224) * 4096 + Tail6(2) * 64 + Tail6(3)
    [] Len(b) = 4 /\ b[1] \in 240..247 ->
         (b[1] - 240) * 262144 + Tail6(2) * 4096 + Tail6(3) * 64 + Tail6(4)
    [] OTHER -> -1

(* The write pointer never passes the read pointer, so that GetStr reads    *)
(* nothing it has written, although a reference may stand for four bytes    *)
(* and what one turn reads behind p (the other half of a newline, a whole   *)
(* reference) has to be untouched as well.                                  *)
WritesStayBehind ==
  /\ q <= p
  /\ \A i \in p..Len(raw) : buf[i] = raw[i]

(* What is read is what the text stands for, except that the & of what      *)
(* begins like an entity and is none reads as whatever byte the file has at *)
(* that place of the text: it is itself only if nothing before it shrank.   *)
ReadsAsExpected ==
  Flushed =>
    /\ Len(Result) = Len(Expected(raw))
    /\ \A i \in DOMAIN Result :
         Result[i] = IF Expected(raw)[i] = Kept THEN raw[i] ELSE Expected(raw)[i]

(* What a reference with these digits is the number of.                     *)
Number(digits, base) ==
  LET value[k \in 0..Len(digits)] ==
        IF k = 0 THEN 0 ELSE value[k - 1] * base + digits[k]
  IN value[Len(digits)]

OneAndZeros(digits) ==
  \E j \in DOMAIN digits : \A k \in DOMAIN digits : digits[k] = IF k = j THEN 1 ELSE 0

(* A numeric reference reads as the UTF-8 form of its number, in one to four *)
(* bytes, if that is a code point; if not, it stays as it is written.  One   *)
(* kind of number that is none gets through: a 1 and zeros, for whose one     *)
(* digit the loop has the largest code point as multiplier, reads as that.   *)
ReferencesDecode ==
  \A i \in DOMAIN raw :
    /\ raw[i] = Amp /\ At(raw, i + 1) = Hash /\ At(raw, i + 2) # 0
    /\ RefEnds(raw, i) # {} /\ -1 \notin Range(RefDigits(raw, i))
    => LET digits == RefDigits(raw, i)
           n == Number(digits, Base(raw, i))
           ref == GetCharacterRef(raw, i)
       IN IF n > MaxCodePoint /\ ~OneAndZeros(digits) THEN ref = NoRef
          ELSE Decoded(ref.bytes) = Capped(n)

(* GetStr decodes every text in place to what it stands for.                *)
TextIsExpected == WritesStayBehind /\ ReadsAsExpected /\ ReferencesDecode

(* A text that is printed and parsed again reads as before, whatever its    *)
(* own &, < and > look like, unless it has a carriage return, which is not  *)
(* escaped and comes back as a newline.                                     *)
PrintedTextReadsBack ==
  Flushed /\ pass = 2 /\ CR \notin Range(wanted) => Seen = wanted
=============================================================================
