----------------------------- MODULE XmlDocument -----------------------------
(***************************************************************************)
(* One XMLDocument: files are loaded into it one after the other, and in   *)
(* between its tree can be changed and printed, and a text be read.        *)
(***************************************************************************)
EXTENDS XmlParser, XmlPrinter, XmlText

CONSTANTS
  MaxEdits     \* how many changes are made to the tree (bound)

ASSUME EditAssumption == MaxEdits \in Nat

VARIABLE edits \* how many have been made

vars == <<parserVars, printerVars, textVars, edits>>

Init == ParserInit /\ PrinterInit /\ TextInit /\ edits = 0

Alive == {n \in Nodes : dom.kind[n] # "free"}
Containers == {n \in Alive : dom.kind[n] = "element"} \cup {Doc}
Elements == Containers \ {Doc}
-----------------------------------------------------------------------------
(* Changes, made by a program that does not put a node under itself, to      *)
(* documents without error (bound).                                         *)
Still == mode \in {"idle", "loaded"} /\ ~Error
Edit(d) ==
  /\ Still /\ edits < MaxEdits
  /\ edits' = edits + 1 /\ mode' = "idle" /\ read' = <<>>
  /\ dom' = d /\ source' = "file" /\ closing' = "open"     \* of no more use
  /\ UNCHANGED <<error, stack, cur, loads, printerVars, textVars>>

NameFor(kind) == IF kind = "element" THEN Names ELSE {Null}
MayHold(n, c) == n \notin Subtree(dom, c)

(* NewElement, NewText, NewComment, NewDeclaration, NewUnknown.             *)
NewNode(kind) ==
  /\ Free(dom) # {}
  /\ \E name \in NameFor(kind) : Edit(CreateUnlinkedNode(dom, kind, name))

(* InsertNewChildElement, InsertNewText, ...                                *)
InsertNew(n, kind) ==
  /\ Free(dom) # {} /\ n # Doc
  /\ \E name \in NameFor(kind) :
       Edit(InsertEndChild(CreateUnlinkedNode(dom, kind, name), n, Fresh(dom)))

InsertLast(n, c) == MayHold(n, c) /\ Edit(InsertEndChild(dom, n, c))
InsertFirst(n, c) == MayHold(n, c) /\ Edit(InsertFirstChild(dom, n, c))

InsertAfter(b, c) ==
  /\ dom.parent[b] # Null /\ MayHold(dom.parent[b], c)
  /\ ~InsertAfterFaults(dom, b, c)
  /\ Edit(InsertAfterChild(dom, dom.parent[b], b, c))

(* The last child is moved behind the one before it: a null pointer is      *)
(* written through.                                                         *)
InsertAfterCrash(b, c) ==
  /\ Still
  /\ dom.parent[b] # Null /\ MayHold(dom.parent[b], c)
  /\ InsertAfterFaults(dom, b, c)
  /\ mode' = "crashed"
  /\ UNCHANGED <<dom, error, stack, cur, closing, source, read, loads,
                 printerVars, textVars, edits>>

Delete(n) == Edit(DeleteNode(dom, n))
DeleteAllUnder(n) == Edit(DeleteChildren(dom, n))

(* The value of a text that is there already changes in place.              *)
SetText(n) ==
  /\ dom.first[n] # Null => dom.kind[dom.first[n]] # "text"
  /\ Free(dom) # {}
  /\ Edit(InsertFirstChild(CreateUnlinkedNode(dom, "text", Null), n, Fresh(dom)))

FindOrCreateAttribute(n, x) ==
  /\ x \notin Range(dom.attrs[n])
  /\ Edit([dom EXCEPT !.attrs[n] = Append(@, x), !.allocs["attribute"] = @ + 1])

DeleteAttribute(n, x) ==
  /\ \E i \in DOMAIN dom.attrs[n] :
       /\ dom.attrs[n][i] = x
       /\ Edit([dom EXCEPT !.attrs[n] = RemoveAt(@, i), !.allocs["attribute"] = @ - 1])

ClearDocument ==
  /\ mode \in {"idle", "loaded"} /\ edits < MaxEdits
  /\ dom' = Clear(dom) /\ error' = "SUCCESS"
  /\ mode' = "idle" /\ read' = <<>> /\ edits' = edits + 1
  /\ UNCHANGED <<stack, cur, closing, source, loads, printerVars, textVars>>

EditStep ==
  \/ \E kind \in Kinds : NewNode(kind) \/ \E n \in Elements : InsertNew(n, kind)
  \/ \E n \in Containers, c \in Alive : InsertLast(n, c) \/ InsertFirst(n, c)
  \/ \E b, c \in Alive : InsertAfter(b, c) \/ InsertAfterCrash(b, c)
  \/ \E n \in Alive : Delete(n)
  \/ \E n \in Containers : DeleteAllUnder(n)
  \/ \E n \in Elements : SetText(n)
  \/ \E n \in Elements, x \in AttrNames :
       FindOrCreateAttribute(n, x) \/ DeleteAttribute(n, x)
  \/ ClearDocument
-----------------------------------------------------------------------------
(* Print and SaveFile.                                                      *)
BeginPrint(c) ==
  /\ Still
  /\ mode' = "print" /\ read' = <<>>
  /\ PrintDocument(dom, c)
  /\ UNCHANGED <<dom, error, stack, cur, closing, source, loads, textVars, edits>>

PrintMore ==
  /\ mode = "print" /\ PrinterStep(dom)
  /\ UNCHANGED <<parserVars, textVars, edits>>

EndPrint ==
  /\ mode = "print" /\ at = Nowhere
  /\ mode' = "idle"
  /\ PrintDocument(EmptyTree, FALSE)     \* the printer is as it was
  /\ UNCHANGED <<dom, error, stack, cur, closing, source, read, loads,
                 textVars, edits>>

(* What the nodes are written as, in the order of the file: what stands     *)
(* before the children of n, the children, and what stands behind them.     *)
Inner(d, item, n) ==
  FlattenSeq([i \in DOMAIN Children(d, n) |-> item[Children(d, n)[i]]])
Unfold(d, before, behind) ==
  LET item[n \in Nodes] == before[n] \o Inner(d, item, n) \o behind[n]
  IN Inner(d, item, Doc)

EndPiece(name) == Piece("end", name, <<>>)
(* The pieces that the tree would be written with, every element with both  *)
(* its tags.                                                                *)
StartOf(d, n) ==
  IF d.kind[n] = "element" THEN <<Piece("start", d.name[n], d.attrs[n])>>
  ELSE <<Mark(d.kind[n])>>
EndOf(d, n) == IF d.kind[n] = "element" THEN <<EndPiece(d.name[n])>> ELSE <<>>
Serial(d) ==
  Unfold(d, [n \in Nodes |-> StartOf(d, n)], [n \in Nodes |-> EndOf(d, n)])

(* Value() of a text.  Texts are read in the first document, when it is one  *)
(* element with one text (bound): GetStr looks at nothing else.             *)
OneText ==
  /\ loads = 1
  /\ \E name \in Names :
       Serial(dom) = <<Piece("start", name, <<>>), Mark("text"), EndPiece(name)>>

BeginValue ==
  /\ mode = "loaded" /\ error = "SUCCESS" /\ OneText
  /\ \E r \in Raws : StartReading(r)
  /\ mode' = "value" /\ read' = <<>>
  /\ UNCHANGED <<dom, error, stack, cur, closing, source, loads,
                 printerVars, edits>>

ValueMore ==
  /\ mode = "value" /\ TextStep
  /\ UNCHANGED <<parserVars, printerVars, edits>>

Next ==
  \/ ParserStep /\ UNCHANGED <<printerVars, textVars, edits>>
  \/ EditStep
  \/ \E c \in BOOLEAN : BeginPrint(c)
  \/ PrintMore \/ EndPrint
  \/ BeginValue \/ ValueMore

Spec == Init /\ [][Next]_vars
-----------------------------------------------------------------------------
TypeOK ==
  /\ dom \in Trees
  /\ error \in Errors /\ mode \in Modes /\ closing \in ClosingTypes
  /\ stack \in Seq(Nodes \cup {Doc}) /\ cur \in Nodes \cup {Null}
  /\ source \in {"file", "memory"}
  /\ loads \in 0..Len(Lengths) /\ edits \in 0..MaxEdits

(* The pointers agree: the children of a node, followed from the first by   *)
(* _next, are the nodes whose _parent it is, end at its _lastChild, and      *)
(* _prev leads back.  Every other node that is allocated is in _unlinked,    *)
(* once: what a parse has begun, and given up, can still be freed; and when  *)
(* it has ended, it is.                                                     *)
TreeIsLinked ==
  /\ TypeOK
  /\ \A n \in Containers :
       LET c == Children(dom, n) IN
       /\ Range(c) = {m \in Alive : dom.parent[m] = n}
       /\ Cardinality(Range(c)) = Len(c)
       /\ dom.last[n] = IF c = <<>> THEN Null ELSE Last(c)
       /\ \A i \in DOMAIN c : dom.prev[c[i]] = IF i = 1 THEN Null ELSE c[i - 1]
  /\ \A n \in Alive : dom.parent[n] \in Containers \cup {Null}
  /\ Range(dom.unlinked) = {n \in Alive : Alone(dom, n)}
  /\ Cardinality(Range(dom.unlinked)) = Len(dom.unlinked)
  /\ mode = "loaded" => dom.unlinked = <<>>

InPool(S, pool) == Cardinality(OfPool(dom, S, pool))

(* The pools count what is allocated; and Untracked is the number of nodes  *)
(* in no tree at every step of a parse, an unwinding or an edit, so that     *)
(* what Clear asserts of it in a debug build holds after every error, also   *)
(* one of LoadFile, which does not clear the pools.                         *)
PoolsAreExact ==
  /\ \A pool \in {"element", "text", "comment"} :
       dom.allocs[pool] = InPool(Alive, pool)
  /\ dom.allocs["attribute"] = Cardinality(Attributes(dom, Alive))
  /\ \A pool \in {"element", "text", "comment"} :
       dom.untracked[pool] = InPool(Range(dom.unlinked), pool)

Expanded(s) ==
  CASE s.form = "sealed" -> <<Piece("start", s.name, s.attrs), EndPiece(s.name)>>
    [] s.form = "end" -> <<EndPiece(s.name)>>
    [] s.form = "cdata" -> <<Mark("text")>>
    [] OTHER -> <<s>>
Expand(pieces) == FlattenSeq([i \in DOMAIN pieces |-> Expanded(pieces[i])])

(* A file that is loaded without error is in the tree as it was written,    *)
(* all of it, except that a closing tag nothing was open for ends the parse  *)
(* as if it were the end of the file.                                       *)
TreeIsFile ==
  mode = "loaded" /\ error = "SUCCESS" =>
    \/ Serial(dom) = Expand(read)
    \/ Last(read).form = "end" /\ Serial(dom) = Front(Expand(read))

Count(s, form) == Cardinality({i \in DOMAIN s : s[i].form = form})
Balanced(s) == Count(s, "start") = Count(s, "end")
LongestBalanced(s) ==
  SubSeq(s, 1, CHOOSE k \in 0..Len(s) :
    /\ Balanced(SubSeq(s, 1, k))
    /\ \A j \in (k + 1)..Len(s) : ~Balanced(SubSeq(s, 1, j)))

(* A file with an error leaves the nodes in the tree that were complete at  *)
(* the level of the document, and nothing of the one the error was in: a    *)
(* reader that does not look at the error, like PageLib::Load, gets every    *)
(* item of the feed or none.                                                *)
FailedTreeIsWhole ==
  mode = "loaded" /\ Error =>
    Serial(dom) = IF source = "memory" \/ read = <<>> THEN <<>>
                  ELSE LongestBalanced(Expand(Front(read)))

(* Declarations come before everything else.                                *)
DeclarationsLead ==
  mode = "loaded" =>
    LET forms == [i \in DOMAIN Serial(dom) |-> Serial(dom)[i].form]
    IN \A i, j \in DOMAIN forms :
         i < j /\ forms[j] = "declaration" => forms[i] = "declaration"

(* ParseDeep never calls itself as often as the limit says.                 *)
DepthIsLimited == Len(stack) < MaxDepth

(* What is loaded is the file, and no file that has to be refused is.        *)
LoadedTreeIsFile == TreeIsFile /\ DeclarationsLead /\ DepthIsLimited

(* The error that is reported is the first: unwinding does not replace it.  *)
FirstErrorIsKept ==
  [][Error /\ mode \in {"node", "tag", "fail"} => error' = error]_vars

(* RssParser's loop from FirstChildElement over NextSiblingElement meets     *)
(* every child of that name once, in order; so does the loop backwards.      *)
SearchesMeetEachChild ==
  \A n \in Containers, name \in Names :
    LET s == Children(dom, n)
        named == FlattenSeq([i \in DOMAIN s |->
                   IF IsElement(dom, s[i], name) THEN <<s[i]>> ELSE <<>>])
        forth == [c \in Nodes |-> NextSiblingElement(dom, c, name)]
        back == [c \in Nodes |-> PreviousSiblingElement(dom, c, name)]
    IN /\ Follow(FirstChildElement(dom, n, name), forth) = named
       /\ Follow(LastChildElement(dom, n, name), back) = Reverse(named)

(* What is printed, white space apart, is the tree; an element is sealed     *)
(* only when it has no content.                                             *)
OpeningOf(d, n) ==
  IF d.kind[n] # "element" THEN <<Plain(d.kind[n])>>
  ELSE << <<"<", d.name[n]>> >>
       \o [i \in DOMAIN d.attrs[n] |-> <<"attribute", d.attrs[n][i]>>]
       \o IF d.first[n] = Null THEN <<Plain("/>")>> ELSE <<Plain(">")>>
ClosingOf(d, n) == IF d.first[n] = Null THEN <<>> ELSE << <<"</", d.name[n]>> >>
Written(d) ==
  Unfold(d, [n \in Nodes |-> OpeningOf(d, n)], [n \in Nodes |-> ClosingOf(d, n)])

Unspaced(pieces) ==
  FlattenSeq([i \in DOMAIN pieces |->
                IF pieces[i] = Plain("space") THEN <<>> ELSE <<pieces[i]>>])
PiecesAreTree ==
  mode = "print" /\ at = Nowhere =>
    Unspaced(out) = Written(dom)

Inside(i) ==
  LET Of(what) == {j \in 1..i : out[j][1] = what}
  IN Cardinality(Of("<")) > Cardinality(Of("</")) + Cardinality(Of("/>"))

(* Readable output does not change the document: no white space is written  *)
(* next to a text inside an element, where it would become part of the text. *)
NoSpaceBesideText ==
  \A i \in DOMAIN out :
    out[i] = Plain("text") /\ Inside(i) =>
      /\ i = 1 \/ out[i - 1] # Plain("space")
      /\ i = Len(out) \/ out[i + 1] # Plain("space")

(* A document that is printed reads back as it was, up to what its texts are. *)
PrintedIsTree == PiecesAreTree /\ NoSpaceBesideText
=============================================================================
