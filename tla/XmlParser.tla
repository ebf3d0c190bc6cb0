------------------------------ MODULE XmlParser ------------------------------
(***************************************************************************)
(* XMLDocument::LoadFile and Parse: the recursive XMLNode::ParseDeep, with *)
(* one step for each piece of the file it recognises.  The file is read as *)
(* it goes: a piece is whatever the next characters of some file may be.   *)
(***************************************************************************)
EXTENDS XmlTree

CONSTANTS
  LeafKinds,   \* which of LeafForms the files have
  MaxDepth,    \* TINYXML2_MAX_ELEMENT_DEPTH
  Lengths      \* how many pieces each file loaded in turn has at most (bound)

LeafForms == (Kinds \ {"element"}) \cup {"cdata"}

ASSUME ParserAssumption ==
  /\ LeafKinds \subseteq LeafForms
  /\ MaxDepth \in Nat /\ MaxDepth > 1
  /\ Lengths \in Seq(Nat)

VARIABLES
  dom,       \* the tree, its unlinked nodes and its pools
  error,     \* _errorID
  stack,     \* the nodes whose children XMLNode::ParseDeep is reading
  cur,       \* the element whose tag is being read, or the node that failed
  closing,   \* its _closingType
  mode,      \* what is done with the document
  source,    \* whether LoadFile or Parse(xml) reads it
  read,      \* the pieces of the file read so far
  loads      \* how many files have been begun

parserVars == <<dom, error, stack, cur, closing, mode, source, read, loads>>

Modes == {"idle", "node", "tag", "fail", "loaded", "print", "value", "crashed"}
ClosingTypes == {"open", "closed", "closing"}
LeafErrors == {"PARSING_TEXT", "PARSING_CDATA", "PARSING_COMMENT",
               "PARSING_DECLARATION", "PARSING_UNKNOWN"}
Errors == LeafErrors \cup
  {"SUCCESS", "FILE_NOT_FOUND", "FILE_READ_ERROR", "EMPTY_DOCUMENT", "PARSING",
   "PARSING_ELEMENT", "PARSING_ATTRIBUTE", "MISMATCHED_ELEMENT", "DEPTH_EXCEEDED"}

Piece(form, name, attrs) == [form |-> form, name |-> name, attrs |-> attrs]
Mark(form) == Piece(form, Null, <<>>)
KindOf(form) == IF form = "cdata" THEN "text" ELSE form
ErrorOf(form) ==
  CASE form = "text" -> "PARSING_TEXT"
    [] form = "cdata" -> "PARSING_CDATA"
    [] form = "comment" -> "PARSING_COMMENT"
    [] form = "declaration" -> "PARSING_DECLARATION"
    [] form = "unknown" -> "PARSING_UNKNOWN"

Top == Last(stack)
Error == error # "SUCCESS"
MayRead == Len(read) < Lengths[loads]
(* A text reaches up to the next <.                                        *)
AfterText == read # <<>> /\ Last(read).form = "text"

ParserInit ==
  /\ dom = EmptyTree /\ error = "SUCCESS"
  /\ stack = <<>> /\ cur = Null /\ closing = "open"
  /\ mode = "idle" /\ source = "file" /\ read = <<>> /\ loads = 0
-----------------------------------------------------------------------------
(* LoadFile and Parse(xml), up to the first call of ParseDeep, whose        *)
(* DepthTracker counts the document as one level.                           *)
BeginLoad(from) ==
  /\ mode \in {"idle", "loaded"}
  /\ loads < Len(Lengths)
  /\ loads' = loads + 1
  /\ dom' = Clear(dom) /\ error' = "SUCCESS"
  /\ source' = from /\ read' = <<>>
  /\ stack' = <<Doc>> /\ mode' = "node"
  /\ UNCHANGED <<cur, closing>>

(* No such file, a file that cannot be read, or nothing in it but white     *)
(* space.  Parse(xml) clears the pools when what it was given is blank, but *)
(* not when it is empty.                                                    *)
RefuseLoad(from) ==
  /\ mode \in {"idle", "loaded"}
  /\ loads < Len(Lengths)
  /\ loads' = loads + 1
  /\ \E e \in {"FILE_NOT_FOUND", "FILE_READ_ERROR", "EMPTY_DOCUMENT"}, blank \in BOOLEAN :
       /\ from = "memory" \/ blank => e = "EMPTY_DOCUMENT"
       /\ error' = e
       /\ dom' = IF from = "memory" /\ blank THEN ClearPools(Clear(dom)) ELSE Clear(dom)
  /\ read' = <<>> /\ mode' = "loaded" /\ source' = from
  /\ UNCHANGED <<stack, cur, closing>>

(* The document's ParseDeep has returned.                                   *)
EndLoad(d, e) ==
  /\ mode' = "loaded" /\ stack' = <<>> /\ cur' = Null /\ error' = e
  /\ dom' = IF source = "memory" /\ e # "SUCCESS"
            THEN ClearPools(DeleteChildren(d, Doc)) ELSE d

(* The call of ParseDeep for the last node of s returns null: its caller    *)
(* deletes that node, unless it is the document.                            *)
ReturnNull(d, e, s) ==
  IF Len(s) = 1 THEN EndLoad(d, e)
  ELSE /\ dom' = d /\ error' = e
       /\ mode' = "fail" /\ cur' = Last(s) /\ stack' = Front(s)

(* The node just recognised did not parse.                                  *)
Fail(d, e, n) ==
  /\ dom' = d /\ error' = e /\ mode' = "fail" /\ cur' = n
  /\ UNCHANGED stack

Continue(d) ==
  /\ dom' = d /\ mode' = "node" /\ cur' = Null
  /\ UNCHANGED error
-----------------------------------------------------------------------------
(* XMLNode::ParseDeep, by what Identify finds.                              *)
InNode == mode = "node" /\ UNCHANGED <<source, loads>>
Create(form, name) == CreateUnlinkedNode(dom, KindOf(form), name)

WellLocated(d) ==
  /\ Top = Doc
  /\ d.first[Doc] # Null => /\ d.kind[d.first[Doc]] = "declaration"
                            /\ d.kind[d.last[Doc]] = "declaration"

ReadLeaf(form) ==
  /\ InNode /\ MayRead /\ Free(dom) # {}
  /\ AfterText => form # "text"
  /\ read' = Append(read, Mark(form))
  /\ LET d == Create(form, Null)  n == Fresh(dom) IN
     IF form = "declaration" /\ ~WellLocated(dom)
     THEN ReturnNull(DeleteNode(d, n), "PARSING_DECLARATION", stack)
     ELSE Continue(InsertEndChild(d, Top, n)) /\ UNCHANGED stack
  /\ UNCHANGED closing

(* The end of a text, comment, ... is not found.  A text that ends with the *)
(* last character of the file sets no error of its own.                     *)
ReadEndlessLeaf(form) ==
  /\ InNode /\ MayRead /\ Free(dom) # {}
  /\ AfterText => form # "text"
  /\ read' = Append(read, Mark("junk"))
  /\ \E e \in {ErrorOf(form)} \cup IF form = "text" THEN {error} ELSE {} :
       Fail(Create(form, Null), e, Fresh(dom))
  /\ UNCHANGED closing

(* XMLElement::ParseDeep: < or </ and a name.                               *)
ReadTagName(name, type) ==
  /\ InNode /\ MayRead /\ Free(dom) # {}
  /\ dom' = Create("element", name)
  /\ cur' = Fresh(dom) /\ closing' = type /\ mode' = "tag"
  /\ UNCHANGED <<error, stack, read>>

ReadBadName ==
  /\ InNode /\ MayRead /\ Free(dom) # {}
  /\ read' = Append(read, Mark("junk"))
  /\ Fail(Create("element", Null), error, Fresh(dom))
  /\ UNCHANGED closing

(* (A file with nothing in it is refused before.)                           *)
ReadEndOfFile ==
  /\ InNode /\ read # <<>> /\ ~AfterText
  /\ ReturnNull(dom, error, stack)
  /\ UNCHANGED <<closing, read>>
-----------------------------------------------------------------------------
(* XMLElement::ParseAttributes.                                             *)
InTag == mode = "tag" /\ UNCHANGED <<source, loads>>

ReadAttribute(x) ==
  /\ InTag
  /\ x \notin Range(dom.attrs[cur])
  /\ dom' = [dom EXCEPT !.attrs[cur] = Append(@, x), !.allocs["attribute"] = @ + 1]
  /\ UNCHANGED <<error, stack, cur, closing, mode, read>>

(* One that does not parse or is there already is deleted again; the file   *)
(* ends, or a character stands where none can.                              *)
FailInTag ==
  /\ InTag
  /\ read' = Append(read, Mark("junk"))
  /\ \E e \in {"PARSING_ATTRIBUTE", "PARSING_ELEMENT"} : Fail(dom, e, cur)
  /\ UNCHANGED closing

ThisTag(form) == Piece(form, dom.name[cur], dom.attrs[cur])

(* />, which makes an element without content even of a closing tag.        *)
ReadSealedEnd ==
  /\ InTag
  /\ closing' = "closed"
  /\ read' = Append(read, ThisTag("sealed"))
  /\ Continue(InsertEndChild(dom, Top, cur))
  /\ UNCHANGED stack

Mismatch(d, n, s) ==
  ReturnNull(DeleteNode(d, n), "MISMATCHED_ELEMENT", s)

(* > of an opening tag, behind which the file may end.                      *)
ReadOpeningEnd ==
  /\ InTag /\ closing = "open"
  /\ read' = Append(read, ThisTag("start"))
  /\ \/ Mismatch(dom, cur, stack)
     \/ /\ Len(stack) + 1 = MaxDepth
        /\ Fail(dom, "DEPTH_EXCEEDED", cur)
     \/ /\ Len(stack) + 1 # MaxDepth
        /\ stack' = Append(stack, cur) /\ Continue(dom)
  /\ UNCHANGED closing

(* > of a closing tag: its node is deleted, and the ParseDeep that met it   *)
(* returns its name to the element it was called for.  At the level of the  *)
(* document there is none, and the rest of the file is not read.            *)
(* Mutant: the names are not compared.                                      *)
ReadClosingEndAny ==
  /\ InTag /\ closing = "closing"
  /\ read' = Append(read, ThisTag("end"))
  /\ LET d == DeleteAlone(SetTracked(dom, cur), cur) IN
     IF Top = Doc THEN EndLoad(d, error)
     ELSE /\ Continue(InsertEndChild(d, Last(Front(stack)), Top))
          /\ stack' = Front(stack)
  /\ UNCHANGED closing

ReadClosingEnd ==
  /\ InTag /\ closing = "closing"
  /\ read' = Append(read, ThisTag("end"))
  /\ LET d == DeleteAlone(SetTracked(dom, cur), cur) IN
     IF Top = Doc THEN EndLoad(d, error)
     ELSE IF dom.name[cur] # dom.name[Top] THEN Mismatch(d, Top, Front(stack))
     ELSE /\ Continue(InsertEndChild(d, Last(Front(stack)), Top))
          /\ stack' = Front(stack)
  /\ UNCHANGED closing
-----------------------------------------------------------------------------
(* A node did not parse: the loop of the ParseDeep that reads it ends.      *)
(* Mutant: the node is kept.                                                *)
UnwindKeeps ==
  /\ mode = "fail"
  /\ LET e == IF Error THEN error ELSE "PARSING"
     IN ReturnNull(InsertEndChild(dom, Top, cur), e, stack)
  /\ UNCHANGED <<closing, source, read, loads>>

(* Mutant: every level reports the error again.                             *)
UnwindAgain ==
  /\ mode = "fail"
  /\ ReturnNull(DeleteNode(dom, cur), "PARSING", stack)
  /\ UNCHANGED <<closing, source, read, loads>>

(* Mutant: the node given up is not counted as tracked.                     *)
UnwindUntracked ==
  /\ mode = "fail"
  /\ LET e == IF Error THEN error ELSE "PARSING"
     IN ReturnNull(DeleteAlone(dom, cur), e, stack)
  /\ UNCHANGED <<closing, source, read, loads>>

Unwind ==
  /\ mode = "fail"
  /\ LET e == IF Error THEN error ELSE "PARSING"
     IN ReturnNull(DeleteNode(dom, cur), e, stack)
  /\ UNCHANGED <<closing, source, read, loads>>

ParseStep ==
  \/ \E form \in LeafKinds : ReadLeaf(form) \/ ReadEndlessLeaf(form)
  \/ \E name \in Names, type \in {"open", "closing"} : ReadTagName(name, type)
  \/ ReadBadName \/ ReadEndOfFile
  \/ \E x \in AttrNames : ReadAttribute(x)
  \/ FailInTag \/ ReadSealedEnd \/ ReadOpeningEnd \/ ReadClosingEnd
  \/ Unwind

ParserStep ==
  \/ \E from \in {"file", "memory"} : BeginLoad(from) \/ RefuseLoad(from)
  \/ ParseStep
=============================================================================
