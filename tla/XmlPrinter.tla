----------------------------- MODULE XmlPrinter -----------------------------
(***************************************************************************)
(* XMLPrinter, the visitor with which XMLDocument::Print and SaveFile walk *)
(* the tree: one step for each call of VisitEnter, VisitExit or Visit.     *)
(* What it writes is a sequence of pieces; "space" stands for the newline  *)
(* and the indentation that make the output readable.                      *)
(***************************************************************************)
EXTENDS XmlTree

VARIABLES
  out,           \* what has been written
  at,            \* the node that Accept visits next, and whether it enters it
  compact,       \* _compactMode
  depth, textDepth, names,          \* _depth, _textDepth, _stack
  justOpened, firstElement          \* _elementJustOpened, _firstElement

printerVars == <<out, at, compact, depth, textDepth, names, justOpened, firstElement>>

Plain(what) == <<what, Null>>
Enter(n) == [node |-> n, enter |-> TRUE]
Exit(n) == [node |-> n, enter |-> FALSE]
Nowhere == Exit(Doc)

PrinterInit ==
  /\ out = <<>> /\ at = Nowhere /\ compact = FALSE
  /\ depth = 0 /\ textDepth = -1 /\ names = <<>>
  /\ justOpened = FALSE /\ firstElement = TRUE

(* Where Accept goes when n has been visited.                               *)
After(d, n) == IF d.next[n] # Null THEN Enter(d.next[n]) ELSE Exit(d.parent[n])

(* A new XMLPrinter, and XMLDocument::Accept.                               *)
PrintDocument(d, c) ==
  /\ out' = <<>> /\ compact' = c
  /\ at' = IF d.first[Doc] # Null THEN Enter(d.first[Doc]) ELSE Nowhere
  /\ depth' = 0 /\ textDepth' = -1 /\ names' = <<>>
  /\ justOpened' = FALSE /\ firstElement' = TRUE

Seal == IF justOpened THEN <<Plain(">")>> ELSE <<>>

(* Mutant: white space is written wherever the printer is.                  *)
PrepareForNewNodeAlways == Seal \o IF compact THEN <<>> ELSE <<Plain("space")>>

(* What PrepareForNewNode writes; the indentation before the first element  *)
(* is empty.                                                                *)
PrepareForNewNode ==
  Seal \o IF compact \/ firstElement \/ textDepth >= 0 THEN <<>>
          ELSE <<Plain("space")>>

VisitEnterElement(d) ==
  /\ at.enter /\ d.kind[at.node] = "element"
  /\ LET n == at.node IN
     /\ out' = out \o PrepareForNewNode \o << <<"<", d.name[n]>> >> \o
               [i \in DOMAIN d.attrs[n] |-> <<"attribute", d.attrs[n][i]>>]
     /\ names' = Append(names, d.name[n])
     /\ at' = IF d.first[n] # Null THEN Enter(d.first[n]) ELSE Exit(n)
  /\ justOpened' = TRUE /\ firstElement' = (firstElement /\ compact)
  /\ depth' = depth + 1
  /\ UNCHANGED <<compact, textDepth>>

VisitExitElement(d) ==
  /\ ~at.enter /\ at.node # Doc
  /\ depth' = depth - 1 /\ names' = Front(names)
  /\ out' = out \o
       (IF justOpened THEN <<Plain("/>")>>
        ELSE (IF textDepth < 0 /\ ~compact THEN <<Plain("space")>> ELSE <<>>)
             \o << <<"</", Last(names)>> >>)
       \o IF depth' = 0 /\ ~compact THEN <<Plain("space")>> ELSE <<>>
  /\ textDepth' = IF textDepth = depth' THEN -1 ELSE textDepth
  /\ justOpened' = FALSE
  /\ at' = After(d, at.node)
  /\ UNCHANGED <<compact, firstElement>>

VisitText(d) ==
  /\ at.enter /\ d.kind[at.node] = "text"
  /\ textDepth' = depth - 1
  /\ out' = out \o Seal \o <<Plain("text")>>
  /\ justOpened' = FALSE
  /\ at' = After(d, at.node)
  /\ UNCHANGED <<compact, depth, names, firstElement>>

(* PushComment, PushDeclaration and PushUnknown.                            *)
VisitOther(d) ==
  /\ at.enter /\ d.kind[at.node] \in {"comment", "declaration", "unknown"}
  /\ out' = out \o PrepareForNewNode \o <<Plain(d.kind[at.node])>>
  /\ justOpened' = FALSE /\ firstElement' = (firstElement /\ compact)
  /\ at' = After(d, at.node)
  /\ UNCHANGED <<compact, depth, textDepth, names>>

PrinterStep(d) ==
  VisitEnterElement(d) \/ VisitExitElement(d) \/ VisitText(d) \/ VisitOther(d)
=============================================================================
