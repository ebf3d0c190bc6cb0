--------------------------- MODULE MCXmlDocument ---------------------------
(* Bounds for checking XmlDocument. *)
EXTENDS XmlDocument, TLC

CONSTANT MaxChunks

(* One character, both newline characters, an entity, what looks like one,  *)
(* an & that is escaped in front of a reference, numeric references of one,  *)
(* two, three and four bytes, of a number that is no code point, of a 1 and  *)
(* zeros, of NUL and of a carriage return, one with a bad digit, and an     *)
(* unfinished one.                                                          *)
Chunks == {
  <<97>>, <<13>>, <<10>>, <<38, 108, 116, 59>>, <<38, 110, 59>>,
  <<38, 97, 109, 112, 59, 35, 54, 53, 59>>,
  <<38, 35, 54, 53, 59>>, <<38, 35, 120, 56, 48, 59>>, <<38, 35, 50, 48, 52, 56, 59>>,
  <<38, 35, 120, 49, 48, 48, 48, 48, 59>>, <<38, 35, 120, 50, 48, 48, 48, 48, 48, 59>>,
  <<38, 35, 120, 49, 48, 48, 48, 48, 48, 48, 59>>, <<38, 35, 48, 59>>,
  <<38, 35, 49, 51, 59>>, <<38, 35, 113, 59>>, <<38, 35>>}
MCRaws == {FlattenSeq(s) : s \in UNION {[1..n -> Chunks] : n \in 1..MaxChunks}}
Symmetry == Permutations(Names)
MCLengths == <<4, 1>>
=============================================================================
