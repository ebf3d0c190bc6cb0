--------------------------- MODULE MCKeyRecommander ---------------------------
(* Texts and keys for checking KeyRecommander: narrow letters a, b, c and    *)
(* wide ones X, Y; a Chinese word may end in a narrow letter.  The English   *)
(* text has five words, so that the letter b leads to places that no Chinese *)
(* dictionary has, and not to the first.                                     *)
EXTENDS KeyRecommander

Symmetry == Permutations(Workers)
MCNarrow == {"a", "b", "c"}
MCWide == {"X", "Y"}
MCEnTexts == {<<"c", " ", "b", "X", "b", " ", "a", "b", " ", "b", "c", " ", "b", "a">>}
MCEnStops == {{<<"a">>}}
MCCnStops == {{<<"X">>}}
MCCnTexts == {
  << << << <<"X">>, <<"b">> >>, << <<"X", "a">>, <<"Y", "a", "X">> >> >> >>,
  << << << <<"Y", "a", "X">> >> >> >>,
  << << << <<"X", "a">> >> >> >>,
  << << << <<"Y">> >> >>, Missing >>}
MCInts == {-1, 9}
(* One of English and one of Chinese letters, one of both, one of none.      *)
MCKeys == {<<"b">>, <<"X">>, <<"X", "b">>, <<>>}
=============================================================================
