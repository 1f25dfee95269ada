----------------------------- MODULE MCCubeText -----------------------------
(* Two characters of the font that tell left from right and top from       *)
(* bottom, one the font has not, on a cube that is dark or lit all over.   *)
EXTENDS CubeText

MCGlyph ==
  [ell |-> [c \in GlyphColumn |-> IF c = 0 THEN 0 .. 7 ELSE IF c = 1 THEN {0} ELSE {}],
   hook |-> [c \in GlyphColumn |-> IF c = 7 THEN {1, 6} ELSE IF c < 6 THEN {c} ELSE {}]]
MCStrays == {[c \in GlyphColumn |-> {}], [c \in GlyphColumn |-> {2, c}]}
MCTexts ==
  {<<>>, <<"ell">>, <<"hook", "ell">>, <<"ell", "beyond">>, <<"hook", "hook", "ell">>}
MCPens == {[ch \in Channel |-> 6]}
MCPictures == {Dark, [q \in Pos |-> [ch \in Channel |-> 1]]}
MCGrids == [plane \in Planes |-> {}]
MCTurn == [a \in {} |-> a]
=============================================================================
