---------------------------- MODULE MCTclSprite -----------------------------
(* A sprite of two lit cells that moves in a small cube, and three squares, *)
(* across each of the axes, with one of their corners lit, that stand still.*)
EXTENDS TclSprite

Long == <<2, 1, 1>>
Squares == {<<2, 2, 1>>, <<2, 1, 2>>, <<1, 2, 2>>}
MCSizes == {Long} \cup Squares
Lit(s) == IF s = Long THEN Cells(s) ELSE {<<0, 0, 0>>}
MCPictures ==
  [s \in MCSizes |->
     {[c \in Cells(s) |-> [ch \in Channel |-> IF c \in Lit(s) THEN 1 ELSE 0]]}]
MCPlaces == [s \in MCSizes |-> {IF s = Long THEN <<0, 0, 1>> ELSE <<0, 0, 0>>}]
MCMotions == [s \in MCSizes |-> {IF s = Long THEN <<1, 0, 1>> ELSE <<0, 0, 0>>}]
MCRolls == {<<1, 0>>, <<3, 1>>}
MCRotations == {<<1, 1>>, <<2, 0>>, <<3, 0>>}
MCGrids == [plane \in Planes |-> {}]
MCTurn == [a \in {} |-> a]
=============================================================================
