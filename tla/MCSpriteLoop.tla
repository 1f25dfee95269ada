---------------------------- MODULE MCSpriteLoop ----------------------------
(* Sprites of equal and of unequal sizes, started anywhere with any motion *)
(* of a step along each axis.                                              *)
EXTENDS SpriteLoop

MCSizes == {<<2, 2, 2>>, <<1, 2, 3>>, <<2, 1, 3>>}
MCPlaces == [Axis -> 0 .. 3]
MCMotions == [Axis -> -1 .. 1]
=============================================================================
