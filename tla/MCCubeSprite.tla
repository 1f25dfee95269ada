---------------------------- MODULE MCCubeSprite ----------------------------
(* A sprite of eight cells in a cube of three by three by three.  It is    *)
(* described by one red cell, which the rotations take to all the others.  *)
EXTENDS CubeSprite

MCSizes == {<<2, 2, 2>>}
MCDescriptions ==
  {[i \in Edge |-> [j \in Edge |-> [k \in Edge |->
      IF <<i, j, k>> = <<0, 0, 1>> THEN "Red" ELSE Black]]]}
MCPlaces == {<<0, 0, -1>>}
MCMotions == {<<1, -1, 0>>}
=============================================================================
