----------------------------- MODULE MCCubeShell ----------------------------
(* The shell over a column of two panels and two layers, whose LEDs are on *)
(* or off.  A raw level of 4 is nothing once cut to a byte; the grids are  *)
(* the planes with one element lit beyond the brightest level; a rotation  *)
(* turns the panels back to front.                                         *)
EXTENDS CubeShell

MCSteps == {-1, 0, 1}

MCGrids ==
  [plane \in Planes |->
     {[g \in GridOf(plane) |-> [ch \in Channel |-> IF g = h THEN 6 ELSE 0]] :
        h \in GridOf(plane)}]

MCTurn == [a \in Turns |-> [s \in Col \X Panel |-> <<s[1], 1 - s[2]>>]]
=============================================================================
