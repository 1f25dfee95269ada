---------------------------- MODULE MCCubeRotate ----------------------------
(* The real tables and one layer.  The pictures: an LED near the middle, a *)
(* part of an inner row and an outside corner, and every LED.              *)
EXTENDS CubeRotate

MCPictures == {{<<4, 5, 0>>, <<1, 3, 0>>, <<2, 3, 0>>, <<0, 0, 0>>}, Pos}
RightAngles == {0, 90, 180, 270, 360}
MCDegrees == RightAngles \cup {30, -10}
MCLoops == {<<1, -10>>, <<2, 10>>, <<1, 5>>}
Docs == {45}
Quarter == {90}
MCAstray == <<3, 4>>

\* The angles a loop goes through.
AnglesOf(l) ==
  LET angle[n \in 0 .. StepsOf(l[1], l[2])] ==
        IF n = 0 THEN 0 ELSE NextAngle(angle[n - 1], Radians(l[2]))
  IN  angle
MCLoopAngles == [l \in Loops |-> AnglesOf(l)]
MCTurns ==
  {Radians(d) : d \in Degrees} \cup
    UNION {{AnglesOf(l)[n] : n \in DOMAIN AnglesOf(l)} : l \in Loops}
MCTurn == [a \in MCTurns |-> [s \in Site |-> NewSite(a, s)]]
MCGrids == [plane \in Planes |-> {}]
NoLoops == {}
=============================================================================
