----------------------------- MODULE CubeRotate -----------------------------
(***************************************************************************)
(* Rotation about the vertical axis: cube_rotate_layer's arithmetic on the *)
(* tables, the command cube.rotate and the animations' loop rotateCube.    *)
(* CubeDraw has cube_rotate for any Turn; here Turn is what the tables and *)
(* the arithmetic make of an angle.                                        *)
(*                                                                         *)
(* A float is an integer: an angle counts millionths of a radian.  For     *)
(* every whole number of degrees from -360 to 720, and every frame of the  *)
(* loops over two turns, no float of the code is so close to a boundary    *)
(* that its rounding takes an LED elsewhere than the integers do.          *)
(***************************************************************************)
EXTENDS CubeDraw, RotateTables, Sequences

CONSTANTS
  Degrees,     \* what cube.rotate is called with
  Loops,       \* the times and stepAngle rotateCube is called with
  LoopAngles,  \* the angles each of them goes through
  Pictures,    \* what is in the cube before it
  Astray,      \* what an index outside the table of sines leads to
  MaxTurned    \* a bound of the model: the rotations of one picture

Site == Col \X Panel
FullTurn == 6283180
\* Division by a positive number, as C does it.
Quotient(v, by) == IF v < 0 THEN -((-v) \div by) ELSE v \div by

\* Degrees times .0174532.
Radians(degrees) == (degrees * 174532 + 5) \div 10

\* cube_rotate_layer, for one LED.
\* (mutant) an angle of more than a turn not reduced
NewAngleUnreduced(a, s) == AngleTable[s[1] + 1][s[2] + 1] + a
NewAngle(a, s) ==
  LET n == AngleTable[s[1] + 1][s[2] + 1] + a
  IN  IF n > FullTurn THEN n - FullTurn ELSE n
AngleLookup(a, s) == Quotient(NewAngle(a, s) * 20 + 500000, 1000000)
InTable(a, s) == AngleLookup(a, s) \in 0 .. Len(SinCosTable) - 1

\* (mutant) the sine and the cosine exchanged
NewSiteSwapped(a, s) ==
  LET sc == SinCosTable[AngleLookup(a, s) + 1]
      d == DistanceTable[s[1] + 1][s[2] + 1]
      Edge(f) == Quotient(400000000 + f * d, 100000000)
  IN  IF InTable(a, s) THEN <<Edge(sc[2]), Edge(sc[1])>> ELSE Astray
\* (mutant) from the middle LED's centre instead of its edge
NewSiteOffCentre(a, s) ==
  LET sc == SinCosTable[AngleLookup(a, s) + 1]
      d == DistanceTable[s[1] + 1][s[2] + 1]
      Edge(f) == Quotient(350000000 + f * d, 100000000)
  IN  IF InTable(a, s) THEN <<Edge(sc[1]), Edge(sc[2])>> ELSE Astray
\* Four to the right and up, truncated: at the far edges off the grid.
NewSite(a, s) ==
  LET sc == SinCosTable[AngleLookup(a, s) + 1]
      d == DistanceTable[s[1] + 1][s[2] + 1]
      Edge(f) == Quotient(400000000 + f * d, 100000000)
  IN  IF InTable(a, s) THEN <<Edge(sc[1]), Edge(sc[2])>> ELSE Astray

ASSUME RotateAssumption ==
  /\ Cols = 8 /\ Panels = 8
  /\ Degrees \subseteq Int /\ Loops \subseteq Nat \X (Int \ {0})
  /\ Turns \subseteq Int
  /\ Pictures \subseteq SUBSET Pos /\ Astray \in Int \X Int /\ MaxTurned \in Nat
  /\ {Radians(d) : d \in Degrees} \subseteq Turns
  /\ Turn = [a \in Turns |-> [s \in Site |-> NewSite(a, s)]]

\* One frame more than the turns have, as a rule: the quotient is truncated.
StepsOf(times, step) ==
  LET r == Radians(step)
  IN  (FullTurn \div (IF r < 0 THEN -r ELSE r)) * times + 1

\* The angle of the next frame.
NextAngle(a, r) ==
  IF r > 0 /\ a + r > FullTurn THEN a + r - FullTurn
  ELSE IF r < 0 /\ a + r <= 0 THEN a + r + FullTurn
  ELSE a + r

\* Turns has the angles of the loops too, frame by frame.
ASSUME LoopAssumption ==
  \A l \in Loops :
    /\ LoopAngles[l][0] = 0
    /\ \A i \in 1 .. StepsOf(l[1], l[2]) :
         /\ LoopAngles[l][i] = NextAngle(LoopAngles[l][i - 1], Radians(l[2]))
         /\ LoopAngles[l][i] \in Turns

VARIABLES
  loop,     \* rotateCube's stepAngle and the frames left
  myangle,  \* its angle
  shown,    \* history: the angle the cube shows the buffer at, NoAngle else
  turned    \* the rotations of this picture

rotateVars == <<drawVars, loop, myangle, shown, turned>>

NoLoop == <<0, 0>>
NoAngle == 0 - FullTurn - 1

RotateInit ==
  Init /\ loop = NoLoop /\ myangle = 0 /\ shown = NoAngle /\ turned = 0

-----------------------------------------------------------------------------
\* What a transaction or an animation has drawn, and shown.
Show ==
  /\ loop = NoLoop
  /\ \E lit \in Pictures :
       cube' = [q \in Pos |-> [ch \in Channel |-> IF q \in lit THEN MaxLevel ELSE 0]]
  /\ buffer_cube' = cube'
  /\ shown' = NoAngle /\ turned' = 0
  /\ UNCHANGED <<loop, myangle>>

\* Without -buffer the cube is copied to the buffer first, and turned from there.
jim_cube_rotate(degrees, buffer) ==
  /\ loop = NoLoop /\ turned < MaxTurned
  /\ cube_rotate(Radians(degrees), buffer)
  /\ shown' = Radians(degrees) /\ turned' = turned + 1
  /\ UNCHANGED <<loop, myangle>>

rotateCube(times, step) ==
  /\ loop = NoLoop
  /\ loop' = <<step, StepsOf(times, step)>> /\ myangle' = 0
  /\ UNCHANGED <<drawVars, shown, turned>>

Frame ==
  /\ loop[2] > 0
  /\ myangle' = NextAngle(myangle, Radians(loop[1]))
  /\ cube_rotate(myangle', TRUE)
  /\ shown' = myangle'
  /\ loop' = <<loop[1], loop[2] - 1>>
  /\ UNCHANGED turned

LoopEnds ==
  /\ loop # NoLoop /\ loop[2] = 0
  /\ cube_clear(FALSE)
  /\ loop' = NoLoop /\ shown' = NoAngle
  /\ UNCHANGED <<myangle, turned>>

RotateNext ==
  \/ Show
  \/ \E degrees \in Degrees, buffer \in BOOLEAN : jim_cube_rotate(degrees, buffer)
  \/ \E l \in Loops : rotateCube(l[1], l[2])
  \/ Frame \/ LoopEnds

RotateSpec == RotateInit /\ [][RotateNext]_rotateVars

-----------------------------------------------------------------------------
\* Several right angles about the vertical axis.
RightTurn(n, q) ==
  CASE n % 4 = 0 -> q
    [] n % 4 = 1 -> <<q[2], 7 - q[1], q[3]>>
    [] n % 4 = 2 -> <<7 - q[1], 7 - q[2], q[3]>>
    [] n % 4 = 3 -> <<7 - q[2], q[1], q[3]>>

\* A rotation by a right angle loses nothing and leaves nothing over: the cube
\* shows all of the buffer, turned by some right angle; and a second rotation of
\* the same buffer turns what is shown by the difference of the two.
RightAnglesExact ==
  [][\A m \in 0 .. 4 : shown' = Radians(90 * m) =>
       /\ \E k \in 0 .. 3 : \A q \in Pos : cube'[RightTurn(k, q)] = buffer_cube'[q]
       /\ \A n \in 0 .. 4 :
            shown = Radians(90 * n) /\ UNCHANGED buffer_cube =>
              \A q \in Pos : cube'[RightTurn(m - n, q)] = cube[q]]_rotateVars

\* "Rotate the cube content in around the Z axis by a specified number of
\* degrees", whichever way they are counted.  It does not: each rotation is a
\* right angle ahead of the degrees, so that 0 is a quarter turn, 90 half a turn
\* and 270 none.
RotatesAsAsked ==
  \A n \in 0 .. 4 : shown = Radians(90 * n) =>
    \/ \A q \in Pos : cube[RightTurn(n, q)] = buffer_cube[q]
    \/ \A q \in Pos : cube[RightTurn(0 - n, q)] = buffer_cube[q]

\* The angle from one LED to another, less a, within half a turn.
Apart(a, s, t) ==
  LET d == (AngleTable[t[1] + 1][t[2] + 1] - AngleTable[s[1] + 1][s[2] + 1] - a)
             % FullTurn
  IN  IF 2 * d > FullTurn THEN d - FullTurn ELSE d
Size(v) == IF v < 0 THEN -v ELSE v

\* An LED that lands in t is no further round the axis from where the angle takes
\* it than the corner of a cell is from its centre, and half a step of the table.
Near(a, s, t) ==
  LET d == DistanceTable[s[1] + 1][s[2] + 1]
  IN  (Size(Apart(a, s, t)) \div 1000) * d <= 7500000 + 25 * d

\* The LEDs that are not at the outside: "the outside corners of the cube [...]
\* will disappear as they are rotated".
Inner == {s \in Site : s[1] \in 1 .. 6 /\ s[2] \in 1 .. 6}
QuarterTurn == 1570796
RightAngle == {0, QuarterTurn, 2 * QuarterTurn, 3 * QuarterTurn}

\* A picture turns as a whole, and on from one rotation to the next by the
\* difference of their angles: one zero, from which both are counted, explains
\* where every inner LED lands in the two.
TurnsFromOneZero ==
  [][shown # NoAngle /\ shown' # NoAngle =>
       \E zero \in RightAngle : \A a \in {shown, shown'}, s \in Inner :
         InTable(a, s) => Near(zero + a, s, NewSite(a, s))]_rotateVars

\* An inner LED stays on the grid, at its distance from the axis to within the
\* corner of a cell; and nothing shines but what an LED of the buffer that lands
\* there has.  At the outside an LED that leaves at the lower edges, where the
\* code truncates towards the cube, stays on it.
ShownTurned ==
  shown # NoAngle =>
    /\ \A s \in Inner : InTable(shown, s) =>
         LET t == NewSite(shown, s)
         IN  /\ t \in Site
             /\ Size(DistanceTable[t[1] + 1][t[2] + 1]
                       - DistanceTable[s[1] + 1][s[2] + 1]) <= 7072
    /\ \A q \in Pos : cube[q] # Black =>
         \E s \in Site : /\ NewSite(shown, s) = <<q[1], q[2]>>
                         /\ buffer_cube[<<s[1], s[2], q[3]>>] = cube[q]

\* "Rotate the cube contents by 45 degrees": the table is read where it is.
LookupInTable == shown # NoAngle => \A s \in Site : InTable(shown, s)
=============================================================================
