----------------------------- MODULE CubeSprite -----------------------------
(***************************************************************************)
(* The sprites of sprite.c: a box of coloured cells that an animation      *)
(* places in the cube, moves, bounces off its walls, rolls along them and  *)
(* turns.  A sprite's own coordinates run as the cube's do: column, panel, *)
(* layer; its description is indexed layer first and from the top.         *)
(***************************************************************************)
EXTENDS Integers, Sequences

CONSTANTS
  Side,          \* the edge of the cube, 8 in the code
  MaxSide,       \* the edge of a description, 6 in the code
  Sizes,         \* the sizes of sprites
  Paints,        \* the colours sprites are painted with
  Descriptions,  \* the descriptions they are given
  Intensities,
  Places,        \* where they are placed
  Motions,       \* the motions they are given
  Away           \* how far off the cube a sprite is moved

Axis == 1 .. 3
Edge == 0 .. MaxSide - 1
Pos == [Axis -> 0 .. Side - 1]

\* What malloc leaves in a sprite is none of its colours; any may be seen.
Junk == "junk"
Black == "Black"
Colour == Paints \cup {Black, Junk}
Description == [Edge -> [Edge -> [Edge -> Colour]]]

ASSUME SpriteAssumption ==
  /\ Side \in Nat /\ MaxSide \in Nat \ {0} /\ Away \in Nat
  /\ Sizes \subseteq {s \in [Axis -> 1 .. MaxSide] : \A a \in Axis : s[a] < Side}
  /\ Junk \notin Paints
  /\ Descriptions \subseteq [Edge -> [Edge -> [Edge -> Paints \cup {Black}]]]
  /\ Intensities \subseteq 0 .. 4
  /\ Places \subseteq [Axis -> -Away .. Side + Away]
  /\ Motions \subseteq [Axis -> Int]

VARIABLES
  size, place, motion, intensity, description, buffer,  \* struct sprite
  image                                                 \* the matrix

shape == <<size, description, buffer>>
spriteVars == <<size, place, motion, intensity, description, buffer, image>>

\* An LED shows a colour with an intensity, the faintest of which is 0.
Dark == <<Black, 0>>
Seen(c) == <<c, IF c = Black THEN 0 ELSE intensity>>

InBody(q) == \A a \in Axis : q[a] \in 0 .. size[a] - 1

\* The cell that is drawn at a position by a sprite placed at "at".
Under(p, at) ==
  [a \in Axis |-> IF a = 3 THEN size[3] - 1 - (p[3] - at[3]) ELSE p[a] - at[a]]
Plus(p, v) == [a \in Axis |-> p[a] + v[a]]
\* (mutant) column first, as the colours are painted
CellOfPainted(d, q) == d[q[1]][q[2]][q[3]]
CellOf(d, q) == d[q[3]][q[1]][q[2]]

Cleared(img, at) ==
  [p \in Pos |-> IF InBody(Under(p, at)) THEN Dark ELSE img[p]]

\* A cell is left out if it would not be in the cube the other way up.
Drawn(img, at, d) ==
  [p \in Pos |->
     LET q == Under(p, at)
     IN  IF InBody(q) /\ Plus(q, at) \in Pos THEN Seen(CellOf(d, q)) ELSE img[p]]

SpriteInit ==
  /\ size \in Sizes /\ intensity = 4
  /\ place \in Places /\ motion \in Motions
  /\ description = [i \in Edge |-> [j \in Edge |-> [k \in Edge |-> Junk]]]
  /\ buffer = description
  /\ image = [p \in Pos |-> Dark]

-----------------------------------------------------------------------------
(* The colours of a sprite.                                                *)

\* The cells that are painted are those with column, panel and layer in this
\* order below the sizes, though drawing takes the layer first.
Painted(cells, c) ==
  [i \in Edge |-> [j \in Edge |-> [k \in Edge |->
     IF i < size[1] /\ j < size[2] /\ k < size[3]
     THEN IF <<i, j, k>> \in cells THEN c ELSE Black
     ELSE description[i][j][k]]]]

Cells == Edge \X Edge \X Edge
Outline ==
  LET extreme(q, a) == q[a] \in {0, size[a] - 1}
  IN  {q \in Cells : \E a, b \in Axis : a # b /\ extreme(q, a) /\ extreme(q, b)}
Sphere ==
  LET square(n) == n * n
      from(q, a) == square(q[a] - size[a] \div 2)
  IN  {q \in Cells : from(q, 1) + from(q, 2) + from(q, 3) < square(size[1] \div 2)}

Describe(d) ==
  /\ description' = d
  /\ UNCHANGED <<size, place, motion, intensity, buffer, image>>

sprite_colorIt(c) == Describe(Painted(Cells, c))
sprite_outline(c) == Describe(Painted(Outline, c))
\* (mutant) what is not in the sphere is left
SphereOnly(c) ==
  Describe([i \in Edge |-> [j \in Edge |-> [k \in Edge |->
    IF <<i, j, k>> \in Sphere THEN c ELSE description[i][j][k]]]])
sprite_sphere(c) == Describe(Painted(Sphere, c))
sprite_description(d) == Describe(d)

\* (mutant) converted to 1 to 5 already
ChgIntensityUp(i) ==
  /\ intensity' = i + 1
  /\ UNCHANGED <<place, motion, shape, image>>
sprite_ChgIntensity(i) ==
  /\ intensity' = i
  /\ UNCHANGED <<place, motion, shape, image>>

\* What sprite_rotateX, Y and Z leave in the buffer, which is copied back whole.
RotatedX(dir) ==
  LET Y == size[2]  Z == size[3]
  IN  [i \in Edge |-> [j \in Edge |-> [k \in Edge |->
         IF ~(i < Y /\ k < Z) THEN buffer[i][j][k]
         ELSE IF dir = 0 THEN description[Z - 1 - k][j][i]
         ELSE description[k][j][Y - 1 - i]]]]
RotatedY(dir) ==
  LET X == size[1]  Z == size[3]
  IN  [i \in Edge |-> [j \in Edge |-> [k \in Edge |->
         IF ~(i < X /\ j < Z) THEN buffer[i][j][k]
         ELSE IF dir = 0 THEN description[Z - 1 - j][i][k]
         ELSE description[j][X - 1 - i][k]]]]
RotatedZ(dir) ==
  LET X == size[1]  Y == size[2]
  IN  [i \in Edge |-> [j \in Edge |-> [k \in Edge |->
         IF ~(j < Y /\ k < X) THEN buffer[i][j][k]
         ELSE IF dir = 0 THEN description[i][X - 1 - k][j]
         ELSE description[i][k][Y - 1 - j]]]]
Rotated(axis, dir) ==
  IF axis = 1 THEN RotatedX(dir) ELSE IF axis = 2 THEN RotatedY(dir) ELSE RotatedZ(dir)

\* "The sprite must have equal dimensions in the plane in which its rotating":
\* the animations keep to it.
Square(axis) == \A a, b \in Axis \ {axis} : size[a] = size[b]

sprite_rotate(axis, dir) ==
  /\ buffer' = Rotated(axis, dir) /\ description' = buffer'
  /\ image' = Drawn(image, place, description')
  /\ UNCHANGED <<size, place, motion, intensity>>

-----------------------------------------------------------------------------
(* Drawing and moving.                                                     *)

sprite_setIt ==
  /\ image' = Drawn(image, place, description)
  /\ UNCHANGED <<place, motion, intensity, shape>>

sprite_clearIt ==
  /\ image' = Cleared(image, place)
  /\ UNCHANGED <<place, motion, intensity, shape>>

\* cube_clear, as the animations call it.
clearCube ==
  /\ image' = [p \in Pos |-> Dark]
  /\ UNCHANGED <<place, motion, intensity, shape>>

\* A sprite is placed anew when it is not to be seen.
sprite_place(at) ==
  /\ image = [p \in Pos |-> Dark]
  /\ place' = at
  /\ UNCHANGED <<motion, intensity, shape, image>>

sprite_motion(m) ==
  /\ motion' = m
  /\ UNCHANGED <<place, intensity, shape, image>>

\* (mutant) cleared where it is drawn next
MoveClearedLate(m) ==
  /\ place' = Plus(place, m)
  /\ place' \in [Axis -> -Away .. Side + Away]
  /\ image' = Drawn(Cleared(image, place'), place', description)
  /\ UNCHANGED <<intensity, shape>>
\* How every movement ends: the sprite gone where it was, drawn where it is.
MoveBy(m) ==
  /\ place' = Plus(place, m)
  /\ place' \in [Axis -> -Away .. Side + Away]
  /\ image' = Drawn(Cleared(image, place), place', description)
  /\ UNCHANGED <<intensity, shape>>

sprite_moveIt == MoveBy(motion) /\ UNCHANGED motion

\* (mutant) turned round a step late
BouncedLate(at) ==
  [a \in Axis |->
     IF \/ at[a] < 1 /\ motion[a] < 0
        \/ at[a] > Side - size[a] /\ motion[a] > 0
     THEN -motion[a] ELSE motion[a]]
\* The motion after a bounce: away from a wall that has been reached.
Bounced(at) ==
  [a \in Axis |->
     IF \/ at[a] < 1 /\ motion[a] < 0
        \/ at[a] > Side - 1 - size[a] /\ motion[a] > 0
     THEN -motion[a] ELSE motion[a]]

sprite_bounceIt == MoveBy(motion) /\ motion' = Bounced(place')

\* A heading is an axis, negative towards the low wall.
Unit(h) == [a \in Axis |-> IF a = h THEN 1 ELSE IF a = -h THEN -1 ELSE 0]
\* (mutant) past the wall
PastWall(h) == IF h < 0 THEN place[-h] < 0 ELSE place[h] > Side - size[h]
AtWall(h) == IF h < 0 THEN place[-h] < 1 ELSE place[h] > Side - 1 - size[h]

\* The turns of a roll about an axis, in the order in which they are tried: at
\* the wall the first heading leads to, the second is taken.
TurnsX(dir) ==
  IF dir = 0 THEN << <<-3, -2>>, <<-2,  3>>, << 3,  2>>, << 2, -3>> >>
             ELSE << << 3, -2>>, << 2,  3>>, <<-3,  2>>, <<-2, -3>> >>
TurnsY(dir) ==
  IF dir = 0 THEN << << 1, -3>>, << 3,  1>>, <<-1,  3>>, <<-3, -1>> >>
             ELSE << << 1,  3>>, << 3, -1>>, <<-1, -3>>, <<-3,  1>> >>
TurnsZ(dir) ==
  IF dir = 0 THEN << << 1, -2>>, << 2,  1>>, <<-1,  2>>, <<-2, -1>> >>
             ELSE << <<-1, -2>>, <<-2,  1>>, << 1,  2>>, << 2, -1>> >>
Turns(axis, dir) ==
  IF axis = 1 THEN TurnsX(dir) ELSE IF axis = 2 THEN TurnsY(dir) ELSE TurnsZ(dir)

Turned(turn, m) ==
  IF m = Unit(turn[1]) /\ AtWall(turn[1]) THEN Unit(turn[2]) ELSE m

\* A sprite that does not roll yet starts with the first of two headings if a
\* place on an axis is short of the far wall, with the second if it is a step from
\* it, and not at all if it has reached it.
Start(axis, dir) ==
  CASE axis = 1 /\ dir = 0 -> [at |-> 1, by |-> 3, short |-> -3, near |-> -2]
    [] axis = 1 /\ dir = 1 -> [at |-> 3, by |-> 3, short |->  3, near |->  2]
    [] axis = 2 /\ dir = 0 -> [at |-> 1, by |-> 1, short |-> -1, near |-> -3]
    [] axis = 2 /\ dir = 1 -> [at |-> 1, by |-> 1, short |->  1, near |->  3]
    [] axis = 3 /\ dir = 0 -> [at |-> 1, by |-> 1, short |->  1, near |->  2]
    [] axis = 3 /\ dir = 1 -> [at |-> 1, by |-> 1, short |-> -1, near |-> -2]

Rolling(axis, dir) == \E n \in 1 .. 4 : motion = Unit(Turns(axis, dir)[n][1])
Started(axis, dir) ==
  LET s == Start(axis, dir)
      wall == Side - 1 - size[s.by]
  IN  IF place[s.at] < wall THEN Unit(s.short)
      ELSE IF place[s.at] = wall THEN Unit(s.near) ELSE motion
\* (mutant) the last turn forgotten
RolledOnce(axis, dir) ==
  LET t == Turns(axis, dir)
  IN  IF Rolling(axis, dir)
      THEN Turned(t[3], Turned(t[2], Turned(t[1], motion)))
      ELSE Started(axis, dir)
Rolled(axis, dir) ==
  LET t == Turns(axis, dir)
  IN  IF Rolling(axis, dir)
      THEN Turned(t[4], Turned(t[3], Turned(t[2], Turned(t[1], motion))))
      ELSE Started(axis, dir)

sprite_roll(axis, dir) ==
  motion' = Rolled(axis, dir) /\ MoveBy(motion')

Colouring ==
  \/ \E c \in Paints : sprite_colorIt(c) \/ sprite_outline(c) \/ sprite_sphere(c)
  \/ \E d \in Descriptions : sprite_description(d)
  \/ \E i \in Intensities : sprite_ChgIntensity(i)

Placing ==
  \/ \E at \in Places : sprite_place(at)
  \/ \E m \in Motions : sprite_motion(m)
  \/ sprite_setIt \/ sprite_clearIt \/ clearCube

Moving ==
  \/ sprite_moveIt \/ sprite_bounceIt
  \/ \E axis \in Axis, dir \in {0, 1} : sprite_roll(axis, dir)

SpriteNext ==
  \/ Colouring \/ Placing \/ Moving
  \/ \E axis \in Axis, dir \in {0, 1} :
       Square(axis) /\ sprite_rotate(axis, dir)

SpriteSpec == SpriteInit /\ [][SpriteNext]_spriteVars

-----------------------------------------------------------------------------
\* The intensity stays one the LEDs can show, the place within the cube's
\* surroundings, and every cell of the sprite and of the image is a colour.
SpriteTypeOK ==
  /\ size \in Sizes /\ intensity \in 0 .. 4
  /\ place \in [Axis -> -Away .. Side + Away] /\ motion \in [Axis -> Int]
  /\ description \in Description /\ buffer \in Description
  /\ image \in [Pos -> Colour \X (0 .. 4)]

\* A movement leaves no trail: nothing is lit but what is within the box the
\* sprite is in now, however often it was moved, turned and repainted.
NoTrail == \A p \in Pos : image[p] # Dark => InBody(Under(p, place))

Inside == \A a \in Axis : place[a] \in 0 .. Side - size[a]

\* The motion is no more than a step along each axis, and none into a wall.
Homeward ==
  \A a \in Axis : /\ motion[a] \in -1 .. 1
                  /\ motion[a] = -1 => place[a] > 0
                  /\ motion[a] = 1 => place[a] < Side - size[a]

\* "Reverse direction if cube's edge is detected": a sprite that bounces a step at
\* a time does not leave the cube, and is turned round in time for the next step.
BounceStaysInside ==
  [][Inside /\ Homeward /\ sprite_bounceIt => (Inside /\ Homeward)']_spriteVars

\* On its way round an axis: along the wall or towards it, and not in the corner
\* in which it would turn outwards.
OnTrack(axis, dir) ==
  /\ Inside
  /\ \E n \in 1 .. 4 : /\ motion = Unit(Turns(axis, dir)[n][1])
                       /\ ~AtWall(Turns(axis, dir)[n][2])

\* A roll never leaves the cube, nor its track.
RollStaysInside ==
  [][\A axis \in Axis, dir \in {0, 1} :
       OnTrack(axis, dir) /\ sprite_roll(axis, dir) => OnTrack(axis, dir)'
  ]_spriteVars

\* A quarter turn about an axis of a position in the sprite.
Quarter(axis, q) ==
  LET u == IF axis = 1 THEN 2 ELSE 1
      v == IF axis = 3 THEN 2 ELSE 3
  IN  [q EXCEPT ![u] = q[v], ![v] = size[u] - 1 - q[u]]
\* What a description looks like at a position in the sprite.
Look(d, q) == CellOf(d, [q EXCEPT ![3] = size[3] - 1 - q[3]])
Body == {q \in [Axis -> Edge] : InBody(q)}

\* In a plane of equal dimensions a rotation moves every cell a quarter turn, and
\* the other direction moves it back.
RotateIsQuarter ==
  \A axis \in Axis : Square(axis) =>
    \A q \in Body :
      /\ Look(Rotated(axis, 0), Quarter(axis, q)) = Look(description, q)
      /\ Look(Rotated(axis, 1), q) = Look(description, Quarter(axis, q))

\* A cube that is painted or described shows none of the memory it was made of,
\* however it is rotated and repainted.
Clean == \A q \in Body : CellOf(description, q) # Junk
NoJunkShown ==
  [][/\ size[1] = size[2] /\ size[2] = size[3]
     /\ Clean \/ \E c \in Paints : sprite_colorIt(c) \/ sprite_outline(c) \/ sprite_sphere(c)
     => Clean']_spriteVars
=============================================================================
