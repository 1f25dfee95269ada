-------------------------- MODULE CubeSpriteProofs --------------------------
(***************************************************************************)
(* What holds of the sprites of every size in cubes of every size: the     *)
(* proofs about CubeSprite.                                                *)
(***************************************************************************)
EXTENDS CubeSprite, TLAPS

-----------------------------------------------------------------------------
(* What the routines leave in the colours and in the image.                *)

\* A rotation fills the buffer with cells of the description.
LEMMA RotatedDescription ==
  ASSUME SpriteAssumption, SpriteTypeOK, NEW axis \in Axis, NEW dir \in {0, 1},
         Square(axis)
  PROVE  Rotated(axis, dir) \in Description
<1>1. /\ size[1] \in 1 .. MaxSide /\ size[2] \in 1 .. MaxSide
      /\ size[3] \in 1 .. MaxSide /\ MaxSide \in Nat
  BY DEF SpriteAssumption, SpriteTypeOK, Axis
<1>2. /\ \A i, j, k \in Edge : description[i][j][k] \in Colour
      /\ \A i, j, k \in Edge : buffer[i][j][k] \in Colour
  BY DEF SpriteTypeOK, Description
<1>3. CASE axis = 1
  <2>1. size[2] = size[3]
    BY <1>3 DEF Square, Axis
  <2>2. ASSUME NEW i \in Edge, NEW j \in Edge, NEW k \in Edge
        PROVE  RotatedX(dir)[i][j][k] \in Colour
    <3>1. i < size[2] /\ k < size[3] => size[3] - 1 - k \in Edge /\ size[2] - 1 - i \in Edge
      BY <1>1, <2>1 DEF Edge
    <3> QED  BY <1>2, <3>1 DEF RotatedX
  <2>3. RotatedX(dir) \in Description
    BY <2>2 DEF RotatedX, Description
  <2> QED  BY <1>3, <2>3 DEF Rotated
<1>4. CASE axis = 2
  <2>1. size[1] = size[3]
    BY <1>4 DEF Square, Axis
  <2>2. ASSUME NEW i \in Edge, NEW j \in Edge, NEW k \in Edge
        PROVE  RotatedY(dir)[i][j][k] \in Colour
    <3>1. i < size[1] /\ j < size[3] => size[3] - 1 - j \in Edge /\ size[1] - 1 - i \in Edge
      BY <1>1, <2>1 DEF Edge
    <3> QED  BY <1>2, <3>1 DEF RotatedY
  <2>3. RotatedY(dir) \in Description
    BY <2>2 DEF RotatedY, Description
  <2> QED  BY <1>4, <2>3 DEF Rotated
<1>5. CASE axis = 3
  <2>1. size[1] = size[2]
    BY <1>5 DEF Square, Axis
  <2>2. ASSUME NEW i \in Edge, NEW j \in Edge, NEW k \in Edge
        PROVE  RotatedZ(dir)[i][j][k] \in Colour
    <3>1. j < size[2] /\ k < size[1] => size[1] - 1 - k \in Edge /\ size[2] - 1 - j \in Edge
      BY <1>1, <2>1 DEF Edge
    <3> QED  BY <1>2, <3>1 DEF RotatedZ
  <2>3. RotatedZ(dir) \in Description
    BY <2>2 DEF RotatedZ, Description
  <2> QED  BY <1>5, <2>3 DEF Rotated
<1> QED  BY <1>3, <1>4, <1>5 DEF Axis

\* Clearing and drawing leave an image.
LEMMA ClearedImage ==
  ASSUME NEW img \in [Pos -> Colour \X (0 .. 4)], NEW at
  PROVE  Cleared(img, at) \in [Pos -> Colour \X (0 .. 4)]
<1>1. Dark \in Colour \X (0 .. 4)
  BY DEF Dark, Colour
<1> QED  BY <1>1 DEF Cleared

LEMMA DrawnImage ==
  ASSUME NEW img \in [Pos -> Colour \X (0 .. 4)], NEW d \in Description,
         NEW at \in [Axis -> Int],
         intensity \in 0 .. 4, size \in [Axis -> 1 .. MaxSide], MaxSide \in Nat
  PROVE  Drawn(img, at, d) \in [Pos -> Colour \X (0 .. 4)]
<1>1. ASSUME NEW q, InBody(q)
      PROVE  Seen(CellOf(d, q)) \in Colour \X (0 .. 4)
  <2>1. \A a \in Axis : q[a] \in Edge
    BY <1>1 DEF InBody, Edge
  <2>2. CellOf(d, q) \in Colour
    BY <2>1 DEF CellOf, Description, Axis
  <2> QED  BY <2>2 DEF Seen
<1> QED  BY <1>1 DEF Drawn

\* Every position is a function to the integers, and a movement keeps it one.
LEMMA PlaceIsInt ==
  ASSUME SpriteAssumption, NEW at \in [Axis -> -Away .. Side + Away]
  PROVE  at \in [Axis -> Int]
  BY DEF SpriteAssumption

\* What is painted with any colours is a description.
LEMMA PaintedDescription ==
  ASSUME SpriteTypeOK, NEW cells, NEW c \in Colour
  PROVE  Painted(cells, c) \in Description
<1>1. ASSUME NEW i \in Edge, NEW j \in Edge, NEW k \in Edge
      PROVE  Painted(cells, c)[i][j][k] \in Colour
  <2>1. description[i][j][k] \in Colour /\ Black \in Colour
    BY DEF SpriteTypeOK, Description, Colour
  <2> QED  BY <2>1 DEF Painted
<1> QED  BY <1>1 DEF Painted, Description

\* A heading leads one step along one axis, and a roll only ever turns to headings.
LEMMA UnitMotion == \A h \in Int : Unit(h) \in [Axis -> -1 .. 1]
  BY DEF Unit, Axis

LEMMA TurnHeadings ==
  ASSUME NEW axis \in Axis, NEW dir \in {0, 1}, NEW n \in 1 .. 4
  PROVE  /\ Turns(axis, dir)[n][1] \in {-3, -2, -1, 1, 2, 3}
         /\ Turns(axis, dir)[n][2] \in {-3, -2, -1, 1, 2, 3}
  BY DEF Turns, TurnsX, TurnsY, TurnsZ, Axis

LEMMA RolledMotion ==
  ASSUME motion \in [Axis -> Int], NEW axis \in Axis, NEW dir \in {0, 1}
  PROVE  Rolled(axis, dir) \in [Axis -> Int]
<1> DEFINE t == Turns(axis, dir)
<1>1. \A h \in Int : Unit(h) \in [Axis -> Int]
  BY UnitMotion
<1>2. ASSUME NEW n \in 1 .. 4, NEW m \in [Axis -> Int]
      PROVE  Turned(t[n], m) \in [Axis -> Int]
  <2>1. t[n][2] \in Int
    BY TurnHeadings
  <2>2. Unit(t[n][2]) \in [Axis -> Int]
    BY <1>1, <2>1
  <2> HIDE DEF t
  <2> QED  BY <2>2 DEF Turned
<1>3. Started(axis, dir) \in [Axis -> Int]
  <2>1. Start(axis, dir).short \in Int /\ Start(axis, dir).near \in Int
    BY DEF Start, Axis
  <2> QED  BY <1>1, <2>1 DEF Started
<1>4. CASE Rolling(axis, dir)
  <2> HIDE DEF t
  <2>1. Turned(t[2], Turned(t[1], motion)) \in [Axis -> Int]
    BY <1>2
  <2>2. Turned(t[4], Turned(t[3], Turned(t[2], Turned(t[1], motion))))
          \in [Axis -> Int]
    BY <1>2, <2>1
  <2> QED  BY <1>4, <2>2 DEF Rolled, t
<1>5. CASE ~Rolling(axis, dir)
  BY <1>3, <1>5 DEF Rolled
<1> QED  BY <1>4, <1>5

\* Whatever is called, the types are right: the actions one by one.
LEMMA TypeStep ==
  ASSUME SpriteAssumption, SpriteTypeOK, [SpriteNext]_spriteVars
  PROVE  SpriteTypeOK'
<1> USE SpriteAssumption
<1>1. /\ size \in [Axis -> 1 .. MaxSide] /\ MaxSide \in Nat
      /\ Paints \subseteq Colour /\ Black \in Colour
  BY DEF SpriteTypeOK, SpriteAssumption, Colour
<1>2. ASSUME NEW d \in Description, Describe(d)
      PROVE  SpriteTypeOK'
  BY <1>2 DEF Describe, SpriteTypeOK
<1>3. CASE Colouring
  <2>1. ASSUME NEW c \in Paints, sprite_colorIt(c)
        PROVE  SpriteTypeOK'
    BY <1>1, <1>2, <2>1, PaintedDescription DEF sprite_colorIt
  <2>2. ASSUME NEW c \in Paints, sprite_outline(c)
        PROVE  SpriteTypeOK'
    BY <1>1, <1>2, <2>2, PaintedDescription DEF sprite_outline
  <2>3. ASSUME NEW c \in Paints, sprite_sphere(c)
        PROVE  SpriteTypeOK'
    BY <1>1, <1>2, <2>3, PaintedDescription DEF sprite_sphere
  <2>4. ASSUME NEW d \in Descriptions, sprite_description(d)
        PROVE  SpriteTypeOK'
    <3>1. d \in Description
      <4>1. d \in [Edge -> [Edge -> [Edge -> Paints \cup {Black}]]]
        BY DEF SpriteAssumption
      <4>2. \A i, j, k \in Edge : d[i][j][k] \in Colour
        BY <4>1 DEF Colour
      <4> QED  BY <4>1, <4>2 DEF Description
    <3> QED  BY <1>2, <2>4, <3>1 DEF sprite_description
  <2>5. ASSUME NEW i \in Intensities, sprite_ChgIntensity(i)
        PROVE  SpriteTypeOK'
    BY <2>5 DEF sprite_ChgIntensity, SpriteTypeOK, shape, SpriteAssumption
  <2> QED  BY <1>3, <2>1, <2>2, <2>3, <2>4, <2>5 DEF Colouring
<1>4. CASE Placing
  <2>1. place \in [Axis -> Int]
    BY PlaceIsInt DEF SpriteTypeOK
  <2>2. [p \in Pos |-> Dark] \in [Pos -> Colour \X (0 .. 4)]
    BY DEF Dark, Colour
  <2>3. Drawn(image, place, description) \in [Pos -> Colour \X (0 .. 4)]
    BY <1>1, <2>1, DrawnImage DEF SpriteTypeOK
  <2>4. Cleared(image, place) \in [Pos -> Colour \X (0 .. 4)]
    BY ClearedImage DEF SpriteTypeOK
  <2>5. ASSUME NEW at \in Places, sprite_place(at)
        PROVE  SpriteTypeOK'
    BY <2>5 DEF sprite_place, SpriteTypeOK, shape, SpriteAssumption
  <2>6. ASSUME NEW m \in Motions, sprite_motion(m)
        PROVE  SpriteTypeOK'
    BY <2>6 DEF sprite_motion, SpriteTypeOK, shape, SpriteAssumption
  <2>7. CASE sprite_setIt
    BY <2>3, <2>7 DEF sprite_setIt, SpriteTypeOK, shape
  <2>8. CASE sprite_clearIt
    BY <2>4, <2>8 DEF sprite_clearIt, SpriteTypeOK, shape
  <2>9. CASE clearCube
    BY <2>2, <2>9 DEF clearCube, SpriteTypeOK, shape
  <2> QED  BY <1>4, <2>5, <2>6, <2>7, <2>8, <2>9 DEF Placing
<1>5. ASSUME NEW m \in [Axis -> Int], MoveBy(m), motion' \in [Axis -> Int]
      PROVE  SpriteTypeOK'
  <2>1. place' \in [Axis -> Int]
    BY <1>5, PlaceIsInt DEF MoveBy
  <2>2. Cleared(image, place) \in [Pos -> Colour \X (0 .. 4)]
    BY ClearedImage DEF SpriteTypeOK
  <2>3. Drawn(Cleared(image, place), place', description)
          \in [Pos -> Colour \X (0 .. 4)]
    BY <1>1, <2>1, <2>2, DrawnImage DEF SpriteTypeOK
  <2> QED  BY <1>5, <2>3 DEF MoveBy, SpriteTypeOK, shape
<1>6. CASE Moving
  <2>1. CASE sprite_moveIt
    BY <1>5, <2>1 DEF sprite_moveIt, SpriteTypeOK
  <2>2. CASE sprite_bounceIt
    <3>1. Bounced(place') \in [Axis -> Int]
      BY DEF Bounced, SpriteTypeOK
    <3> QED  BY <1>5, <2>2, <3>1 DEF sprite_bounceIt, SpriteTypeOK
  <2>3. ASSUME NEW axis \in Axis, NEW dir \in {0, 1}, sprite_roll(axis, dir)
        PROVE  SpriteTypeOK'
    BY <1>5, <2>3, RolledMotion DEF sprite_roll, SpriteTypeOK
  <2> QED  BY <1>6, <2>1, <2>2, <2>3 DEF Moving
<1>7. ASSUME NEW axis \in Axis, NEW dir \in {0, 1},
             Square(axis), sprite_rotate(axis, dir)
      PROVE  SpriteTypeOK'
  <2>1. Rotated(axis, dir) \in Description
    BY <1>7, RotatedDescription
  <2>2. Drawn(image, place, Rotated(axis, dir)) \in [Pos -> Colour \X (0 .. 4)]
    BY <1>1, <2>1, PlaceIsInt, DrawnImage DEF SpriteTypeOK
  <2> QED  BY <1>7, <2>1, <2>2 DEF sprite_rotate, SpriteTypeOK
<1>8. CASE UNCHANGED spriteVars
  BY <1>8 DEF spriteVars, SpriteTypeOK
<1> QED  BY <1>3, <1>4, <1>6, <1>7, <1>8 DEF SpriteNext

\* SpriteTypeOK holds of sprites of every size: in particular no rotation reads
\* beyond the description, and no intensity is beyond what the LEDs show.
THEOREM SpriteTypeCorrect == SpriteSpec => []SpriteTypeOK
<1>1. SpriteInit => SpriteTypeOK
  BY SpriteAssumption
  DEF SpriteInit, SpriteTypeOK, SpriteAssumption, Description, Colour, Dark
<1> QED  BY <1>1, TypeStep, SpriteAssumption, PTL DEF SpriteSpec

-----------------------------------------------------------------------------
(* What is lit.                                                            *)

\* A movement clears all that the sprite lit before it draws it anew.
LEMMA MoveLeavesNoTrail ==
  ASSUME SpriteTypeOK, NoTrail, NEW m, MoveBy(m)
  PROVE  NoTrail'
<1> SUFFICES ASSUME NEW p \in Pos, image'[p] # Dark
             PROVE  InBody(Under(p, place))'
  BY DEF NoTrail
<1>1. image' = Drawn(Cleared(image, place), place', description)
  BY DEF MoveBy
<1>2. Cleared(image, place)[p] = Dark
  BY DEF Cleared, NoTrail
<1>3. InBody(Under(p, place'))
  BY <1>1, <1>2 DEF Drawn
<1>4. Under(p, place)' = Under(p, place') /\ size' = size
  BY DEF MoveBy, shape, Under
<1> QED  BY <1>3, <1>4 DEF InBody

\* What is drawn anew where the sprite is does not leave its box either.
LEMMA DrawLeavesNoTrail ==
  ASSUME NoTrail, NEW d, image' = Drawn(image, place, d), UNCHANGED <<size, place>>
  PROVE  NoTrail'
  BY DEF NoTrail, Drawn, InBody, Under

LEMMA TrailStep ==
  ASSUME SpriteTypeOK, NoTrail, [SpriteNext]_spriteVars
  PROVE  NoTrail'
<1>1. CASE UNCHANGED <<size, place, image>>
  BY <1>1 DEF NoTrail, InBody, Under
<1>2. CASE Colouring
  BY <1>1, <1>2
  DEF Colouring, sprite_colorIt, sprite_outline, sprite_sphere,
      sprite_description, sprite_ChgIntensity, Describe, shape
<1>3. CASE Placing
  <2>1. CASE \E at \in Places : sprite_place(at)
    BY <2>1 DEF sprite_place, NoTrail
  <2>2. CASE \E m \in Motions : sprite_motion(m)
    BY <1>1, <2>2 DEF sprite_motion, shape
  <2>3. CASE sprite_setIt
    BY <2>3, DrawLeavesNoTrail DEF sprite_setIt, shape
  <2>4. CASE sprite_clearIt
    BY <2>4 DEF sprite_clearIt, NoTrail, Cleared, shape, InBody, Under
  <2>5. CASE clearCube
    BY <2>5 DEF clearCube, NoTrail
  <2> QED  BY <1>3, <2>1, <2>2, <2>3, <2>4, <2>5 DEF Placing
<1>4. CASE Moving
  BY <1>4, MoveLeavesNoTrail DEF Moving, sprite_moveIt, sprite_bounceIt, sprite_roll
<1>5. ASSUME NEW axis \in Axis, NEW dir \in {0, 1}, sprite_rotate(axis, dir)
      PROVE  NoTrail'
  BY <1>5, DrawLeavesNoTrail DEF sprite_rotate
<1>6. CASE UNCHANGED spriteVars
  BY <1>1, <1>6 DEF spriteVars
<1> QED  BY <1>2, <1>3, <1>4, <1>5, <1>6 DEF SpriteNext

\* NoTrail: nothing is ever lit outside the box of the sprite, however often it
\* was moved, rolled, turned and repainted since it was placed.
THEOREM LeavesNoTrail == SpriteSpec => []NoTrail
<1>1. SpriteInit => NoTrail
  BY DEF SpriteInit, NoTrail
<1> QED  BY <1>1, TrailStep, SpriteTypeCorrect, PTL DEF SpriteSpec

-----------------------------------------------------------------------------
(* Where sprites get to.                                                   *)

\* The numbers of a sprite that is inside the cube.
LEMMA Room ==
  ASSUME SpriteAssumption, SpriteTypeOK, NEW a \in Axis
  PROVE  /\ Side \in Nat /\ size[a] \in Int /\ 0 < size[a] /\ size[a] < Side
         /\ place[a] \in Int /\ motion[a] \in Int
  BY DEF SpriteAssumption, SpriteTypeOK

\* BounceStaysInside, for a sprite of any size: one that moves a step at a time
\* and bounces stays inside, since it is turned round when it reaches the wall.
THEOREM BounceCorrect == SpriteSpec => BounceStaysInside
<1>1. ASSUME SpriteTypeOK, Inside, Homeward, sprite_bounceIt
      PROVE  (Inside /\ Homeward)'
  <2>1. ASSUME NEW a \in Axis
        PROVE  /\ place'[a] \in 0 .. Side - size[a]
               /\ motion'[a] \in -1 .. 1
               /\ motion'[a] = -1 => place'[a] > 0
               /\ motion'[a] = 1 => place'[a] < Side - size[a]
    <3>1. place'[a] = place[a] + motion[a]
      BY <1>1 DEF sprite_bounceIt, MoveBy, Plus
    <3>2. motion'[a] = IF \/ place'[a] < 1 /\ motion[a] < 0
                          \/ place'[a] > Side - 1 - size[a] /\ motion[a] > 0
                       THEN -motion[a] ELSE motion[a]
      BY <1>1 DEF sprite_bounceIt, Bounced
    <3>3. /\ place[a] \in 0 .. Side - size[a] /\ motion[a] \in -1 .. 1
          /\ motion[a] = -1 => place[a] > 0
          /\ motion[a] = 1 => place[a] < Side - size[a]
      BY <1>1 DEF Inside, Homeward
    <3> QED  BY <1>1, <3>1, <3>2, <3>3, Room, SpriteAssumption
  <2>2. size' = size
    BY <1>1 DEF sprite_bounceIt, MoveBy, shape
  <2> QED  BY <2>1, <2>2 DEF Inside, Homeward
<1>2. SpriteTypeOK /\ [SpriteNext]_spriteVars
        => [Inside /\ Homeward /\ sprite_bounceIt
              => (Inside /\ Homeward)']_spriteVars
  BY <1>1
<1> QED  BY <1>2, SpriteTypeCorrect, PTL DEF SpriteSpec, BounceStaysInside

\* What Unit says of each axis.
LEMMA UnitSteps ==
  ASSUME NEW h \in {-3, -2, -1, 1, 2, 3}, NEW a \in Axis
  PROVE  Unit(h)[a] = IF a = h THEN 1 ELSE IF a = -h THEN -1 ELSE 0
  BY DEF Unit

\* Two headings are two motions.
LEMMA UnitsDiffer ==
  ASSUME NEW h \in {-3, -2, -1, 1, 2, 3}, NEW g \in {-3, -2, -1, 1, 2, 3},
         Unit(h) = Unit(g)
  PROVE  h = g
<1>1. 1 \in Axis /\ 2 \in Axis /\ 3 \in Axis
  BY DEF Axis
<1>2. /\ Unit(h)[1] = Unit(g)[1] /\ Unit(h)[2] = Unit(g)[2]
      /\ Unit(h)[3] = Unit(g)[3]
  OBVIOUS
<1>3. ASSUME NEW a \in Axis
      PROVE  /\ Unit(h)[a] = IF a = h THEN 1 ELSE IF a = -h THEN -1 ELSE 0
             /\ Unit(g)[a] = IF a = g THEN 1 ELSE IF a = -g THEN -1 ELSE 0
  BY UnitSteps
<1> HIDE DEF Unit
<1> QED  BY <1>1, <1>2, <1>3

\* The turns of a roll go round: each turns to the heading of another, along the
\* other axis, and that one leads back. No two have the same heading.
LEMMA TurnsGoRound ==
  ASSUME NEW axis \in Axis, NEW dir \in {0, 1}
  PROVE  LET t == Turns(axis, dir)
         IN  /\ \A n \in 1 .. 4 :
                  /\ t[n][2] # t[n][1] /\ t[n][2] # -t[n][1]
                  /\ \E k \in 1 .. 4 : t[k][1] = t[n][2] /\ t[k][2] = -t[n][1]
             /\ \A n, k \in 1 .. 4 : n # k => t[n][1] # t[k][1]
<1> DEFINE t == Turns(axis, dir)
<1>1. /\ t[1][1] \in {-3, -2, -1, 1, 2, 3} /\ t[1][2] \in {-3, -2, -1, 1, 2, 3}
      /\ t[1][1] # t[1][2] /\ t[1][1] + t[1][2] # 0
      /\ t[3][1] = 0 - t[1][1] /\ t[3][2] = 0 - t[1][2]
      /\ \/ /\ t[2][1] = t[1][2] /\ t[2][2] = 0 - t[1][1]
            /\ t[4][1] = 0 - t[1][2] /\ t[4][2] = t[1][1]
         \/ /\ t[2][1] = 0 - t[1][2] /\ t[2][2] = t[1][1]
            /\ t[4][1] = t[1][2] /\ t[4][2] = 0 - t[1][1]
  <2>1. CASE axis = 1 /\ dir = 0
    <3>1. Turns(axis, dir) = TurnsX(0)  BY <2>1 DEF Turns
    <3>2. /\ t[1][1] = -3 /\ t[1][2] = -2 /\ t[2][1] = -2 /\ t[2][2] = 3
          /\ t[3][1] = 3 /\ t[3][2] = 2 /\ t[4][1] = 2 /\ t[4][2] = -3
      BY <3>1 DEF TurnsX
    <3> HIDE DEF t
    <3> QED  BY <3>2
  <2>2. CASE axis = 1 /\ dir = 1
    <3>1. Turns(axis, dir) = TurnsX(1)  BY <2>2 DEF Turns
    <3>2. /\ t[1][1] = 3 /\ t[1][2] = -2 /\ t[2][1] = 2 /\ t[2][2] = 3
          /\ t[3][1] = -3 /\ t[3][2] = 2 /\ t[4][1] = -2 /\ t[4][2] = -3
      BY <3>1 DEF TurnsX
    <3> HIDE DEF t
    <3> QED  BY <3>2
  <2>3. CASE axis = 2 /\ dir = 0
    <3>1. Turns(axis, dir) = TurnsY(0)  BY <2>3 DEF Turns
    <3>2. /\ t[1][1] = 1 /\ t[1][2] = -3 /\ t[2][1] = 3 /\ t[2][2] = 1
          /\ t[3][1] = -1 /\ t[3][2] = 3 /\ t[4][1] = -3 /\ t[4][2] = -1
      BY <3>1 DEF TurnsY
    <3> HIDE DEF t
    <3> QED  BY <3>2
  <2>4. CASE axis = 2 /\ dir = 1
    <3>1. Turns(axis, dir) = TurnsY(1)  BY <2>4 DEF Turns
    <3>2. /\ t[1][1] = 1 /\ t[1][2] = 3 /\ t[2][1] = 3 /\ t[2][2] = -1
          /\ t[3][1] = -1 /\ t[3][2] = -3 /\ t[4][1] = -3 /\ t[4][2] = 1
      BY <3>1 DEF TurnsY
    <3> HIDE DEF t
    <3> QED  BY <3>2
  <2>5. CASE axis = 3 /\ dir = 0
    <3>1. Turns(axis, dir) = TurnsZ(0)  BY <2>5 DEF Turns
    <3>2. /\ t[1][1] = 1 /\ t[1][2] = -2 /\ t[2][1] = 2 /\ t[2][2] = 1
          /\ t[3][1] = -1 /\ t[3][2] = 2 /\ t[4][1] = -2 /\ t[4][2] = -1
      BY <3>1 DEF TurnsZ
    <3> HIDE DEF t
    <3> QED  BY <3>2
  <2>6. CASE axis = 3 /\ dir = 1
    <3>1. Turns(axis, dir) = TurnsZ(1)  BY <2>6 DEF Turns
    <3>2. /\ t[1][1] = -1 /\ t[1][2] = -2 /\ t[2][1] = -2 /\ t[2][2] = 1
          /\ t[3][1] = 1 /\ t[3][2] = 2 /\ t[4][1] = 2 /\ t[4][2] = -1
      BY <3>1 DEF TurnsZ
    <3> HIDE DEF t
    <3> QED  BY <3>2
  <2> QED  BY <2>1, <2>2, <2>3, <2>4, <2>5, <2>6 DEF Axis
<1> HIDE DEF t
<1>2. ASSUME NEW n \in 1 .. 4
      PROVE  /\ t[n][2] # t[n][1] /\ t[n][2] # -t[n][1]
             /\ \E k \in 1 .. 4 : t[k][1] = t[n][2] /\ t[k][2] = -t[n][1]
  <2>1. n = 1 \/ n = 2 \/ n = 3 \/ n = 4
    OBVIOUS
  <2>2. t[n][2] # t[n][1] /\ t[n][2] # -t[n][1]
    BY <1>1, <2>1
  <2>3. \/ t[1][1] = t[n][2] /\ t[1][2] = -t[n][1]
        \/ t[2][1] = t[n][2] /\ t[2][2] = -t[n][1]
        \/ t[3][1] = t[n][2] /\ t[3][2] = -t[n][1]
        \/ t[4][1] = t[n][2] /\ t[4][2] = -t[n][1]
    BY <1>1, <2>1
  <2> QED  BY <2>2, <2>3
<1>3. ASSUME NEW n \in 1 .. 4, NEW k \in 1 .. 4, n # k
      PROVE  t[n][1] # t[k][1]
  <2>1. n = 1 \/ n = 2 \/ n = 3 \/ n = 4
    OBVIOUS
  <2>2. k = 1 \/ k = 2 \/ k = 3 \/ k = 4
    OBVIOUS
  <2> QED  BY <1>1, <1>3, <2>1, <2>2
<1> QED  BY <1>2, <1>3 DEF t

\* A sprite is not at two opposite walls, and a step towards a wall it is not at
\* keeps it inside.
LEMMA OppositeWalls ==
  ASSUME SpriteAssumption, SpriteTypeOK, NEW h \in {-3, -2, -1, 1, 2, 3}, AtWall(h)
  PROVE  ~AtWall(-h)
<1>1. CASE h < 0
  <2>1. -h \in Axis /\ ~(-h < 0)
    BY <1>1 DEF Axis
  <2>2. place[-h] < 1
    BY <1>1 DEF AtWall
  <2> QED  BY <2>1, <2>2, Room DEF AtWall
<1>2. CASE h > 0
  <2>1. h \in Axis /\ -h < 0 /\ ~(h < 0) /\ -(-h) = h
    BY <1>2 DEF Axis
  <2>2. place[h] > Side - 1 - size[h]
    BY <2>1 DEF AtWall
  <2> QED  BY <2>1, <2>2, Room DEF AtWall
<1> QED  BY <1>1, <1>2

LEMMA StepInside ==
  ASSUME SpriteAssumption, SpriteTypeOK, Inside,
         NEW h \in {-3, -2, -1, 1, 2, 3}, ~AtWall(h), MoveBy(Unit(h))
  PROVE  /\ Inside'
         /\ \A g \in {-3, -2, -1, 1, 2, 3} : g # h /\ g # -h => AtWall(g)' = AtWall(g)
<1>1. \A a \in Axis : place'[a] = place[a] + Unit(h)[a]
  BY DEF MoveBy, Plus
<1>2. size' = size
  BY DEF MoveBy, shape
<1>3. ASSUME NEW a \in Axis
      PROVE  place'[a] \in 0 .. Side - size[a]
  <2>1. place[a] \in 0 .. Side - size[a]
    BY DEF Inside
  <2>2. place[a] > 0 \/ h # -a
    <3>1. ASSUME h = -a
          PROVE  h < 0 /\ -h = a
      BY <3>1 DEF Axis
    <3> QED  BY <3>1, Room DEF AtWall
  <2>3. place[a] < Side - size[a] \/ h # a
    BY Room DEF AtWall, Axis
  <2>4. Unit(h)[a] = IF a = h THEN 1 ELSE IF a = -h THEN -1 ELSE 0
    BY UnitSteps
  <2>5. place'[a] = place[a] + Unit(h)[a] /\ a \in Int
    BY <1>1 DEF Axis
  <2> QED  BY <2>1, <2>2, <2>3, <2>4, <2>5, Room
<1>4. ASSUME NEW g \in {-3, -2, -1, 1, 2, 3}, g # h, g # -h
      PROVE  AtWall(g)' = AtWall(g)
  <2>1. ASSUME NEW a \in Axis, a = g \/ a = -g
        PROVE  place'[a] = place[a]
    BY <1>1, <1>4, <2>1, Room, UnitSteps
  <2> QED  BY <1>2, <2>1 DEF AtWall, Axis
<1> QED  BY <1>2, <1>3, <1>4 DEF Inside

\* A roll on its track takes one step along it: straight on, or, at the wall it
\* was heading for, along that wall. Only one of the four turns applies, since the
\* sprite is not at the wall the second heading leads to.
LEMMA RollStep ==
  ASSUME SpriteAssumption, SpriteTypeOK, NEW axis \in Axis, NEW dir \in {0, 1},
         OnTrack(axis, dir), sprite_roll(axis, dir)
  PROVE  OnTrack(axis, dir)'
<1> DEFINE t == Turns(axis, dir)
           H == {-3, -2, -1, 1, 2, 3}
<1>1. /\ \A n \in 1 .. 4 :
           /\ t[n][2] # t[n][1] /\ t[n][2] # -t[n][1]
           /\ \E k \in 1 .. 4 : t[k][1] = t[n][2] /\ t[k][2] = -t[n][1]
      /\ \A n, k \in 1 .. 4 : n # k => t[n][1] # t[k][1]
  BY TurnsGoRound
<1>2. \A n \in 1 .. 4 : t[n][1] \in H /\ t[n][2] \in H
  BY TurnHeadings
<1>3. Turns(axis, dir)' = t
  BY DEF Turns, TurnsX, TurnsY, TurnsZ
<1> HIDE DEF t
<1>4. PICK n \in 1 .. 4 : motion = Unit(t[n][1]) /\ ~AtWall(t[n][2])
  BY DEF OnTrack, t
<1>5. Inside
  BY DEF OnTrack
<1>6. /\ t[n][2] # t[n][1] /\ t[n][2] # -t[n][1]
      /\ \E k \in 1 .. 4 : t[k][1] = t[n][2] /\ t[k][2] = -t[n][1]
  BY <1>1
\* what the roll makes of the motion
<1>7. ASSUME NEW k \in 1 .. 4, NEW h \in H, h # t[k][1] \/ ~AtWall(h)
      PROVE  Turned(t[k], Unit(h)) = Unit(h)
  BY <1>2, <1>7, UnitsDiffer DEF Turned
<1>8. ASSUME AtWall(t[n][1])
      PROVE  Turned(t[n], Unit(t[n][1])) = Unit(t[n][2])
  BY <1>8 DEF Turned
<1>9. motion' = IF AtWall(t[n][1]) THEN Unit(t[n][2]) ELSE Unit(t[n][1])
  <2>1. motion' = Turned(t[4], Turned(t[3], Turned(t[2], Turned(t[1], Unit(t[n][1])))))
    <3>1. Rolling(axis, dir)
      BY <1>4 DEF Rolling, t
    <3> QED  BY <1>4, <3>1 DEF sprite_roll, Rolled, t
  <2>2. CASE ~AtWall(t[n][1])
    BY <1>2, <1>7, <2>1, <2>2
  <2>3. CASE AtWall(t[n][1])
    <3>1. \A k \in 1 .. 4 : Turned(t[k], Unit(t[n][2])) = Unit(t[n][2])
      BY <1>2, <1>4, <1>7
    <3>2. \A k \in 1 .. 4 : k # n => Turned(t[k], Unit(t[n][1])) = Unit(t[n][1])
      <4>1. \A k \in 1 .. 4 : k # n => t[k][1] # t[n][1]
        BY <1>1
      <4> QED  BY <1>2, <1>7, <4>1
    <3>3. CASE n = 1  BY <1>8, <2>1, <2>3, <3>1, <3>3
    <3>4. CASE n = 2  BY <1>8, <2>1, <2>3, <3>1, <3>2, <3>4
    <3>5. CASE n = 3  BY <1>8, <2>1, <2>3, <3>1, <3>2, <3>5
    <3>6. CASE n = 4  BY <1>8, <2>1, <2>3, <3>1, <3>2, <3>6
    <3> QED  BY <3>3, <3>4, <3>5, <3>6
  <2> QED  BY <2>2, <2>3
<1>10. CASE ~AtWall(t[n][1])
  <2>1. motion' = Unit(t[n][1]) /\ MoveBy(Unit(t[n][1]))
    BY <1>9, <1>10 DEF sprite_roll
  <2>2. Inside' /\ AtWall(t[n][2])' = AtWall(t[n][2])
    BY <1>2, <1>5, <1>6, <1>10, <2>1, StepInside
  <2> QED  BY <1>3, <1>4, <2>1, <2>2 DEF OnTrack, Unit, AtWall
<1>11. CASE AtWall(t[n][1])
  <2>1. motion' = Unit(t[n][2]) /\ MoveBy(Unit(t[n][2]))
    BY <1>9, <1>11 DEF sprite_roll
  <2>2. PICK k \in 1 .. 4 : t[k][1] = t[n][2] /\ t[k][2] = -t[n][1]
    BY <1>6
  <2>3. ~AtWall(t[k][2])
    BY <1>2, <1>11, <2>2, OppositeWalls
  <2>4. Inside' /\ AtWall(t[k][2])' = AtWall(t[k][2])
    <3>1. t[k][2] # t[n][2] /\ t[k][2] # -t[n][2]
      BY <1>2, <1>6, <2>2
    <3> QED  BY <1>2, <1>4, <1>5, <2>1, <3>1, StepInside
  <2> QED  BY <1>3, <2>1, <2>2, <2>3, <2>4 DEF OnTrack, Unit, AtWall
<1> QED  BY <1>10, <1>11

\* RollStaysInside, for a sprite of any size and about every axis: rolling never
\* leaves the cube, nor the track round it.
THEOREM RollCorrect == SpriteSpec => RollStaysInside
<1>1. SpriteTypeOK /\ [SpriteNext]_spriteVars
        => [\A axis \in Axis, dir \in {0, 1} :
              OnTrack(axis, dir) /\ sprite_roll(axis, dir)
                => OnTrack(axis, dir)']_spriteVars
  BY RollStep, SpriteAssumption
<1> QED  BY <1>1, SpriteTypeCorrect, PTL DEF SpriteSpec, RollStaysInside

-----------------------------------------------------------------------------
(* What a rotation turns.                                                  *)

\* What is seen at a position is read layer first, and from the top.
LEMMA LookAt ==
  ASSUME NEW d, NEW q \in [Axis -> Int]
  PROVE  Look(d, q) = d[size[3] - 1 - q[3]][q[1]][q[2]]
  BY DEF Look, CellOf, Axis

\* The numbers of a position in the body, and of its mirror image.
LEMMA Mirrored ==
  ASSUME SpriteAssumption, SpriteTypeOK, NEW q \in Body, NEW a \in Axis
  PROVE  LET m == size[a] - 1 - q[a]
         IN  /\ q[a] \in Int /\ size[a] \in Int /\ m \in Int
             /\ q[a] \in Edge /\ q[a] < size[a]
             /\ m \in Edge /\ m < size[a]
             /\ size[a] - 1 - m = q[a]
<1>1. q[a] \in 0 .. size[a] - 1
  BY DEF Body, InBody
<1>2. size[a] \in 1 .. MaxSide /\ MaxSide \in Nat
  BY DEF SpriteAssumption, SpriteTypeOK
<1>3. ASSUME NEW n \in 1 .. MaxSide, NEW k \in 0 .. n - 1
      PROVE  /\ k \in Int /\ n \in Int /\ n - 1 - k \in Int
             /\ k \in Edge /\ k < n /\ n - 1 - k \in Edge /\ n - 1 - k < n
             /\ n - 1 - (n - 1 - k) = k
  BY <1>2 DEF Edge
<1> QED  BY <1>1, <1>2, <1>3

LEMMA PositionIsInt ==
  ASSUME SpriteAssumption, SpriteTypeOK, NEW q \in Body, NEW axis \in Axis
  PROVE  q \in [Axis -> Int] /\ Quarter(axis, q) \in [Axis -> Int]
<1>1. q \in [Axis -> Int]
  BY DEF Body, Edge
<1>2. \A a \in Axis : size[a] - 1 - q[a] \in Int
  BY Mirrored
<1>3. \A a \in Axis : q[a] \in Int
  BY <1>1
<1> QED  BY <1>1, <1>2, <1>3 DEF Quarter, Axis

\* The rotations about the three axes: where the description is read for the cell
\* seen at a turned position, and for the one seen at a position of the other turn.
LEMMA QuarterX ==
  ASSUME SpriteAssumption, SpriteTypeOK, Square(1), NEW q \in Body
  PROVE  /\ Look(Rotated(1, 0), Quarter(1, q)) = Look(description, q)
         /\ Look(Rotated(1, 1), q) = Look(description, Quarter(1, q))
<1> DEFINE r == Quarter(1, q)
           m(a) == size[a] - 1 - q[a]
<1>1. \A a \in {1, 2, 3} :
        /\ q[a] \in Int /\ size[a] \in Int /\ m(a) \in Int
        /\ q[a] \in Edge /\ q[a] < size[a] /\ m(a) \in Edge /\ m(a) < size[a]
        /\ size[a] - 1 - m(a) = q[a]
  BY Mirrored DEF Axis
<1>2. size[2] = size[3]
  BY DEF Square, Axis
<1>3. q \in [Axis -> Int] /\ r \in [Axis -> Int]
  BY PositionIsInt DEF Axis
<1>4. r[1] = q[1] /\ r[2] = q[3] /\ r[3] = m(2)
  BY <1>3 DEF Quarter, Axis
<1>5. /\ Look(Rotated(1, 0), r) = RotatedX(0)[size[3] - 1 - r[3]][r[1]][r[2]]
      /\ Look(Rotated(1, 1), q) = RotatedX(1)[m(3)][q[1]][q[2]]
      /\ Look(description, q) = description[m(3)][q[1]][q[2]]
      /\ Look(description, r) = description[size[3] - 1 - r[3]][r[1]][r[2]]
  <2>1. Rotated(1, 0) = RotatedX(0) /\ Rotated(1, 1) = RotatedX(1)
    BY DEF Rotated
  <2> HIDE DEF r
  <2> QED
    BY <1>3, <2>1, LookAt
<1> HIDE DEF r
<1>6. size[3] - 1 - r[3] = q[2]
  BY <1>1, <1>2, <1>4
<1> HIDE DEF m
<1>7. RotatedX(0)[q[2]][q[1]][q[3]] = description[m(3)][q[1]][q[2]]
  BY <1>1, <1>2 DEF RotatedX, m
<1>8. RotatedX(1)[m(3)][q[1]][q[2]] = description[q[2]][q[1]][q[3]]
  BY <1>1, <1>2 DEF RotatedX, m
<1> QED  BY <1>4, <1>5, <1>6, <1>7, <1>8 DEF r

LEMMA QuarterY ==
  ASSUME SpriteAssumption, SpriteTypeOK, Square(2), NEW q \in Body
  PROVE  /\ Look(Rotated(2, 0), Quarter(2, q)) = Look(description, q)
         /\ Look(Rotated(2, 1), q) = Look(description, Quarter(2, q))
<1> DEFINE r == Quarter(2, q)
           m(a) == size[a] - 1 - q[a]
<1>1. \A a \in {1, 2, 3} :
        /\ q[a] \in Int /\ size[a] \in Int /\ m(a) \in Int
        /\ q[a] \in Edge /\ q[a] < size[a] /\ m(a) \in Edge /\ m(a) < size[a]
        /\ size[a] - 1 - m(a) = q[a]
  BY Mirrored DEF Axis
<1>2. size[1] = size[3]
  BY DEF Square, Axis
<1>3. q \in [Axis -> Int] /\ r \in [Axis -> Int]
  BY PositionIsInt DEF Axis
<1>4. r[1] = q[3] /\ r[2] = q[2] /\ r[3] = m(1)
  BY <1>3 DEF Quarter, Axis
<1>5. /\ Look(Rotated(2, 0), r) = RotatedY(0)[size[3] - 1 - r[3]][r[1]][r[2]]
      /\ Look(Rotated(2, 1), q) = RotatedY(1)[m(3)][q[1]][q[2]]
      /\ Look(description, q) = description[m(3)][q[1]][q[2]]
      /\ Look(description, r) = description[size[3] - 1 - r[3]][r[1]][r[2]]
  <2>1. Rotated(2, 0) = RotatedY(0) /\ Rotated(2, 1) = RotatedY(1)
    BY DEF Rotated
  <2> HIDE DEF r
  <2> QED
    BY <1>3, <2>1, LookAt
<1> HIDE DEF r
<1>6. size[3] - 1 - r[3] = q[1]
  BY <1>1, <1>2, <1>4
<1> HIDE DEF m
<1>7. RotatedY(0)[q[1]][q[3]][q[2]] = description[m(3)][q[1]][q[2]]
  BY <1>1, <1>2 DEF RotatedY, m
<1>8. RotatedY(1)[m(3)][q[1]][q[2]] = description[q[1]][q[3]][q[2]]
  BY <1>1, <1>2 DEF RotatedY, m
<1> QED  BY <1>4, <1>5, <1>6, <1>7, <1>8 DEF r

LEMMA QuarterZ ==
  ASSUME SpriteAssumption, SpriteTypeOK, Square(3), NEW q \in Body
  PROVE  /\ Look(Rotated(3, 0), Quarter(3, q)) = Look(description, q)
         /\ Look(Rotated(3, 1), q) = Look(description, Quarter(3, q))
<1> DEFINE r == Quarter(3, q)
           m(a) == size[a] - 1 - q[a]
<1>1. \A a \in {1, 2, 3} :
        /\ q[a] \in Int /\ size[a] \in Int /\ m(a) \in Int
        /\ q[a] \in Edge /\ q[a] < size[a] /\ m(a) \in Edge /\ m(a) < size[a]
        /\ size[a] - 1 - m(a) = q[a]
  BY Mirrored DEF Axis
<1>2. size[1] = size[2]
  BY DEF Square, Axis
<1>3. q \in [Axis -> Int] /\ r \in [Axis -> Int]
  BY PositionIsInt DEF Axis
<1>4. r[1] = q[2] /\ r[2] = m(1) /\ r[3] = q[3]
  BY <1>3 DEF Quarter, Axis
<1>5. /\ Look(Rotated(3, 0), r) = RotatedZ(0)[size[3] - 1 - r[3]][r[1]][r[2]]
      /\ Look(Rotated(3, 1), q) = RotatedZ(1)[m(3)][q[1]][q[2]]
      /\ Look(description, q) = description[m(3)][q[1]][q[2]]
      /\ Look(description, r) = description[size[3] - 1 - r[3]][r[1]][r[2]]
  <2>1. Rotated(3, 0) = RotatedZ(0) /\ Rotated(3, 1) = RotatedZ(1)
    BY DEF Rotated
  <2> HIDE DEF r
  <2> QED
    BY <1>3, <2>1, LookAt
<1> HIDE DEF r
<1>6. size[3] - 1 - r[3] = m(3)
  BY <1>1, <1>2, <1>4
<1> HIDE DEF m
<1>7. RotatedZ(0)[m(3)][q[2]][m(1)] = description[m(3)][q[1]][q[2]]
  BY <1>1, <1>2 DEF RotatedZ, m
<1>8. RotatedZ(1)[m(3)][q[1]][q[2]] = description[m(3)][q[2]][m(1)]
  BY <1>1, <1>2 DEF RotatedZ, m
<1> QED  BY <1>4, <1>5, <1>6, <1>7, <1>8 DEF r

\* RotateIsQuarter, for a sprite of any size: of every cell of a sprite that is
\* square in the plane it is rotated in, the rotation is a quarter turn, and the
\* rotation in the other direction is the turn back.
THEOREM RotateTurns == SpriteSpec => []RotateIsQuarter
<1>1. SpriteTypeOK => RotateIsQuarter
  BY QuarterX, QuarterY, QuarterZ, SpriteAssumption DEF RotateIsQuarter, Axis
<1> QED  BY <1>1, SpriteTypeCorrect, PTL

-----------------------------------------------------------------------------
(* What is never seen.                                                     *)

Cubic == size[1] = size[2] /\ size[2] = size[3]

\* In a cubic sprite the cells that are drawn are the ones that are painted.
LEMMA CleanCube ==
  ASSUME SpriteAssumption, SpriteTypeOK, Cubic
  PROVE  Clean <=> \A i, j, k \in 0 .. size[1] - 1 : description[i][j][k] # Junk
<1>1. size[1] \in 1 .. MaxSide /\ MaxSide \in Nat
  BY DEF SpriteAssumption, SpriteTypeOK, Axis
<1>2. ASSUME Clean, NEW i \in 0 .. size[1] - 1, NEW j \in 0 .. size[1] - 1,
             NEW k \in 0 .. size[1] - 1
      PROVE  description[i][j][k] # Junk
  <2> DEFINE q == [a \in Axis |-> IF a = 1 THEN j ELSE IF a = 2 THEN k ELSE i]
  <2>1. i \in Edge /\ j \in Edge /\ k \in Edge
    BY <1>1 DEF Edge
  <2>2. q \in [Axis -> Edge] /\ q[1] = j /\ q[2] = k /\ q[3] = i
    BY <2>1 DEF Axis
  <2>3. \A a \in Axis : q[a] \in 0 .. size[a] - 1
    BY DEF Cubic, Axis
  <2> HIDE DEF q
  <2>4. q \in Body
    BY <2>2, <2>3 DEF Body, InBody
  <2> QED  BY <1>2, <2>2, <2>4 DEF Clean, CellOf
<1>3. ASSUME \A i, j, k \in 0 .. size[1] - 1 : description[i][j][k] # Junk,
             NEW q \in Body
      PROVE  CellOf(description, q) # Junk
  <2>1. /\ q[1] \in 0 .. size[1] - 1 /\ q[2] \in 0 .. size[1] - 1
        /\ q[3] \in 0 .. size[1] - 1
    BY DEF Body, InBody, Cubic, Axis
  <2> QED  BY <1>3, <2>1 DEF CellOf
<1> QED  BY <1>2, <1>3 DEF Clean

\* A cubic sprite that is painted shows the colour or black, whatever was there.
LEMMA PaintedIsClean ==
  ASSUME SpriteAssumption, SpriteTypeOK, SpriteTypeOK', Cubic,
         NEW cells, NEW c \in Paints, Describe(Painted(cells, c))
  PROVE  Clean'
<1>1. size' = size /\ description' = Painted(cells, c) /\ Cubic'
  BY DEF Describe, Cubic
<1>2. c # Junk /\ Black # Junk
  BY DEF SpriteAssumption, Black, Junk
<1>3. size[1] \in 1 .. MaxSide /\ MaxSide \in Nat
  BY DEF SpriteAssumption, SpriteTypeOK, Axis
<1>4. ASSUME NEW i \in 0 .. size[1] - 1, NEW j \in 0 .. size[1] - 1,
             NEW k \in 0 .. size[1] - 1
      PROVE  Painted(cells, c)[i][j][k] # Junk
  <2>1. i \in Edge /\ j \in Edge /\ k \in Edge
    BY <1>3 DEF Edge
  <2>2. i < size[1] /\ j < size[2] /\ k < size[3]
    BY <1>3 DEF Cubic
  <2> QED  BY <1>2, <2>1, <2>2 DEF Painted
<1>5. (\A i, j, k \in 0 .. size[1] - 1 : description[i][j][k] # Junk)'
  BY <1>1, <1>4
<1> QED  BY <1>1, <1>5, CleanCube, PTL

\* A rotation of a cubic sprite fills it with cells of the sprite.
LEMMA RotatedIsClean ==
  ASSUME SpriteAssumption, SpriteTypeOK, Cubic, Clean,
         NEW axis \in Axis, NEW dir \in {0, 1},
         NEW i \in 0 .. size[1] - 1, NEW j \in 0 .. size[1] - 1,
         NEW k \in 0 .. size[1] - 1
  PROVE  Rotated(axis, dir)[i][j][k] # Junk
<1> DEFINE n == size[1]
           m(l) == n - 1 - l
<1>1. n \in 1 .. MaxSide /\ MaxSide \in Nat /\ size[2] = n /\ size[3] = n
  BY DEF SpriteAssumption, SpriteTypeOK, Axis, Cubic
<1>2. \A x, y, z \in 0 .. n - 1 : description[x][y][z] # Junk
  BY CleanCube
<1>3. /\ i \in Edge /\ j \in Edge /\ k \in Edge
      /\ i < n /\ j < n /\ k < n
      /\ m(i) \in 0 .. n - 1 /\ m(j) \in 0 .. n - 1 /\ m(k) \in 0 .. n - 1
  BY <1>1 DEF Edge
<1>4. RotatedX(dir)[i][j][k] # Junk
  BY <1>1, <1>2, <1>3 DEF RotatedX
<1>5. RotatedY(dir)[i][j][k] # Junk
  BY <1>1, <1>2, <1>3 DEF RotatedY
<1>6. RotatedZ(dir)[i][j][k] # Junk
  BY <1>1, <1>2, <1>3 DEF RotatedZ
<1> QED  BY <1>4, <1>5, <1>6 DEF Rotated

LEMMA CleanStep ==
  ASSUME SpriteAssumption, SpriteTypeOK, SpriteTypeOK', Cubic, Clean, SpriteNext
  PROVE  Clean'
<1>1. ASSUME UNCHANGED <<size, description>>
      PROVE  Clean'
  BY <1>1 DEF Clean, Body, InBody, CellOf
<1>2. CASE Colouring
  <2>1. ASSUME NEW c \in Paints,
               sprite_colorIt(c) \/ sprite_outline(c) \/ sprite_sphere(c)
        PROVE  Clean'
    BY <2>1, PaintedIsClean DEF sprite_colorIt, sprite_outline, sprite_sphere
  <2>2. ASSUME NEW d \in Descriptions, sprite_description(d)
        PROVE  Clean'
    <3>1. description' = d /\ size' = size
      BY <2>2 DEF sprite_description, Describe
    <3>2. \A i, j, k \in Edge : d[i][j][k] # Junk
      <4>1. d \in [Edge -> [Edge -> [Edge -> Paints \cup {Black}]]]
        BY DEF SpriteAssumption
      <4>2. Junk \notin Paints \cup {Black}
        BY DEF SpriteAssumption, Black, Junk
      <4> QED  BY <4>1, <4>2
    <3>3. ASSUME NEW q \in Body
          PROVE  CellOf(d, q) # Junk
      BY <3>2 DEF Body, CellOf, Axis
    <3>4. Body' = Body
      BY <3>1 DEF Body, InBody
    <3> QED  BY <3>1, <3>3, <3>4 DEF Clean, CellOf
  <2>3. ASSUME NEW i \in Intensities, sprite_ChgIntensity(i)
        PROVE  Clean'
    BY <1>1, <2>3 DEF sprite_ChgIntensity, shape
  <2> QED  BY <1>2, <2>1, <2>2, <2>3 DEF Colouring
<1>3. CASE Placing
  BY <1>1, <1>3
  DEF Placing, sprite_place, sprite_motion, sprite_setIt, sprite_clearIt,
      clearCube, shape
<1>4. CASE Moving
  BY <1>1, <1>4 DEF Moving, sprite_moveIt, sprite_bounceIt, sprite_roll, MoveBy, shape
<1>5. ASSUME NEW axis \in Axis, NEW dir \in {0, 1}, sprite_rotate(axis, dir)
      PROVE  Clean'
  <2>1. size' = size /\ description' = Rotated(axis, dir) /\ Cubic'
    BY <1>5 DEF sprite_rotate, Cubic
  <2>2. (\A i, j, k \in 0 .. size[1] - 1 : description[i][j][k] # Junk)'
    BY <2>1, RotatedIsClean
  <2> QED  BY <2>1, <2>2, CleanCube, PTL
<1> QED  BY <1>2, <1>3, <1>4, <1>5 DEF SpriteNext

\* NoJunkShown, for cubes of any size: once one is painted it never shows the
\* memory it was made of, however it is rotated, moved and repainted after.
THEOREM PaintedStaysClean == SpriteSpec => NoJunkShown
<1>1. ASSUME SpriteTypeOK, SpriteTypeOK', Cubic, SpriteNext,
             \/ Clean
             \/ \E c \in Paints : sprite_colorIt(c) \/ sprite_outline(c) \/ sprite_sphere(c)
      PROVE  Clean'
  <2>1. CASE Clean
    BY <1>1, <2>1, CleanStep, SpriteAssumption
  <2>2. ASSUME NEW c \in Paints,
               sprite_colorIt(c) \/ sprite_outline(c) \/ sprite_sphere(c)
        PROVE  Clean'
    BY <1>1, <2>2, PaintedIsClean, SpriteAssumption
    DEF sprite_colorIt, sprite_outline, sprite_sphere
  <2> QED  BY <1>1, <2>1, <2>2
<1>2. SpriteTypeOK /\ SpriteTypeOK' /\ [SpriteNext]_spriteVars
        => [/\ size[1] = size[2] /\ size[2] = size[3]
            /\ \/ Clean
               \/ \E c \in Paints :
                    sprite_colorIt(c) \/ sprite_outline(c) \/ sprite_sphere(c)
            => Clean']_spriteVars
  BY <1>1 DEF Cubic
<1> QED  BY <1>2, SpriteTypeCorrect, PTL DEF SpriteSpec, NoJunkShown
=============================================================================
