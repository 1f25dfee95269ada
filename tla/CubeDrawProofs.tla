--------------------------- MODULE CubeDrawProofs ---------------------------
(***************************************************************************)
(* Proofs about the drawing routines, for a cube of any size, any number   *)
(* of brightness levels and any calls.                                     *)
(***************************************************************************)
EXTENDS CubeDraw, FiniteSetTheorems, TLAPS

-----------------------------------------------------------------------------
(* Colours and images are well formed.                                     *)

\* Black is a colour, and a dark cube an image.
LEMMA DarkImage == Black \in Colour /\ Dark \in Image
  BY CubeAssumption DEF Black, Dark, Colour, Image, Level

\* Whatever integers a caller asks for, a component that is stored is in range:
\* the conversion to a byte makes it non-negative, the cap bounds it.
LEMMA StoredColour ==
  ASSUME NEW c \in [Channel -> Int]
  PROVE  Stored(c) \in Colour
<1>1. ASSUME NEW ch \in Channel
      PROVE  Clamp(Byte(c[ch])) \in Level
  BY CubeAssumption DEF Clamp, Byte, Level
<1> QED
  BY <1>1 DEF Stored, Colour

\* What a routine can be asked for is a function to the integers.
LEMMA PaintIsInt == Paint \subseteq [Channel -> Int]
<1>1. [Channel -> RawLevels] \subseteq [Channel -> Int]
  BY CubeAssumption
<1>2. ASSUME NEW p \in [Channel -> RawLevels]
      PROVE  [ch \in Channel |-> Clamp(p[ch])] \in [Channel -> Int]
  BY <1>1, CubeAssumption DEF Clamp
<1> QED
  BY <1>1, <1>2 DEF Paint

\* The drawing operations keep an image well formed.
LEMMA FillImage ==
  ASSUME NEW img \in Image, NEW region, NEW c \in [Channel -> Int]
  PROVE  Fill(img, region, c) \in Image
  BY StoredColour DEF Fill, Image

\* A halved component is in range: cube_fade.
LEMMA FadedImage ==
  ASSUME NEW img \in Image, NEW bits \in 0 .. 6
  PROVE  Faded(img, bits) \in Image
<1>1. ASSUME NEW v \in Level, NEW w \in {1, 2, 4, 8, 16, 32, 64}
      PROVE  v \div w \in Level
  BY CubeAssumption DEF Level
<1>2. Halvings[bits + 1] \in {1, 2, 4, 8, 16, 32, 64}
  BY DEF Halvings
<1>3. \A q \in Pos, ch \in Channel : img[q][ch] \in Level
  BY DEF Image, Colour
<1> QED
  BY <1>1, <1>2, <1>3 DEF Faded, Image, Colour

\* What moves is in range and what is left behind is black: cube_translate.
LEMMA ShiftedImage ==
  ASSUME NEW img \in Image, NEW d
  PROVE  Shifted(img, d) \in Image
  BY DarkImage DEF Shifted, Image

\* What a plane draws has been cut and capped: cube_plane.
LEMMA PlaneDrawnImage ==
  ASSUME NEW img \in Image, NEW plane \in Planes, NEW index,
         NEW grid \in [GridOf(plane) -> [Channel -> Int]]
  PROVE  PlaneDrawn(img, plane, index, grid) \in Image
<1>1. ASSUME NEW q \in Pos,
             \E g \in GridOf(plane) : OnPlane(plane, index, g) = q
      PROVE  Stored(grid[CHOOSE g \in GridOf(plane) :
                            OnPlane(plane, index, g) = q]) \in Colour
  BY <1>1, StoredColour
<1> QED
  BY <1>1 DEF PlaneDrawn, Image

\* Among the columns and panels an angle takes to one place there is a last
\* one in the order of cube_rotate_layer's loops: the choice in Rotated is
\* one of them.
LEMMA LastLandingExists ==
  ASSUME NEW L \in SUBSET (Col \X Panel), L # {}
  PROVE  \E s \in L : \A r \in L : DrawnAfter(s, r)
<1> DEFINE After(s) == {r \in L : ~DrawnAfter(s, r)}
           F == {After(s) : s \in L}
<1>1. IsFiniteSet(L)
  <2>1. Col \in SUBSET Int /\ IsFiniteSet(Col) /\ IsFiniteSet(Panel)
    BY CubeAssumption, FS_Interval DEF Col, Panel
  <2>2. IsFiniteSet(Col \X Panel)
    BY <2>1, FS_Product
  <2> QED
    BY <2>2, FS_Subset
<1>2. F \subseteq FiniteSubsetsOf(L) /\ F # {}
  <2>1. ASSUME NEW s \in L
        PROVE  After(s) \in SUBSET L /\ IsFiniteSet(After(s))
    BY <1>1, FS_Subset
  <2> QED
    BY <2>1 DEF FiniteSubsetsOf
<1>3. \E X \in F : \A Y \in F : ~(<<Y, X>> \in StrictSubsetOrdering(L))
  <2> HIDE DEF F
  <2> QED
    BY <1>2, FS_StrictSubsetOrderingWellFounded, WFMin
<1>4. PICK s \in L :
        \A r \in L : ~(<<After(r), After(s)>> \in StrictSubsetOrdering(L))
  BY <1>3
<1>5. ASSUME NEW r \in L, ~DrawnAfter(s, r)
      PROVE  FALSE
  <2>1. /\ s[1] \in Int /\ s[2] \in Int /\ r[1] \in Int /\ r[2] \in Int
        /\ \A t \in L : t[1] \in Int /\ t[2] \in Int
    BY CubeAssumption DEF Col, Panel
  <2>2. DrawnAfter(r, r) /\ DrawnAfter(r, s)
    BY <2>1, <1>5 DEF DrawnAfter
  <2>3. \A t \in L : ~DrawnAfter(r, t) => ~DrawnAfter(s, t)
    BY <2>1, <1>5 DEF DrawnAfter
  <2>4. After(r) \subseteq After(s) /\ r \in After(s) /\ r \notin After(r)
    BY <1>5, <2>2, <2>3
  <2>5. <<After(r), After(s)>> \in StrictSubsetOrdering(L)
    BY <2>4 DEF StrictSubsetOrdering
  <2> QED
    BY <1>4, <2>5
<1> QED
  BY <1>5

\* A rotation draws LEDs of the image, or black: cube_rotate.
LEMMA RotatedImage ==
  ASSUME NEW img \in Image, NEW a
  PROVE  Rotated(img, a) \in Image
<1>1. ASSUME NEW q \in Pos, Landing(a, q) # {}
      PROVE  LET s == CHOOSE s \in Landing(a, q) :
                        \A r \in Landing(a, q) : DrawnAfter(s, r)
             IN  img[<<s[1], s[2], q[3]>>] \in Colour
  <2>1. \E s \in Landing(a, q) : \A r \in Landing(a, q) : DrawnAfter(s, r)
    BY <1>1, LastLandingExists DEF Landing
  <2> DEFINE s == CHOOSE s \in Landing(a, q) :
                    \A r \in Landing(a, q) : DrawnAfter(s, r)
  <2>2. s \in Col \X Panel
    BY <2>1 DEF Landing
  <2>3. <<s[1], s[2], q[3]>> \in Pos
    BY <2>2 DEF Pos
  <2> QED
    BY <2>3 DEF Image
<1> QED
  BY <1>1, DarkImage DEF Rotated, Image

-----------------------------------------------------------------------------
(* Translation.                                                            *)

\* Not moving at all leaves an image as it is.
LEMMA ShiftByNothing ==
  ASSUME NEW img \in Image
  PROVE  Shifted(img, <<0, 0, 0>>) = img
<1>1. ASSUME NEW q \in Pos
      PROVE  Back(q, <<0, 0, 0>>) = q
  <2>1. /\ q = <<q[1], q[2], q[3]>>
        /\ q[1] \in Int /\ q[2] \in Int /\ q[3] \in Int
    BY CubeAssumption DEF Pos, Col, Panel, Layer
  <2> QED
    BY <2>1 DEF Back
<1> QED
  BY <1>1 DEF Shifted, Image

\* A pass of cube_translate shifts the cube; the copy to the buffer before it
\* is what makes this so.
LEMMA PassShifts ==
  ASSUME NEW s \in [cube : Image, buffer : Image], NEW d
  PROVE  /\ Pass(s, d) \in [cube : Image, buffer : Image]
         /\ Pass(s, d).cube = Shifted(s.cube, d)
<1>1. CASE d = <<0, 0, 0>>
  BY <1>1, ShiftByNothing DEF Pass
<1>2. CASE d # <<0, 0, 0>>
  BY <1>2, ShiftedImage DEF Pass, Copied
<1> QED
  BY <1>1, <1>2

\* Three shifts along the three axes are one shift: an LED the last would take
\* from off the grid is off the grid for the one shift too.
LEMMA ShiftsCompose ==
  ASSUME NEW img \in Image, NEW x \in Int, NEW y \in Int, NEW z \in Int
  PROVE  Shifted(Shifted(Shifted(img, <<x, 0, 0>>), <<0, y, 0>>), <<0, 0, z>>)
           = Shifted(img, <<x, y, z>>)
<1> DEFINE one == Shifted(img, <<x, 0, 0>>)
           two == Shifted(one, <<0, y, 0>>)
           three == Shifted(two, <<0, 0, z>>)
           all == Shifted(img, <<x, y, z>>)
<1>1. ASSUME NEW a \in Col, NEW b \in Panel, NEW c \in Layer
      PROVE  three[<<a, b, c>>] = all[<<a, b, c>>]
  <2>1. <<a, b, c>> \in Pos /\ a \in Int /\ b \in Int /\ c \in Int
    BY CubeAssumption DEF Pos, Col, Panel, Layer
  <2>2. /\ Back(<<a, b, c>>, <<0, 0, z>>) = <<a, b, c - z>>
        /\ Back(<<a, b, c - z>>, <<0, y, 0>>) = <<a, b - y, c - z>>
        /\ Back(<<a, b - y, c - z>>, <<x, 0, 0>>) = <<a - x, b - y, c - z>>
        /\ Back(<<a, b, c>>, <<x, y, z>>) = <<a - x, b - y, c - z>>
    BY <2>1 DEF Back
  <2>3. /\ <<a, b, c - z>> \in Pos <=> c - z \in Layer
        /\ <<a, b - y, c - z>> \in Pos <=> b - y \in Panel /\ c - z \in Layer
        /\ <<a - x, b - y, c - z>> \in Pos
             <=> a - x \in Col /\ b - y \in Panel /\ c - z \in Layer
    BY DEF Pos
  <2>4. three[<<a, b, c>>] = IF c - z \in Layer THEN two[<<a, b, c - z>>] ELSE Black
    BY <2>1, <2>2, <2>3 DEF Shifted
  <2>5. c - z \in Layer =>
          two[<<a, b, c - z>>]
            = IF b - y \in Panel THEN one[<<a, b - y, c - z>>] ELSE Black
    BY <2>2, <2>3 DEF Shifted
  <2>6. c - z \in Layer /\ b - y \in Panel =>
          one[<<a, b - y, c - z>>]
            = IF a - x \in Col THEN img[<<a - x, b - y, c - z>>] ELSE Black
    BY <2>2, <2>3 DEF Shifted
  <2>7. all[<<a, b, c>>] = IF a - x \in Col /\ b - y \in Panel /\ c - z \in Layer
                           THEN img[<<a - x, b - y, c - z>>] ELSE Black
    BY <2>1, <2>2, <2>3 DEF Shifted
  <2> QED
    BY <2>4, <2>5, <2>6, <2>7
<1>2. \A q \in Pos : three[q] = all[q]
  BY <1>1 DEF Pos
<1> QED
  BY <1>2 DEF Shifted

\* cube_translate ends with the cube shifted by all three distances, whatever
\* they are and whatever the buffer held.
LEMMA TranslatedIsShifted ==
  ASSUME cube \in Image, buffer_cube \in Image,
         NEW x \in Int, NEW y \in Int, NEW z \in Int
  PROVE  /\ Translated(x, y, z) \in [cube : Image, buffer : Image]
         /\ Translated(x, y, z).cube = Shifted(cube, <<x, y, z>>)
<1> DEFINE s0 == [cube |-> cube, buffer |-> buffer_cube]
           s1 == Pass(s0, <<x, 0, 0>>)
           s2 == Pass(s1, <<0, y, 0>>)
           s3 == Pass(s2, <<0, 0, z>>)
<1>1. /\ s1 \in [cube : Image, buffer : Image]
      /\ s1.cube = Shifted(cube, <<x, 0, 0>>)
  BY PassShifts
<1> HIDE DEF s1
<1>2. /\ s2 \in [cube : Image, buffer : Image]
      /\ s2.cube = Shifted(s1.cube, <<0, y, 0>>)
  BY <1>1, PassShifts
<1> HIDE DEF s2
<1>3. /\ s3 \in [cube : Image, buffer : Image]
      /\ s3.cube = Shifted(s2.cube, <<0, 0, z>>)
  BY <1>2, PassShifts
<1>4. s3.cube = Shifted(cube, <<x, y, z>>)
  BY <1>1, <1>2, <1>3, ShiftsCompose
<1> USE DEF s1, s2
<1> QED
  BY <1>3, <1>4 DEF Translated

-----------------------------------------------------------------------------
(* What holds of every run.                                                *)

\* Drawing an image where the flag says keeps both images well formed.
LEMMA DrawOnType ==
  ASSUME TypeOK, NEW buffer, NEW img \in Image, DrawOn(buffer, img)
  PROVE  TypeOK'
  BY DEF TypeOK, DrawOn

\* So does filling a region with a colour that was asked for.
LEMMA DrawType ==
  ASSUME TypeOK, NEW buffer, NEW region, NEW c \in [Channel -> Int],
         Draw(buffer, region, c)
  PROVE  TypeOK'
<1>1. Target(buffer) \in Image
  BY DEF TypeOK, Target
<1> QED
  BY <1>1, FillImage, DrawOnType DEF Draw

\* Each of the commands that fill a region does.
LEMMA DrawShapeType ==
  ASSUME TypeOK, NEW buffer, NEW c \in Paint, DrawShape(buffer, c)
  PROVE  TypeOK'
<1>1. c \in [Channel -> Int]
  BY PaintIsInt
<1>2. \E region : Draw(buffer, region, c)
  BY DEF DrawShape, LED, cube_row, cube_column, cube_panel, cube_layer,
         cube_slice, cube_fill, cube_sphere
<1> QED
  BY <1>1, <1>2, DrawType

\* So do those that change a whole image: clearing, fading, drawing a plane.
LEMMA DrawWholeType ==
  ASSUME TypeOK, NEW buffer, DrawWhole(buffer)
  PROVE  TypeOK'
<1>1. Target(buffer) \in Image
  BY DEF TypeOK, Target
<1>2. CASE cube_clear(buffer)
  <2>1. Black \in [Channel -> Int]
    BY DEF Black
  <2> QED
    BY <1>2, <2>1, DrawType DEF cube_clear, cube_fill
<1>3. CASE \E n \in Amounts : cube_fade(buffer, n)
  <2>1. PICK n \in Amounts : cube_fade(buffer, n)
    BY <1>3
  <2>2. Shifts(n) \subseteq 0 .. 6
    BY DEF Shifts
  <2>3. PICK bits \in 0 .. 6 : DrawOn(buffer, Faded(Target(buffer), bits))
    BY <2>1, <2>2 DEF cube_fade
  <2> QED
    BY <1>1, <2>3, FadedImage, DrawOnType
<1>4. CASE \E plane \in Planes : \E i \in PlaneIndices(plane) :
             \E grid \in Grids[plane] : cube_plane(buffer, plane, i, grid)
  <2>1. PICK plane \in Planes : \E i \in PlaneIndices(plane) :
          \E grid \in Grids[plane] : cube_plane(buffer, plane, i, grid)
    BY <1>4
  <2>2. PICK i \in PlaneIndices(plane) : \E g \in Grids[plane] :
          cube_plane(buffer, plane, i, g)
    BY <2>1
  <2>3. PICK grid \in Grids[plane] : cube_plane(buffer, plane, i, grid)
    BY <2>2
  <2>4. grid \in [GridOf(plane) -> [Channel -> Int]]
    BY GridAssumption
  <2>5. PlaneDrawn(Target(buffer), plane, i, grid) \in Image
    BY <1>1, <2>4, PlaneDrawnImage
  <2> QED
    BY <2>3, <2>5, DrawOnType DEF cube_plane
<1> QED
  BY <1>2, <1>3, <1>4 DEF DrawWhole

\* So do a translation and a rotation, which use both images.
LEMMA MoveCubeType ==
  ASSUME TypeOK, MoveCube
  PROVE  TypeOK'
<1>1. CASE \E x, y, z \in Steps : cube_translate(x, y, z)
  <2>1. PICK x \in Steps, y \in Steps, z \in Steps : cube_translate(x, y, z)
    BY <1>1
  <2>2. x \in Int /\ y \in Int /\ z \in Int
    BY CubeAssumption
  <2>3. Translated(x, y, z) \in [cube : Image, buffer : Image]
    BY <2>2, TranslatedIsShifted DEF TypeOK
  <2> QED
    BY <2>1, <2>3 DEF cube_translate, TypeOK
<1>2. CASE \E a \in Turns, use \in BOOLEAN : cube_rotate(a, use)
  BY <1>2, RotatedImage DEF cube_rotate, TypeOK
<1> QED
  BY <1>1, <1>2 DEF MoveCube

\* Every step of the drawing routines keeps both images well formed.
LEMMA NextType ==
  ASSUME TypeOK, [Next]_drawVars
  PROVE  TypeOK'
<1>1. CASE \E buffer \in BOOLEAN, c \in Paint : DrawShape(buffer, c)
  BY <1>1, DrawShapeType
<1>2. CASE \E buffer \in BOOLEAN : DrawWhole(buffer)
  BY <1>2, DrawWholeType
<1>3. CASE MoveCube
  BY <1>3, MoveCubeType
<1>4. CASE cube_buffer \/ cube_from_buffer \/ cube_buffer_clear
  BY <1>4, DarkImage DEF cube_buffer, cube_from_buffer, cube_buffer_clear, TypeOK
<1>5. CASE UNCHANGED drawVars
  BY <1>5 DEF drawVars, TypeOK
<1> QED
  BY <1>1, <1>2, <1>3, <1>4, <1>5 DEF Next

\* No sequence of drawing commands, with whatever colours, positions and
\* distances, makes a component brighter than the refresh thread can show.
THEOREM DrawTypeCorrect == Spec => []TypeOK
<1>1. Init => TypeOK
  BY DarkImage DEF Init, TypeOK
<1>2. TypeOK /\ [Next]_drawVars => TypeOK'
  BY NextType
<1> QED
  BY <1>1, <1>2, PTL DEF Spec

\* In every reachable state cube.translate is a single shift of the contents.
THEOREM TranslateCorrect == Spec => []TranslateIsShift
<1>1. TypeOK => TranslateIsShift
  BY TranslatedIsShifted, CubeAssumption DEF TypeOK, TranslateIsShift
<1> QED
  BY <1>1, DrawTypeCorrect, PTL

-----------------------------------------------------------------------------
(* Planes and rotation.                                                    *)

\* Each element of a plane has an LED of its own: the flips lose nothing.
LEMMA OnPlaneInjective ==
  ASSUME NEW plane \in Planes, NEW i \in PlaneIndices(plane),
         NEW g \in GridOf(plane)
  PROVE  /\ OnPlane(plane, i, g) \in Pos
         /\ \A h \in GridOf(plane) : OnPlane(plane, i, h) = OnPlane(plane, i, g) => h = g
<1>1. ASSUME NEW n \in Nat \ {0}, NEW v \in 0 .. n - 1
      PROVE  /\ v \in Int /\ n - 1 - v \in 0 .. n - 1
             /\ \A w \in 0 .. n - 1 : n - 1 - w = n - 1 - v => w = v
  OBVIOUS
<1>2. /\ \A v \in Panel : Panels - 1 - v \in Panel
      /\ \A v, w \in Panel : Panels - 1 - w = Panels - 1 - v => w = v
      /\ \A v \in Layer : Layers - 1 - v \in Layer
      /\ \A v, w \in Layer : Layers - 1 - w = Layers - 1 - v => w = v
  BY <1>1, CubeAssumption DEF Panel, Layer
<1>3. CASE plane = "panel"
  BY <1>2, <1>3 DEF GridOf, PlaneIndices, OnPlane, Pos
<1>4. CASE plane = "slice"
  BY <1>2, <1>4 DEF GridOf, PlaneIndices, OnPlane, Pos
<1>5. CASE plane = "layer"
  BY <1>2, <1>5 DEF GridOf, PlaneIndices, OnPlane, Pos
<1> QED
  BY <1>3, <1>4, <1>5 DEF Planes

\* The loops that read a plane visit its LEDs where the ones that draw it put
\* them.
LEMMA PlaneReadIsOnPlane ==
  ASSUME NEW img, NEW plane \in Planes, NEW i
  PROVE  PlaneRead(img, plane, i)
           = [g \in GridOf(plane) |-> img[OnPlane(plane, i, g)]]
<1>1. CASE plane = "panel"
  BY <1>1 DEF GridOf, PlaneRead, OnPlane
<1>2. CASE plane = "slice"
  BY <1>2 DEF GridOf, PlaneRead, OnPlane
<1>3. CASE plane = "layer"
  BY <1>3 DEF GridOf, PlaneRead, OnPlane
<1> QED
  BY <1>1, <1>2, <1>3 DEF Planes

\* In every reachable state each plane that cube.plane draws is read back as
\* the colours that were asked for, capped.
THEOREM PlaneCorrect == Spec => []PlaneReadsBack
<1>1. ASSUME NEW plane \in Planes, NEW i \in PlaneIndices(plane), NEW grid
      PROVE  PlaneRead(PlaneDrawn(cube, plane, i, grid), plane, i)
               = [g \in GridOf(plane) |-> Stored(grid[g])]
  <2>1. ASSUME NEW g \in GridOf(plane)
        PROVE  PlaneDrawn(cube, plane, i, grid)[OnPlane(plane, i, g)]
                 = Stored(grid[g])
    <3>1. /\ OnPlane(plane, i, g) \in Pos
          /\ (CHOOSE h \in GridOf(plane) :
                OnPlane(plane, i, h) = OnPlane(plane, i, g)) = g
      BY OnPlaneInjective
    <3> QED
      BY <3>1 DEF PlaneDrawn
  <2> QED
    BY <2>1, PlaneReadIsOnPlane
<1>2. PlaneReadsBack
  BY <1>1 DEF PlaneReadsBack
<1> QED
  BY <1>2, PTL

\* In every reachable state a rotation keeps every LED that can be kept on its
\* own layer, and leaves the others black.
THEOREM RotateCorrect == Spec => []RotateKeepsLayers
<1>1. ASSUME NEW a \in Turns, NEW q \in Pos
      PROVE  LET from == {s \in Col \X Panel : Turn[a][s] = <<q[1], q[2]>>}
             IN  IF from = {} THEN Rotated(cube, a)[q] = Black
                 ELSE \E s \in from :
                        Rotated(cube, a)[q] = cube[<<s[1], s[2], q[3]>>]
  <2>1. CASE Landing(a, q) = {}
    BY <2>1 DEF Rotated, Landing
  <2>2. CASE Landing(a, q) # {}
    <3>1. \E s \in Landing(a, q) : \A r \in Landing(a, q) : DrawnAfter(s, r)
      BY <2>2, LastLandingExists DEF Landing
    <3> DEFINE s == CHOOSE s \in Landing(a, q) :
                      \A r \in Landing(a, q) : DrawnAfter(s, r)
    <3>2. s \in Landing(a, q)
      BY <3>1
    <3>3. Rotated(cube, a)[q] = cube[<<s[1], s[2], q[3]>>]
      BY <2>2 DEF Rotated
    <3> HIDE DEF s
    <3> QED
      BY <2>2, <3>2, <3>3 DEF Landing
  <2> QED
    BY <2>1, <2>2
<1>2. RotateKeepsLayers
  BY <1>1 DEF RotateKeepsLayers
<1> QED
  BY <1>2, PTL
=============================================================================
