------------------------------ MODULE CubeDraw ------------------------------
(***************************************************************************)
(* The drawing routines of cube.c: the matrix the refresh thread displays, *)
(* the buffer a transaction is built in, and every routine that writes     *)
(* either of them.  Each routine runs in one thread (the interpreter, or   *)
(* an animation while the interpreter waits for it), so each is one step;  *)
(* what the refresh thread sees of a routine in progress is the subject of *)
(* CubeRefresh.                                                            *)
(*                                                                         *)
(* The three edges of the cube, all 8 in the code, are separate constants: *)
(* a run can then be small, and a routine that confuses two axes is found  *)
(* out.  A colour component of the code is 0..63; here it is 0..MaxLevel.  *)
(***************************************************************************)
EXTENDS Integers

CONSTANTS
  Cols, Panels, Layers,  \* the number of columns, panels and layers
  Channel,               \* the colour components, RED, GREEN and BLUE
  MaxLevel,              \* the largest brightness of a component
  ByteMod,               \* the number of values of a uint8_t
  RawLevels,             \* the component values callers pass
  Indices,               \* the columns, panels and layers callers name
  Steps,                 \* the distances callers translate by
  Amounts,               \* the amounts callers fade by
  Diameters,             \* the diameters of the spheres callers draw
  Grids,                 \* the planes callers draw
  Turns,                 \* the angles callers rotate by
  Turn                   \* where an angle takes each column and panel

Col   == 0 .. Cols - 1
Panel == 0 .. Panels - 1
Layer == 0 .. Layers - 1
Pos   == Col \X Panel \X Layer
Level == 0 .. MaxLevel
Colour == [Channel -> Level]
Image == [Pos -> Colour]
\* The LED routines cap a component at the brightest level.
Clamp(v) == IF v > MaxLevel THEN MaxLevel ELSE v

\* The colours a routine can be asked for: a pen or an element of a plane is
\* passed on as it is, components given as arguments are capped first.
Paint == [Channel -> RawLevels] \cup
         {[ch \in Channel |-> Clamp(p[ch])] : p \in [Channel -> RawLevels]}

ASSUME CubeAssumption ==
  /\ Cols \in Nat \ {0} /\ Panels \in Nat \ {0} /\ Layers \in Nat \ {0}
  /\ MaxLevel \in 0 .. 63 /\ ByteMod \in Nat \ {0} /\ MaxLevel < ByteMod
  /\ RawLevels \subseteq Int /\ Indices \subseteq Int /\ Steps \subseteq Int
  /\ Diameters \subseteq Int /\ Amounts \subseteq Int
  /\ Turn \in [Turns -> [Col \X Panel -> Int \X Int]]

VARIABLES cube, buffer_cube

drawVars == <<cube, buffer_cube>>

-----------------------------------------------------------------------------
(* Colours and single LEDs.                                                *)

Black == [ch \in Channel |-> 0]
Dark == [q \in Pos |-> Black]

\* The long a command parses becomes a uint8_t parameter, and is then capped.
Byte(v) == v % ByteMod
\* (mutant) the cap forgotten
StoredUncapped(colour) == [ch \in Channel |-> Byte(colour[ch])]
Stored(colour) == [ch \in Channel |-> Clamp(Byte(colour[ch]))]

\* The image with every position of a region set to one colour.  A region
\* named by an index off the grid is empty: the LED routines ignore it.
Fill(img, region, colour) ==
  [q \in Pos |-> IF q \in region THEN Stored(colour) ELSE img[q]]

LEDAt(col, panel, layer) == {<<col, panel, layer>>} \cap Pos
RowOf(panel, layer) == {q \in Pos : q[2] = panel /\ q[3] = layer}
ColumnOf(col, panel) == {q \in Pos : q[1] = col /\ q[2] = panel}
PanelOf(panel) == {q \in Pos : q[2] = panel}
LayerOf(layer) == {q \in Pos : q[3] = layer}
SliceOf(col) == {q \in Pos : q[1] = col}

\* sqrt(s) < d / 2, in integers.
SphereOf(x, y, z, d) ==
  {q \in Pos :
    /\ d > 0
    /\ 4 * ((q[1]-x)*(q[1]-x) + (q[2]-y)*(q[2]-y) + (q[3]-z)*(q[3]-z)) < d * d}

-----------------------------------------------------------------------------
(* Operations on a whole image.                                            *)

\* x >> bits, for a component of six bits: a shift by more is as one by six.
Halvings == <<1, 2, 4, 8, 16, 32, 64>>
Faded(img, bits) ==
  [q \in Pos |-> [ch \in Channel |-> img[q][ch] \div Halvings[bits + 1]]]
\* cube.fade documents the amounts of 1 to 5 and takes any.  A shift by less
\* than nothing or by more than 31 is undefined; the machine shifts by some
\* amount, the same for all LEDs.
Shifts(amount) ==
  IF amount \in 0 .. 5 THEN {amount}
  ELSE IF amount \in 6 .. 31 THEN {6} ELSE 0 .. 6

\* Every LED of an image set from the LED a step back; off the grid is black.
Back(q, d) == <<q[1] - d[1], q[2] - d[2], q[3] - d[3]>>
Shifted(img, d) ==
  [q \in Pos |-> IF Back(q, d) \in Pos THEN img[Back(q, d)] ELSE Black]

\* The planes of cube_plane: the position an element of the grid is drawn
\* at.  Rows of the grid count down from the top layer, and a slice or a
\* layer is seen with its panels counted from the back.
Planes == {"panel", "slice", "layer"}
GridOf(plane) ==
  CASE plane = "panel" -> Col \X Layer
    [] plane = "slice" -> Panel \X Layer
    [] plane = "layer" -> Col \X Panel
PlaneIndices(plane) ==
  CASE plane = "panel" -> Panel
    [] plane = "slice" -> Col
    [] plane = "layer" -> Layer
\* (mutant) the panels of a slice drawn front to back
OnPlaneUnflipped(plane, index, g) ==
  CASE plane = "panel" -> <<g[1], index, Layers - 1 - g[2]>>
    [] plane = "slice" -> <<index, g[1], Layers - 1 - g[2]>>
    [] plane = "layer" -> <<g[1], Panels - 1 - g[2], index>>
OnPlane(plane, index, g) ==
  CASE plane = "panel" -> <<g[1], index, Layers - 1 - g[2]>>
    [] plane = "slice" -> <<index, Panels - 1 - g[1], Layers - 1 - g[2]>>
    [] plane = "layer" -> <<g[1], Panels - 1 - g[2], index>>
PlaneDrawn(img, plane, index, grid) ==
  [q \in Pos |->
     IF \E g \in GridOf(plane) : OnPlane(plane, index, g) = q
     THEN Stored(grid[CHOOSE g \in GridOf(plane) : OnPlane(plane, index, g) = q])
     ELSE img[q]]

\* The shell refuses a plane that is not a full grid of colours.
ASSUME GridAssumption ==
  \A plane \in Planes : Grids[plane] \subseteq [GridOf(plane) -> [Channel -> Int]]

\* What cube.plane returns for a plane; it looks the positions up by loops of
\* its own, whatever the transaction in progress always in the cube.
PlaneRead(img, plane, index) ==
  CASE plane = "panel" ->
         [g \in Col \X Layer |-> img[<<g[1], index, Layers - 1 - g[2]>>]]
    [] plane = "slice" ->
         [g \in Panel \X Layer |->
            img[<<index, Panels - 1 - g[1], Layers - 1 - g[2]>>]]
    [] plane = "layer" ->
         [g \in Col \X Panel |-> img[<<g[1], Panels - 1 - g[2], index>>]]

\* cube_rotate: each layer is cleared and every buffered LED drawn where the
\* angle takes it; several may land on one LED, and the last one drawn stays.
DrawnAfter(s, r) == r[1] < s[1] \/ (r[1] = s[1] /\ r[2] <= s[2])
Landing(a, q) == {s \in Col \X Panel : Turn[a][s] = <<q[1], q[2]>>}
Rotated(img, a) ==
  [q \in Pos |->
     IF Landing(a, q) = {} THEN Black
     ELSE LET s == CHOOSE s \in Landing(a, q) :
                     \A r \in Landing(a, q) : DrawnAfter(s, r)
          IN  img[<<s[1], s[2], q[3]>>]]

\* cube_translate, on a pair of cube and buffer: each axis that moves copies
\* the cube to the buffer first, and draws the shifted buffer on the cube.
\* (mutant) cube_buffer not called
CopiedNot(s) == s
Copied(s) == [s EXCEPT !.buffer = s.cube]
Pass(s, d) ==
  IF d = <<0, 0, 0>> THEN s
  ELSE [Copied(s) EXCEPT !.cube = Shifted(Copied(s).buffer, d)]
Translated(x, y, z) ==
  Pass(Pass(Pass([cube |-> cube, buffer |-> buffer_cube],
                 <<x, 0, 0>>), <<0, y, 0>>), <<0, 0, z>>)

-----------------------------------------------------------------------------
(* The routines.  Those that take the flag buffer of the code draw on the  *)
(* buffer when it is set, and otherwise on the cube.                       *)

Target(buffer) == IF buffer THEN buffer_cube ELSE cube

DrawOn(buffer, img) ==
  IF buffer THEN buffer_cube' = img /\ UNCHANGED cube
            ELSE cube' = img /\ UNCHANGED buffer_cube

Draw(buffer, region, colour) ==
  DrawOn(buffer, Fill(Target(buffer), region, colour))

LED(buffer, col, panel, layer, colour) ==
  Draw(buffer, LEDAt(col, panel, layer), colour)
cube_row(buffer, panel, layer, colour) ==
  Draw(buffer, RowOf(panel, layer), colour)
cube_column(buffer, col, panel, colour) ==
  Draw(buffer, ColumnOf(col, panel), colour)
cube_panel(buffer, panel, colour) == Draw(buffer, PanelOf(panel), colour)
cube_layer(buffer, layer, colour) == Draw(buffer, LayerOf(layer), colour)
cube_slice(buffer, col, colour) == Draw(buffer, SliceOf(col), colour)
cube_fill(buffer, colour) == Draw(buffer, Pos, colour)
cube_clear(buffer) == cube_fill(buffer, Black)
cube_sphere(buffer, x, y, z, d, colour) ==
  Draw(buffer, SphereOf(x, y, z, d), colour)
cube_fade(buffer, amount) ==
  \E bits \in Shifts(amount) : DrawOn(buffer, Faded(Target(buffer), bits))
cube_plane(buffer, plane, index, grid) ==
  DrawOn(buffer, PlaneDrawn(Target(buffer), plane, index, grid))

\* These two always draw on the cube and use the buffer as they like.
cube_translate(x, y, z) ==
  /\ cube' = Translated(x, y, z).cube
  /\ buffer_cube' = Translated(x, y, z).buffer

cube_rotate(angle, use_existing_buffer) ==
  LET source == IF use_existing_buffer THEN buffer_cube ELSE cube
  IN  /\ cube' = Rotated(source, angle)
      /\ buffer_cube' = source

cube_buffer == buffer_cube' = cube /\ UNCHANGED cube
cube_from_buffer == cube' = buffer_cube /\ UNCHANGED buffer_cube
cube_buffer_clear == buffer_cube' = Dark /\ UNCHANGED cube

-----------------------------------------------------------------------------
\* cube_init clears the cube; the buffer is a zeroed static.
Init == cube = Dark /\ buffer_cube = Dark

DrawShape(buffer, colour) ==
  \/ \E x, y, z \in Indices : LED(buffer, x, y, z, colour)
  \/ \E y, z \in Indices : cube_row(buffer, y, z, colour)
  \/ \E x, y \in Indices : cube_column(buffer, x, y, colour)
  \/ \E y \in Indices : cube_panel(buffer, y, colour)
  \/ \E z \in Indices : cube_layer(buffer, z, colour)
  \/ \E x \in Indices : cube_slice(buffer, x, colour)
  \/ cube_fill(buffer, colour)
  \/ \E x, y, z \in Indices, d \in Diameters :
       cube_sphere(buffer, x, y, z, d, colour)

DrawWhole(buffer) ==
  \/ cube_clear(buffer)
  \/ \E n \in Amounts : cube_fade(buffer, n)
  \/ \E plane \in Planes : \E i \in PlaneIndices(plane) :
       \E grid \in Grids[plane] : cube_plane(buffer, plane, i, grid)

MoveCube ==
  \/ \E x, y, z \in Steps : cube_translate(x, y, z)
  \/ \E a \in Turns, use \in BOOLEAN : cube_rotate(a, use)

Next ==
  \/ \E buffer \in BOOLEAN, colour \in Paint : DrawShape(buffer, colour)
  \/ \E buffer \in BOOLEAN : DrawWhole(buffer)
  \/ MoveCube
  \/ cube_buffer
  \/ cube_from_buffer
  \/ cube_buffer_clear

Spec == Init /\ [][Next]_drawVars

-----------------------------------------------------------------------------
\* No routine leaves a component brighter than the refresh thread can show:
\* its six exposures read six bits of the byte.
TypeOK == cube \in Image /\ buffer_cube \in Image

\* cube.translate moves the contents by all three distances at once, and what
\* leaves the cube is lost: doing it axis by axis through the one buffer must
\* neither show an older image nor let a column wrap around.
TranslateIsShift ==
  \A x, y, z \in Steps :
    Translated(x, y, z).cube = Shifted(cube, <<x, y, z>>)

\* What cube.plane reads of a plane is what it last drew there, for each of
\* the three planes: the loops of the two directions flip the same axes.
PlaneReadsBack ==
  \A plane \in Planes : \A i \in PlaneIndices(plane) :
    \A grid \in Grids[plane] :
      PlaneRead(PlaneDrawn(cube, plane, i, grid), plane, i)
        = [g \in GridOf(plane) |-> Stored(grid[g])]

\* A rotation draws every LED of the source that the angle keeps on the grid,
\* on its own layer, unless another lands on the same place; an LED nothing
\* lands on is black, whatever was drawn there before.
RotateKeepsLayers ==
  \A a \in Turns : \A q \in Pos :
    LET from == {s \in Col \X Panel : Turn[a][s] = <<q[1], q[2]>>}
    IN  IF from = {} THEN Rotated(cube, a)[q] = Black
        ELSE \E s \in from : Rotated(cube, a)[q] = cube[<<s[1], s[2], q[3]>>]
=============================================================================
