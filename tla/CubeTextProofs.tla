--------------------------- MODULE CubeTextProofs ---------------------------
(***************************************************************************)
(* Proofs about the scrolling texts, for every font, every text, and every *)
(* sequence of texts that end or are cancelled.  Counting relates the      *)
(* frames shown to the characters drawn; BufferHolds says that the buffer  *)
(* is the text, shifted by the frames, OnTheWalls and InThePlanes what the *)
(* cube shows of it.  Together they are inductive.                         *)
(***************************************************************************)
EXTENDS CubeText, CubeDrawProofs

Scrolling == tpc \in {"next", "scroll", "shown"}
OnWalls == tmode \in WallModes
Through == tmode \in ThroughModes

TextTypes ==
  /\ TypeOK
  /\ text_buffer \in [BufferColumn -> SUBSET Row]
  /\ tmode \in Modes /\ pen \in [Channel -> Int] /\ todo \in Seq(Chars)
  /\ tpc \in Places /\ frame \in 0 .. 8 /\ tail \in 0 .. 4 /\ frames \in Nat
  /\ OnWalls => ribbon \in Seq(Cells)
  /\ Through => ribbon \in Seq(Chars)

\* How many frames have been shown, and that the last characters' worth of
\* them is shown only after the last character.
Counting ==
  /\ Scrolling /\ todo # <<>> => tail = 0
  /\ tpc = "scroll" => OnWalls /\ frame < 8
  /\ tpc = "next" /\ OnWalls => frames = 8 * (Len(ribbon) + tail)
  /\ tpc \in {"scroll", "shown"} /\ OnWalls =>
       /\ Len(ribbon) + tail > 0
       /\ frames = 8 * (Len(ribbon) + tail - 1) + frame
  /\ tpc = "shown" /\ OnWalls => frame > 0
  /\ Scrolling /\ Through => tail \in {0, 1}
  /\ tpc = "next" /\ Through => frames = 5 * Len(ribbon) + 4 * tail
  /\ tpc = "shown" /\ Through /\ tail = 0 =>
       Len(ribbon) > 0 /\ frame < 5 /\ frames = 5 * (Len(ribbon) - 1) + frame
  /\ tpc = "shown" /\ Through /\ tail = 1 =>
       frame < 4 /\ frames = 5 * Len(ribbon) + frame

\* The text buffer is the text, where the frames have brought it.
BufferHolds ==
  Scrolling /\ OnWalls =>
    \A c \in BufferColumn : text_buffer[c] = RibbonColumn(c - 37 + frames)

\* From the second frame on the walls show the windows of the buffer, and
\* are dark between two frames.
OnTheWalls ==
  OnWalls =>
    /\ tpc = "shown" /\ frames > 1 =>
         \A q \in Walls :
           cube[q] = IF WallLit(text_buffer, q) THEN Stored(pen) ELSE Black
    /\ tpc \in {"next", "scroll"} /\ frames > 0 =>
         \A q \in Walls : cube[q] = Black

\* The planes the text has reached show its characters.
Expected(q) ==
  IF \E n \in 1 .. Len(ribbon) :
       frames - Depth(q) = 5 * (n - 1) /\ ShownAt(ribbon[n], q)
  THEN Stored(pen) ELSE Black
InThePlanes ==
  tpc \in {"next", "shown"} /\ Through /\ ribbon # <<>> =>
    \A q \in Pos : Depth(q) <= frames => cube[q] = Expected(q)

TextInvariant ==
  TextTypes /\ Counting /\ BufferHolds /\ OnTheWalls /\ InThePlanes

-----------------------------------------------------------------------------
(* Types.                                                                  *)

\* The measures of the cube.
LEMMA Measures ==
  /\ Pos = (0 .. 7) \X (0 .. 7) \X (0 .. 7)
  /\ Col = 0 .. 7 /\ Panel = 0 .. 7 /\ Layer = 0 .. 7
  BY TextAssumption DEF Pos, Col, Panel, Layer

\* What the walls take from the font or from behind it is a character.
LEMMA CellsType ==
  ASSUME NEW c \in Chars, NEW cells \in CellsOf(c)
  PROVE  cells \in Cells
  BY TextAssumption DEF CellsOf

\* A character as a plane draws it is a grid of colours.
LEMMA GridType ==
  ASSUME pen \in [Channel -> Int], NEW c, NEW plane \in Planes
  PROVE  text_getchar(c) \in [GridOf(plane) -> [Channel -> Int]]
<1>1. Black \in [Channel -> Int]
  BY DEF Black
<1>2. GridOf(plane) = GlyphColumn \X Row
  BY Measures DEF GridOf, Planes, GlyphColumn, Row
<1> QED
  BY <1>1, <1>2 DEF text_getchar

\* The buffer shifted is a buffer.
LEMMA ShiftedType ==
  ASSUME text_buffer \in [BufferColumn -> SUBSET Row]
  PROVE  ShiftedBuffer \in [BufferColumn -> SUBSET Row]
<1>1. ASSUME NEW c \in BufferColumn
      PROVE  (IF c < 45 THEN text_buffer[c + 1] ELSE text_buffer[c]) \in SUBSET Row
  <2>1. c < 45 => c + 1 \in BufferColumn
    BY DEF BufferColumn
  <2> QED
    BY <2>1
<1> QED
  BY <1>1 DEF ShiftedBuffer

\* A character enters by a face of the cube.
LEMMA FaceType ==
  ASSUME tmode \in ThroughModes
  PROVE  Face[tmode][1] \in Planes /\ Face[tmode][2] \in PlaneIndices(Face[tmode][1])
<1>1. CASE tmode = "X"
  BY <1>1, Measures DEF Face, Planes, PlaneIndices
<1>2. CASE tmode = "Y"
  BY <1>2, Measures DEF Face, Planes, PlaneIndices
<1>3. CASE tmode = "Z"
  BY <1>3, Measures DEF Face, Planes, PlaneIndices
<1> QED
  BY <1>1, <1>2, <1>3 DEF ThroughModes

\* Every step keeps the types.
LEMMA TextTypesNext ==
  ASSUME TextTypes, Counting, TextNext
  PROVE  TextTypes'
<1> USE DEF TextTypes, TypeOK, OnWalls, Through, Modes, WallModes, ThroughModes,
            Places
<1>1. CASE OtherCommands
  <2>1. cube' \in Image /\ buffer_cube' \in Image
    BY <1>1, TextAssumption DEF OtherCommands
  <2> QED
    BY <1>1, <2>1 DEF OtherCommands, textVarsButPlace
<1>2. CASE StartText
  <2>1. PICK text \in Texts, mode \in Modes, colour \in Pens :
          text_scroll(text, mode, colour)
    BY <1>2 DEF StartText
  <2>2. text \in Seq(Chars) /\ colour \in [Channel -> Int]
    BY TextAssumption
  <2>3. EmptyBuffer \in [BufferColumn -> SUBSET Row]
    BY DEF EmptyBuffer
  <2> QED
    BY <2>1, <2>2, <2>3 DEF text_scroll, drawVars
<1>3. CASE LoadCharacter
  <2>1. PICK cells \in CellsOf(Head(todo)) :
          /\ text_buffer' = [c \in BufferColumn |->
               IF c - 37 \in GlyphColumn THEN text_buffer[c] \cup cells[c - 37]
               ELSE text_buffer[c]]
          /\ ribbon' = Append(ribbon, cells)
    BY <1>3 DEF LoadCharacter
  <2>2. cells \in Cells /\ Tail(todo) \in Seq(Chars)
    BY <1>3, CellsType DEF LoadCharacter
  <2>3. text_buffer' \in [BufferColumn -> SUBSET Row]
    BY <2>1, <2>2 DEF Cells
  <2>4. ribbon' \in Seq(Cells)
    BY <1>3, <2>1, <2>2 DEF LoadCharacter
  <2> QED
    BY <1>3, <2>2, <2>3, <2>4 DEF LoadCharacter, drawVars
<1>4. CASE LoadNothing
  BY <1>4 DEF LoadNothing, drawVars
<1>5. CASE ScrollColumn
  <2> frame < 8
    BY <1>5 DEF ScrollColumn, Counting
  <2>1. ShiftedBuffer \in [BufferColumn -> SUBSET Row]
    BY ShiftedType
  <2>2. cube' \in Image
    BY <1>5, FillImage DEF ScrollColumn
  <2> QED
    BY <1>5, <2>1, <2>2 DEF ScrollColumn
<1>6. CASE ClearWalls \/ CancelText
  <2>1. Black \in [Channel -> Int]
    BY DEF Black
  <2>2. cube' \in Image /\ buffer_cube' = buffer_cube
    BY <1>6, <2>1, FillImage
    DEF ClearWalls, CancelText, cube_clear, cube_fill, Draw, DrawOn, Target
  <2>3. tpc' \in Places
    BY <1>6 DEF ClearWalls, CancelText
  <2> QED
    BY <1>6, <2>2, <2>3 DEF ClearWalls, CancelText, textVarsButPlace
<1>7. CASE PlaceCharacter
  <2>1. /\ Face[tmode][1] \in Planes
        /\ cube_plane(FALSE, Face[tmode][1], Face[tmode][2],
                      text_getchar(Head(todo)))
    BY <1>7, FaceType DEF PlaceCharacter
  <2>2. cube' \in Image /\ buffer_cube' = buffer_cube
    BY <2>1, GridType, PlaneDrawnImage DEF cube_plane, DrawOn, Target
  <2>3. Head(todo) \in Chars /\ Tail(todo) \in Seq(Chars)
    BY <1>7 DEF PlaceCharacter
  <2> QED
    BY <1>7, <2>2, <2>3 DEF PlaceCharacter
<1>8. CASE PlaceNothing \/ LastCharacterOut
  BY <1>8 DEF PlaceNothing, LastCharacterOut, drawVars, textVarsButPlace
<1>9. CASE MovePlane
  <2>1. /\ frame < 5 /\ PlanesApart \in Int
        /\ Way[tmode][1] \in Int /\ Way[tmode][2] \in Int /\ Way[tmode][3] \in Int
    BY <1>9 DEF MovePlane, Counting, PlanesApart, Way, Scrolling
  <2>2. cube' \in Image /\ buffer_cube' \in Image
    BY <1>9, <2>1, TranslatedIsShifted DEF MovePlane, cube_translate
  <2> QED
    BY <1>9, <2>1, <2>2 DEF MovePlane
<1>10. CASE EndText
  <2>1. EmptyBuffer \in [BufferColumn -> SUBSET Row]
    BY DEF EmptyBuffer
  <2> QED
    BY <1>10, <2>1 DEF EndText, drawVars
<1> QED
  BY <1>1, <1>2, <1>3, <1>4, <1>5, <1>6, <1>7, <1>8, <1>9, <1>10
  DEF TextNext, Scroll

-----------------------------------------------------------------------------
(* The count of the frames.                                                *)

\* Every step keeps the count.
LEMMA CountingNext ==
  ASSUME TextTypes, Counting, TextNext
  PROVE  Counting'
<1> USE DEF TextTypes, Counting, OnWalls, Through, Modes, WallModes,
            ThroughModes, Places, Scrolling
<1>1. CASE OtherCommands
  BY <1>1 DEF OtherCommands, textVarsButPlace
<1>2. CASE StartText
  BY <1>2 DEF StartText, text_scroll
<1>3. CASE LoadCharacter
  <2>1. Len(ribbon') = Len(ribbon) + 1 /\ tail = 0
    BY <1>3 DEF LoadCharacter
  <2> QED
    BY <1>3, <2>1 DEF LoadCharacter
<1>4. CASE LoadNothing
  BY <1>4 DEF LoadNothing
<1>5. CASE ScrollColumn
  BY <1>5 DEF ScrollColumn
<1>6. CASE ClearWalls
  <2>1. /\ UNCHANGED <<tmode, todo, frame, tail, ribbon, frames>>
        /\ OnWalls /\ ~Through /\ Len(ribbon) \in Nat
        /\ tpc' = IF frame < 8 THEN "scroll" ELSE "next"
    BY <1>6 DEF ClearWalls, textVarsButPlace
  <2>2. frames = 8 * (Len(ribbon) + tail - 1) + frame /\ Len(ribbon) + tail > 0
    BY <1>6 DEF ClearWalls
  <2>3. todo # <<>> => tail = 0
    BY <1>6 DEF ClearWalls
  <2>4. CASE frame < 8
    BY <2>1, <2>2, <2>3, <2>4
  <2>5. CASE frame = 8
    <3>1. frames = 8 * (Len(ribbon) + tail)
      BY <2>1, <2>2, <2>5
    <3> QED
      BY <2>1, <2>3, <2>5, <3>1
  <2> QED
    BY <2>4, <2>5
<1>7. CASE PlaceCharacter
  <2>1. Len(ribbon') = Len(ribbon) + 1 /\ tail = 0
    BY <1>7 DEF PlaceCharacter
  <2> QED
    BY <1>7, <2>1 DEF PlaceCharacter
<1>8. CASE PlaceNothing
  BY <1>8 DEF PlaceNothing
<1>9. CASE MovePlane
  <2>1. /\ UNCHANGED <<tmode, todo, tail, ribbon>>
        /\ frame' = frame + 1 /\ frames' = frames + 1
        /\ ~OnWalls /\ Through /\ Len(ribbon) \in Nat
        /\ tpc' = IF frame + 1 < PlanesApart THEN "shown" ELSE "next"
    BY <1>9 DEF MovePlane
  <2>2. tail \in {0, 1} /\ (todo # <<>> => tail = 0)
    BY <1>9 DEF MovePlane
  <2>3. CASE tail = 0
    <3>1. Len(ribbon) > 0 /\ frame < 5 /\ frames = 5 * (Len(ribbon) - 1) + frame
      BY <1>9, <2>3 DEF MovePlane
    <3> QED
      BY <2>1, <2>3, <3>1 DEF PlanesApart
  <2>4. CASE tail = 1
    <3>1. frame < 4 /\ frames = 5 * Len(ribbon) + frame
      BY <1>9, <2>4 DEF MovePlane
    <3> QED
      BY <2>1, <2>2, <2>4, <3>1 DEF PlanesApart
  <2> QED
    BY <2>2, <2>3, <2>4
<1>10. CASE LastCharacterOut \/ EndText \/ CancelText
  BY <1>10 DEF LastCharacterOut, EndText, CancelText, textVarsButPlace
<1> QED
  BY <1>1, <1>2, <1>3, <1>4, <1>5, <1>6, <1>7, <1>8, <1>9, <1>10
  DEF TextNext, Scroll

-----------------------------------------------------------------------------
(* The buffer.                                                             *)

\* There is no column of the text before its first and after its last.
LEMMA RibbonEnds ==
  ASSUME NEW k \in Int, Len(ribbon) \in Nat, k >= 8 * Len(ribbon)
  PROVE  RibbonColumn(k) = {}
  BY DEF RibbonColumn

\* A character appended gives the text eight columns more.
LEMMA RibbonGrows ==
  ASSUME ribbon \in Seq(Cells), NEW cells \in Cells, NEW k \in Int,
         ribbon' = Append(ribbon, cells)
  PROVE  /\ k < 8 * Len(ribbon) => RibbonColumn(k)' = RibbonColumn(k)
         /\ \A g \in GlyphColumn :
              k = 8 * Len(ribbon) + g => RibbonColumn(k)' = cells[g]
<1>1. /\ Len(ribbon) \in Nat /\ Len(ribbon') = Len(ribbon) + 1
      /\ ribbon'[Len(ribbon) + 1] = cells
      /\ \A n \in 1 .. Len(ribbon) : ribbon'[n] = ribbon[n]
  OBVIOUS
<1> DEFINE L == Len(ribbon)
<1>2. ASSUME k < 8 * L
      PROVE  RibbonColumn(k)' = RibbonColumn(k)
  <2>1. CASE k < 0
    BY <1>1, <2>1 DEF RibbonColumn
  <2>2. CASE k >= 0
    <3>1. k \in 0 .. 8 * L - 1 /\ k \in 0 .. 8 * Len(ribbon') - 1
      BY <1>1, <1>2, <2>2
    <3>2. k \div 8 + 1 \in 1 .. L
      BY <1>1, <3>1
    <3> QED
      BY <1>1, <3>1, <3>2 DEF RibbonColumn
  <2> QED
    BY <2>1, <2>2
<1>3. ASSUME NEW g \in GlyphColumn, k = 8 * L + g
      PROVE  RibbonColumn(k)' = cells[g]
  <2>1. /\ k \in 0 .. 8 * Len(ribbon') - 1
        /\ k \div 8 = L /\ k % 8 = g
    BY <1>1, <1>3 DEF GlyphColumn
  <2> QED
    BY <1>1, <2>1 DEF RibbonColumn
<1> QED
  BY <1>2, <1>3

\* Every step keeps the buffer.
LEMMA BufferNext ==
  ASSUME TextTypes, Counting, BufferHolds, TextNext
  PROVE  BufferHolds'
<1> USE DEF OnWalls, Through, Scrolling
<1>1. CASE OtherCommands
  BY <1>1 DEF OtherCommands, BufferHolds
<1>2. CASE StartText
  <2>1. /\ ribbon' = <<>> /\ frames' = 0 /\ text_buffer' = EmptyBuffer
    BY <1>2 DEF StartText, text_scroll
  <2>2. ASSUME NEW c \in BufferColumn
        PROVE  RibbonColumn(c - 37 + frames)' = {}
    BY <2>1 DEF RibbonColumn, BufferColumn
  <2> QED
    BY <2>1, <2>2 DEF BufferHolds, EmptyBuffer
<1>3. CASE LoadCharacter
  <2>1. PICK cells \in CellsOf(Head(todo)) :
          /\ text_buffer' = [c \in BufferColumn |->
               IF c - 37 \in GlyphColumn THEN text_buffer[c] \cup cells[c - 37]
               ELSE text_buffer[c]]
          /\ ribbon' = Append(ribbon, cells)
    BY <1>3 DEF LoadCharacter
  <2>2. /\ cells \in Cells /\ ribbon \in Seq(Cells) /\ Len(ribbon) \in Nat
        /\ frames' = frames /\ frames = 8 * Len(ribbon)
    <3>1. Head(todo) \in Chars /\ tail = 0 /\ ribbon \in Seq(Cells)
      BY <1>3 DEF LoadCharacter, TextTypes, Counting
    <3> QED
      BY <1>3, <3>1, CellsType DEF LoadCharacter, Counting
  <2>3. ASSUME NEW c \in BufferColumn
        PROVE  text_buffer'[c] = RibbonColumn(c - 37 + frames)'
    <3> DEFINE k == c - 37 + 8 * Len(ribbon)
    <3>1. c \in 0 .. 45 /\ k \in Int /\ c - 37 + frames = k
      BY <2>2 DEF BufferColumn
    <3>2. text_buffer[c] = RibbonColumn(k)
      BY <1>3, <3>1 DEF LoadCharacter, BufferHolds
    <3>3. CASE c < 37
      <4>1. k < 8 * Len(ribbon) /\ c - 37 \notin GlyphColumn
        BY <2>2, <3>1, <3>3 DEF GlyphColumn
      <4>2. \A i \in Int : i < 8 * Len(ribbon) => RibbonColumn(i)' = RibbonColumn(i)
        BY <2>1, <2>2, RibbonGrows
      <4> QED
        BY <2>1, <2>2, <3>1, <3>2, <4>1, <4>2
    <3>4. CASE c - 37 \in GlyphColumn
      <4>1. RibbonColumn(k) = {}
        BY <2>2, <3>1, <3>4, RibbonEnds DEF GlyphColumn
      <4>2. \A i \in Int : i = 8 * Len(ribbon) + (c - 37)
                           => RibbonColumn(i)' = cells[c - 37]
        BY <2>1, <2>2, <3>4, RibbonGrows
      <4>3. k = 8 * Len(ribbon) + (c - 37)
        BY <2>2, <3>1
      <4> QED
        BY <2>1, <2>2, <3>1, <3>2, <3>4, <4>1, <4>2, <4>3
    <3>5. CASE c = 45
      <4>1. RibbonColumn(k) = {}
        BY <2>2, <3>1, <3>5, RibbonEnds
      <4>2. c - 37 \notin GlyphColumn
        BY <3>5 DEF GlyphColumn
      <4>3. Len(ribbon') = Len(ribbon) + 1
        BY <2>1, <2>2
      <4>4. RibbonColumn(c - 37 + frames)' = {}
        BY <2>2, <3>1, <3>5, <4>3 DEF RibbonColumn
      <4> QED
        BY <2>1, <3>2, <4>1, <4>2, <4>4
    <3> QED
      BY <3>1, <3>3, <3>4, <3>5 DEF GlyphColumn
  <2> QED
    BY <2>3 DEF BufferHolds
<1>4. CASE LoadNothing \/ ClearWalls \/ CancelText
  <2>1. /\ UNCHANGED <<text_buffer, tmode, ribbon, frames>>
        /\ Scrolling' => Scrolling
    BY <1>4 DEF LoadNothing, ClearWalls, CancelText, textVarsButPlace
  <2>2. ASSUME NEW c \in BufferColumn
        PROVE  RibbonColumn(c - 37 + frames)' = RibbonColumn(c - 37 + frames)
    BY <2>1 DEF RibbonColumn
  <2> QED
    BY <2>1, <2>2 DEF BufferHolds
<1>5. CASE ScrollColumn
  <2>1. /\ frames \in Nat /\ frames' = frames + 1 /\ ribbon' = ribbon
        /\ OnWalls /\ Len(ribbon) \in Nat
        /\ frames >= 8 * Len(ribbon) - 8
    <3>1. /\ OnWalls /\ Len(ribbon) \in Nat /\ tail \in Nat /\ frame \in Nat
          /\ frames = 8 * (Len(ribbon) + tail - 1) + frame
      BY <1>5 DEF ScrollColumn, Counting, TextTypes
    <3> QED
      BY <1>5, <3>1 DEF ScrollColumn, TextTypes
  <2>2. ASSUME NEW c \in BufferColumn
        PROVE  text_buffer'[c] = RibbonColumn(c - 37 + frames)'
    <3> c \in 0 .. 45
      BY DEF BufferColumn
    <3>1. RibbonColumn(c - 37 + frames)' = RibbonColumn(c - 36 + frames)
      <4>1. c - 37 + frames' = c - 36 + frames
        BY <2>1
      <4> QED
        BY <2>1, <4>1 DEF RibbonColumn
    <3>2. CASE c < 45
      <4>1. text_buffer'[c] = text_buffer[c + 1] /\ c + 1 \in BufferColumn
        BY <1>5, <3>1, <3>2 DEF ScrollColumn, ShiftedBuffer, BufferColumn
      <4>2. text_buffer[c + 1] = RibbonColumn((c + 1) - 37 + frames)
        BY <1>5, <2>1, <4>1 DEF ScrollColumn, BufferHolds
      <4>3. (c + 1) - 37 + frames = c - 36 + frames
        BY <2>1, <3>1
      <4> QED
        BY <3>1, <4>1, <4>2, <4>3
    <3>3. CASE c = 45
      <4>1. text_buffer'[c] = text_buffer[c]
        BY <1>5, <3>3 DEF ScrollColumn, ShiftedBuffer
      <4>2. text_buffer[c] = RibbonColumn(c - 37 + frames)
        BY <1>5, <2>1 DEF ScrollColumn, BufferHolds
      <4>3. RibbonColumn(c - 37 + frames) = {} /\ RibbonColumn(c - 36 + frames) = {}
        BY <2>1, <3>3, RibbonEnds
      <4> QED
        BY <3>1, <4>1, <4>2, <4>3
    <3> QED
      BY <3>1, <3>2, <3>3
  <2> QED
    BY <2>2 DEF BufferHolds
<1>6. CASE PlaceCharacter \/ PlaceNothing \/ MovePlane
  <2>1. ~OnWalls'
    BY <1>6 DEF PlaceCharacter, PlaceNothing, MovePlane, ThroughModes, WallModes
  <2> QED
    BY <2>1 DEF BufferHolds
<1>7. CASE LastCharacterOut \/ EndText
  BY <1>7 DEF LastCharacterOut, EndText, BufferHolds
<1> QED
  BY <1>1, <1>2, <1>3, <1>4, <1>5, <1>6, <1>7 DEF TextNext, Scroll

-----------------------------------------------------------------------------
(* The walls.                                                              *)

\* Black stays black when it is stored.
LEMMA StoredBlack == Stored(Black) = Black
<1>1. Clamp(Byte(0)) = 0
  BY CubeAssumption DEF Clamp, Byte
<1> QED
  BY <1>1 DEF Stored, Black

\* Every step keeps what the walls show.
LEMMA WallsNext ==
  ASSUME TextTypes, Counting, OnTheWalls, TextNext
  PROVE  OnTheWalls'
<1> USE DEF OnWalls
<1>1. CASE OtherCommands \/ EndText \/ CancelText \/ LastCharacterOut
  BY <1>1 DEF OtherCommands, EndText, CancelText, LastCharacterOut, OnTheWalls
<1>2. CASE StartText
  BY <1>2 DEF StartText, text_scroll, OnTheWalls
<1>3. CASE LoadCharacter \/ LoadNothing
  <2>1. /\ UNCHANGED <<cube, tmode, frames>>
        /\ tpc = "next" /\ tpc' = "scroll" /\ OnWalls
    BY <1>3 DEF LoadCharacter, LoadNothing, drawVars
  <2> QED
    BY <2>1 DEF OnTheWalls
<1>4. CASE ScrollColumn
  <2>1. /\ tpc' = "shown" /\ UNCHANGED <<tmode, pen>>
        /\ text_buffer' = ShiftedBuffer /\ frames' = frames + 1
        /\ cube' = Fill(cube, {q \in Pos : WallLit(ShiftedBuffer, q)}, pen)
    BY <1>4 DEF ScrollColumn
  <2>2. OnWalls /\ tpc = "scroll" /\ frames \in Nat
    BY <1>4 DEF ScrollColumn, Counting, TextTypes
  <2>3. ASSUME frames' > 1, NEW q \in Walls
        PROVE  cube'[q] = IF WallLit(text_buffer, q)' THEN Stored(pen)' ELSE Black'
    <3>1. q \in Pos /\ cube[q] = Black
      BY <2>1, <2>2, <2>3 DEF OnTheWalls, Walls
    <3>2. WallLit(text_buffer, q)' <=> WallLit(ShiftedBuffer, q)
      BY <2>1 DEF WallLit
    <3>3. Stored(pen)' = Stored(pen)
      BY <2>1 DEF Stored
    <3> QED
      BY <2>1, <3>1, <3>2, <3>3 DEF Fill, Black
  <2> QED
    BY <2>1, <2>3 DEF OnTheWalls
<1>5. CASE ClearWalls
  <2>1. /\ cube' = Fill(cube, Walls, Black) /\ tpc' # "shown"
    BY <1>5 DEF ClearWalls
  <2>2. \A q \in Walls : cube'[q] = Black
    BY <2>1, StoredBlack DEF Fill, Walls
  <2> QED
    BY <2>1, <2>2 DEF OnTheWalls, Black
<1>6. CASE PlaceCharacter \/ PlaceNothing \/ MovePlane
  <2>1. ~OnWalls'
    BY <1>6 DEF PlaceCharacter, PlaceNothing, MovePlane, ThroughModes, WallModes
  <2> QED
    BY <2>1 DEF OnTheWalls
<1> QED
  BY <1>1, <1>2, <1>3, <1>4, <1>5, <1>6 DEF TextNext, Scroll

-----------------------------------------------------------------------------
(* The planes.                                                             *)

\* Where a text is on its way, from the point of view of one LED.
LEMMA DepthType ==
  ASSUME tmode \in ThroughModes, NEW q \in Pos
  PROVE  Depth(q) \in 0 .. 7
<1>1. q[1] \in 0 .. 7 /\ q[2] \in 0 .. 7 /\ q[3] \in 0 .. 7
  BY Measures
<1>2. CASE tmode = "X"
  BY <1>1, <1>2 DEF Depth
<1>3. CASE tmode = "Y"
  BY <1>1, <1>3 DEF Depth
<1>4. CASE tmode = "Z"
  BY <1>1, <1>4 DEF Depth
<1> QED
  BY <1>2, <1>3, <1>4 DEF ThroughModes

\* A step back of the movement is one plane less deep, at the same cell of the
\* character, and off the grid only from the face.
LEMMA OneBack ==
  ASSUME tmode \in ThroughModes, NEW q \in Pos
  PROVE  LET b == Back(q, Way[tmode])
         IN  IF Depth(q) = 0 THEN b \notin Pos
             ELSE b \in Pos /\ Depth(b) = Depth(q) - 1 /\ CellAt(b) = CellAt(q)
<1>1. PICK x \in 0 .. 7, y \in 0 .. 7, z \in 0 .. 7 : q = <<x, y, z>>
  BY Measures
<1>2. CASE tmode = "X"
  <2>1. Back(q, Way[tmode]) = <<x - 1, y, z>> /\ Depth(q) = x
    BY <1>1, <1>2 DEF Back, Way, Depth
  <2> QED
    BY <1>1, <1>2, <2>1, Measures DEF Depth, CellAt
<1>3. CASE tmode = "Y"
  <2>1. Back(q, Way[tmode]) = <<x, y - 1, z>> /\ Depth(q) = y
    BY <1>1, <1>3 DEF Back, Way, Depth
  <2> QED
    BY <1>1, <1>3, <2>1, Measures DEF Depth, CellAt
<1>4. CASE tmode = "Z"
  <2>1. Back(q, Way[tmode]) = <<x, y, z + 1>> /\ Depth(q) = 7 - z
    BY <1>1, <1>4 DEF Back, Way, Depth
  <2> QED
    BY <1>1, <1>4, <2>1, Measures DEF Depth, CellAt
<1> QED
  BY <1>2, <1>3, <1>4 DEF ThroughModes

\* The face a character enters by is where its way begins, and the cell seen
\* there is the one its grid has in that place.
LEMMA FaceCell ==
  ASSUME tmode \in ThroughModes, NEW q \in Pos
  PROVE  LET plane == Face[tmode][1]
             index == Face[tmode][2]
             g == <<CellAt(q)[1], 7 - CellAt(q)[2]>>
         IN  /\ g \in GridOf(plane) /\ g \in GlyphColumn \X Row
             /\ 7 - g[2] = CellAt(q)[2]
             /\ Depth(q) = 0 => OnPlane(plane, index, g) = q
             /\ \A h \in GridOf(plane) : OnPlane(plane, index, h) = q => Depth(q) = 0
<1>1. PICK x \in 0 .. 7, y \in 0 .. 7, z \in 0 .. 7 : q = <<x, y, z>>
  BY Measures
<1>2. Panels = 8 /\ Layers = 8
  BY TextAssumption
<1>3. CASE tmode = "X"
  <2>1. /\ Face[tmode][1] = "slice" /\ Face[tmode][2] = 0
        /\ CellAt(q) = <<7 - y, z>> /\ Depth(q) = x
        /\ GridOf("slice") = (0 .. 7) \X (0 .. 7)
    BY <1>1, <1>3, Measures DEF Face, CellAt, Depth, GridOf
  <2>2. \A h : OnPlane("slice", 0, h) = <<0, 7 - h[1], 7 - h[2]>>
    BY <1>2 DEF OnPlane
  <2>3. ASSUME NEW h \in (0 .. 7) \X (0 .. 7), OnPlane("slice", 0, h) = q
        PROVE  x = 0
    BY <1>1, <2>2, <2>3
  <2>4. /\ <<7 - y, 7 - z>> \in (0 .. 7) \X (0 .. 7) /\ 7 - (7 - z) = z
        /\ x = 0 => OnPlane("slice", 0, <<7 - y, 7 - z>>) = q
    BY <1>1, <2>2
  <2> QED
    BY <2>1, <2>3, <2>4 DEF GlyphColumn, Row
<1>4. CASE tmode = "Y"
  <2>1. /\ Face[tmode][1] = "panel" /\ Face[tmode][2] = 0
        /\ CellAt(q) = <<x, z>> /\ Depth(q) = y
        /\ GridOf("panel") = (0 .. 7) \X (0 .. 7)
    BY <1>1, <1>4, Measures DEF Face, CellAt, Depth, GridOf
  <2>2. \A h : OnPlane("panel", 0, h) = <<h[1], 0, 7 - h[2]>>
    BY <1>2 DEF OnPlane
  <2>3. ASSUME NEW h \in (0 .. 7) \X (0 .. 7), OnPlane("panel", 0, h) = q
        PROVE  y = 0
    BY <1>1, <2>2, <2>3
  <2>4. /\ <<x, 7 - z>> \in (0 .. 7) \X (0 .. 7) /\ 7 - (7 - z) = z
        /\ y = 0 => OnPlane("panel", 0, <<x, 7 - z>>) = q
    BY <1>1, <2>2
  <2> QED
    BY <2>1, <2>3, <2>4 DEF GlyphColumn, Row
<1>5. CASE tmode = "Z"
  <2>1. /\ Face[tmode][1] = "layer" /\ Face[tmode][2] = 7
        /\ CellAt(q) = <<x, y>> /\ Depth(q) = 7 - z
        /\ GridOf("layer") = (0 .. 7) \X (0 .. 7)
    BY <1>1, <1>5, Measures DEF Face, CellAt, Depth, GridOf
  <2>2. \A h : OnPlane("layer", 7, h) = <<h[1], 7 - h[2], 7>>
    BY <1>2 DEF OnPlane
  <2>3. ASSUME NEW h \in (0 .. 7) \X (0 .. 7), OnPlane("layer", 7, h) = q
        PROVE  7 - z = 0
    BY <1>1, <2>2, <2>3
  <2>4. /\ <<x, 7 - y>> \in (0 .. 7) \X (0 .. 7) /\ 7 - (7 - y) = y
        /\ 7 - z = 0 => OnPlane("layer", 7, <<x, 7 - y>>) = q
    BY <1>1, <2>2
  <2> QED
    BY <2>1, <2>3, <2>4 DEF GlyphColumn, Row
<1> QED
  BY <1>3, <1>4, <1>5 DEF ThroughModes

\* A character placed is seen on its face, and nowhere else.
LEMMA PlacedIsSeen ==
  ASSUME tmode \in ThroughModes, NEW img, NEW c, NEW q \in Pos
  PROVE  PlaneDrawn(img, Face[tmode][1], Face[tmode][2], text_getchar(c))[q] =
           IF Depth(q) # 0 THEN img[q]
           ELSE IF ShownAt(c, q) THEN Stored(pen) ELSE Black
<1> DEFINE plane == Face[tmode][1]
           index == Face[tmode][2]
           g == <<CellAt(q)[1], 7 - CellAt(q)[2]>>
<1>1. plane \in Planes /\ index \in PlaneIndices(plane)
  BY FaceType
<1>2. /\ g \in GridOf(plane) /\ g \in GlyphColumn \X Row
      /\ 7 - g[2] = CellAt(q)[2] /\ g[1] = CellAt(q)[1]
      /\ Depth(q) = 0 => OnPlane(plane, index, g) = q
      /\ \A h \in GridOf(plane) : OnPlane(plane, index, h) = q => Depth(q) = 0
  BY FaceCell
<1>3. text_getchar(c)[g] = IF ShownAt(c, q) THEN pen ELSE Black
  BY <1>2 DEF text_getchar, ShownAt
<1> HIDE DEF plane, index, g
<1>4. CASE Depth(q) # 0
  BY <1>2, <1>4 DEF PlaneDrawn, plane, index
<1>5. CASE Depth(q) = 0
  <2>1. (CHOOSE h \in GridOf(plane) : OnPlane(plane, index, h) = q) = g
    BY <1>1, <1>2, <1>5, OnPlaneInjective
  <2>2. PlaneDrawn(img, plane, index, text_getchar(c))[q] = Stored(text_getchar(c)[g])
    BY <1>2, <1>5, <2>1 DEF PlaneDrawn
  <2> QED
    BY <1>3, <1>5, <2>2, StoredBlack DEF plane, index
<1> QED
  BY <1>4, <1>5

\* Every step keeps what the planes show.
LEMMA PlanesNext ==
  ASSUME TextTypes, Counting, InThePlanes, TextNext
  PROVE  InThePlanes'
<1> USE DEF Through
<1>1. CASE OtherCommands \/ EndText \/ CancelText \/ LastCharacterOut
  BY <1>1 DEF OtherCommands, EndText, CancelText, LastCharacterOut, InThePlanes
<1>2. CASE StartText
  BY <1>2 DEF StartText, text_scroll, InThePlanes
<1>3. CASE LoadCharacter \/ LoadNothing \/ ScrollColumn \/ ClearWalls
  <2>1. tmode \in WallModes /\ tmode' = tmode
    <3>1. CASE LoadCharacter \/ LoadNothing \/ ClearWalls
      BY <3>1 DEF LoadCharacter, LoadNothing, ClearWalls, textVarsButPlace
    <3>2. CASE ScrollColumn
      BY <3>2 DEF ScrollColumn, Counting, OnWalls
    <3> QED
      BY <1>3, <3>1, <3>2
  <2> QED
    BY <2>1 DEF InThePlanes, WallModes, ThroughModes
<1>4. CASE PlaceCharacter
  <2> DEFINE L == Len(ribbon)
             c == Head(todo)
  <2>1. /\ cube' = PlaneDrawn(cube, Face[tmode][1], Face[tmode][2], text_getchar(c))
        /\ ribbon' = Append(ribbon, c) /\ UNCHANGED <<tmode, pen, frames>>
        /\ tpc = "next" /\ Through /\ todo # <<>>
    BY <1>4 DEF PlaceCharacter, cube_plane, DrawOn, Target
  <2>2. /\ ribbon \in Seq(Chars) /\ L \in Nat /\ c \in Chars
        /\ frames = 5 * L
    BY <2>1 DEF TextTypes, Counting, Scrolling
  <2>3. /\ Len(ribbon') = L + 1 /\ ribbon'[L + 1] = c
        /\ \A n \in 1 .. L : ribbon'[n] = ribbon[n]
    BY <2>1, <2>2
  <2>4. ASSUME NEW q \in Pos, Depth(q) <= frames
        PROVE  cube'[q] = Expected(q)'
    <3>1. Depth(q) \in 0 .. 7 /\ Depth(q)' = Depth(q)
      BY <2>1, DepthType DEF Depth
    <3>2. \A ch : ShownAt(ch, q)' <=> ShownAt(ch, q)
      BY <2>1 DEF ShownAt, CellAt
    <3>3. Expected(q)' =
            IF \E n \in 1 .. L + 1 :
                 frames - Depth(q) = 5 * (n - 1) /\ ShownAt(ribbon'[n], q)
            THEN Stored(pen) ELSE Black
      BY <2>1, <2>3, <3>1, <3>2 DEF Expected, Stored, Black
    <3>4. CASE Depth(q) = 0
      <4>1. \A n \in 1 .. L + 1 : frames - Depth(q) = 5 * (n - 1) <=> n = L + 1
        BY <2>2, <3>4
      <4>2. Expected(q)' = IF ShownAt(c, q) THEN Stored(pen) ELSE Black
        BY <2>2, <2>3, <3>3, <4>1
      <4> QED
        BY <2>1, <3>4, <4>2, PlacedIsSeen
    <3>5. CASE Depth(q) # 0
      <4>1. ribbon # <<>>
        BY <2>2, <2>4, <3>1, <3>5
      <4>2. cube'[q] = Expected(q)
        BY <2>1, <2>4, <3>5, <4>1, PlacedIsSeen DEF InThePlanes
      <4>3. frames - Depth(q) # 5 * ((L + 1) - 1)
        BY <2>2, <3>1, <3>5
      <4> QED
        BY <2>2, <2>3, <3>3, <4>2, <4>3 DEF Expected
    <3> QED
      BY <3>4, <3>5
  <2>5. ASSUME NEW q \in Pos
        PROVE  Depth(q)' = Depth(q)
    BY <2>1 DEF Depth
  <2> QED
    BY <2>1, <2>4, <2>5 DEF InThePlanes
<1>5. CASE PlaceNothing
  <2>1. /\ UNCHANGED <<cube, ribbon, tmode, pen, frames>> /\ tpc = "next" /\ Through
    BY <1>5 DEF PlaceNothing, drawVars
  <2>2. ASSUME NEW q \in Pos
        PROVE  Depth(q)' = Depth(q) /\ Expected(q)' = Expected(q)
    BY <2>1 DEF Depth, Expected, ShownAt, CellAt, Stored, Black
  <2> QED
    BY <2>1, <2>2 DEF InThePlanes
<1>6. CASE MovePlane
  <2> DEFINE L == Len(ribbon)
  <2>1. /\ UNCHANGED <<ribbon, tmode, pen, tail>> /\ frames' = frames + 1
        /\ tpc = "shown" /\ Through
        /\ cube' = Translated(Way[tmode][1], Way[tmode][2], Way[tmode][3]).cube
    BY <1>6 DEF MovePlane, cube_translate
  <2>2. /\ ribbon \in Seq(Chars) /\ L \in Nat /\ frames \in Nat
        /\ frame \in 0 .. 8 /\ tail \in {0, 1}
    BY <2>1 DEF TextTypes, Counting, Scrolling
  <2>3. \A n \in 1 .. L : frames + 1 # 5 * (n - 1)
    <3>1. CASE tail = 0
      <4>1. L > 0 /\ frame < 5 /\ frames = 5 * (L - 1) + frame
        BY <2>1, <3>1 DEF Counting
      <4> QED
        BY <2>2, <4>1
    <3>2. CASE tail = 1
      <4>1. frames = 5 * L + frame
        BY <2>1, <3>2 DEF Counting
      <4> QED
        BY <2>2, <4>1
    <3> QED
      BY <2>2, <3>1, <3>2
  <2>4. cube' = Shifted(cube, Way[tmode])
    <3>1. /\ Way[tmode][1] \in Int /\ Way[tmode][2] \in Int /\ Way[tmode][3] \in Int
          /\ <<Way[tmode][1], Way[tmode][2], Way[tmode][3]>> = Way[tmode]
      BY <2>1 DEF Way, ThroughModes
    <3>2. \A x, y, z \in Int : Translated(x, y, z).cube = Shifted(cube, <<x, y, z>>)
      BY TranslatedIsShifted DEF TextTypes, TypeOK
    <3> QED
      BY <2>1, <3>1, <3>2
  <2>5. ASSUME NEW q \in Pos
        PROVE  /\ Depth(q)' = Depth(q)
               /\ Expected(q)' =
                    IF \E n \in 1 .. L : /\ frames + 1 - Depth(q) = 5 * (n - 1)
                                         /\ ShownAt(ribbon[n], q)
                    THEN Stored(pen) ELSE Black
    <3>1. Depth(q)' = Depth(q)
      BY <2>1 DEF Depth
    <3>2. \A ch : ShownAt(ch, q)' <=> ShownAt(ch, q)
      BY <2>1 DEF ShownAt, CellAt
    <3>3. Expected(q)' =
            IF \E n \in 1 .. L : /\ frames' - Depth(q)' = 5 * (n - 1)
                                 /\ ShownAt(ribbon[n], q)
            THEN Stored(pen) ELSE Black
      BY <2>1, <3>2 DEF Expected, Stored, Black
    <3>4. frames' - Depth(q)' = frames + 1 - Depth(q)
      BY <2>1, <2>2, <3>1, DepthType
    <3> QED
      BY <3>1, <3>3, <3>4
  <2>6. ASSUME NEW q \in Pos, ribbon # <<>>, Depth(q) <= frames + 1
        PROVE  cube'[q] = Expected(q)'
    <3> DEFINE b == Back(q, Way[tmode])
    <3>1. Depth(q) \in 0 .. 7
      BY <2>1, DepthType
    <3>2. cube'[q] = IF b \in Pos THEN cube[b] ELSE Black
      BY <2>4 DEF Shifted
    <3>3. IF Depth(q) = 0 THEN b \notin Pos
          ELSE b \in Pos /\ Depth(b) = Depth(q) - 1 /\ CellAt(b) = CellAt(q)
      BY <2>1, OneBack
    <3> HIDE DEF b
    <3>4. CASE Depth(q) = 0
      <4>1. \A n \in 1 .. L : frames + 1 - Depth(q) # 5 * (n - 1)
        BY <2>2, <2>3, <3>4
      <4> QED
        BY <2>5, <3>2, <3>3, <3>4, <4>1
    <3>5. CASE Depth(q) # 0
      <4>1. /\ b \in Pos /\ Depth(b) = Depth(q) - 1 /\ Depth(b) <= frames
            /\ frames + 1 - Depth(q) = frames - Depth(b)
        BY <2>2, <2>6, <3>1, <3>3, <3>5
      <4>2. cube[b] = Expected(b)
        BY <2>1, <2>6, <4>1 DEF InThePlanes
      <4>3. \A ch : ShownAt(ch, b) <=> ShownAt(ch, q)
        BY <3>3, <3>5 DEF ShownAt
      <4>4. Expected(q)' = Expected(b)
        BY <2>5, <4>1, <4>3 DEF Expected
      <4> QED
        BY <3>2, <4>1, <4>2, <4>4
    <3> QED
      BY <3>4, <3>5
  <2> QED
    BY <2>1, <2>5, <2>6 DEF InThePlanes
<1> QED
  BY <1>1, <1>2, <1>3, <1>4, <1>5, <1>6 DEF TextNext, Scroll

-----------------------------------------------------------------------------
(* What a text shows.                                                      *)

\* The invariant holds before the first text.
LEMMA TextInvariantInit == TextInit => TextInvariant
<1> SUFFICES ASSUME TextInit PROVE TextInvariant
  OBVIOUS
<1>1. TextTypes
  <2>1. TypeOK /\ Black \in [Channel -> Int]
    BY DarkImage DEF TextInit, Init, TypeOK, Black
  <2> QED
    BY <2>1 DEF TextInit, TextTypes, EmptyBuffer, Modes, WallModes, ThroughModes, Places,
                OnWalls, Through
<1> QED
  BY <1>1 DEF TextInit, TextInvariant, Counting, BufferHolds, OnTheWalls, InThePlanes,
              Scrolling

\* Every step keeps the invariant.
LEMMA TextInvariantNext ==
  ASSUME TextInvariant, [TextNext]_textVars
  PROVE  TextInvariant'
<1>1. CASE TextNext
  BY <1>1, TextTypesNext, CountingNext, BufferNext, WallsNext, PlanesNext DEF TextInvariant
<1>2. CASE UNCHANGED textVars
  <2>1. UNCHANGED <<cube, buffer_cube, text_buffer, tmode, pen, todo, tpc, frame, tail,
                    ribbon, frames>>
    BY <1>2 DEF textVars, drawVars, textVarsButPlace
  <2>2. TextTypes'
    BY <2>1 DEF TextInvariant, TextTypes, TypeOK, OnWalls, Through
  <2>3. Counting'
    BY <2>1 DEF TextInvariant, Counting, OnWalls, Through, Scrolling
  <2>4. BufferHolds'
    <3>1. \A k : RibbonColumn(k)' = RibbonColumn(k)
      BY <2>1 DEF RibbonColumn
    <3> QED
      BY <2>1, <3>1 DEF TextInvariant, BufferHolds, OnWalls, Scrolling
  <2>5. OnTheWalls'
    <3>1. \A q : WallLit(text_buffer, q)' <=> WallLit(text_buffer, q)
      BY <2>1 DEF WallLit
    <3> QED
      BY <2>1, <3>1 DEF TextInvariant, OnTheWalls, OnWalls, Stored, Black
  <2>6. InThePlanes'
    <3>1. \A q : Depth(q)' = Depth(q) /\ CellAt(q)' = CellAt(q)
      BY <2>1 DEF Depth, CellAt
    <3>2. \A q : Expected(q)' = Expected(q)
      BY <2>1, <3>1 DEF Expected, ShownAt, Stored, Black
    <3> QED
      BY <2>1, <3>1, <3>2 DEF TextInvariant, InThePlanes, Through
  <2> QED
    BY <2>2, <2>3, <2>4, <2>5, <2>6 DEF TextInvariant
<1> QED
  BY <1>1, <1>2

\* So it always holds.
LEMMA TextInvariantHolds == TextSpec => []TextInvariant
<1> QED
  BY TextInvariantInit, TextInvariantNext, PTL DEF TextSpec

\* Which column of the buffer, counted from the first of the ring, is seen on
\* a column of a wall; in a corner there are two.
LEMMA RingInverse ==
  ASSUME NEW a \in 0 .. 7, NEW b \in 0 .. 7, NEW j \in 0 .. 28
  PROVE  RingPlace(j) = <<a, b>> <=>
           \/ j \in 14 .. 21 /\ a = 7 /\ j = b + 14
           \/ j \in 7 .. 14 /\ b = 0 /\ j = a + 7
           \/ j \in 21 .. 28 /\ b = 7 /\ j = 28 - a
           \/ j \in 0 .. 7 /\ a = 0 /\ j = 7 - b
<1>1. CASE j \in 0 .. 7
  BY <1>1 DEF RingPlace
<1>2. CASE j \in 8 .. 14
  BY <1>2 DEF RingPlace
<1>3. CASE j \in 15 .. 21
  BY <1>3 DEF RingPlace
<1>4. CASE j \in 22 .. 28
  BY <1>4 DEF RingPlace
<1> QED
  BY <1>1, <1>2, <1>3, <1>4

\* The LEDs a frame lights are those the text has reached.
LEMMA LitIsRibbon ==
  ASSUME TextTypes, BufferHolds, tpc = "shown", OnWalls,
         NEW a \in 0 .. 7, NEW b \in 0 .. 7, NEW r \in Row
  PROVE  WallLit(text_buffer, <<a, b, r>>) <=>
           \E j \in Window : /\ RingPlace(j) = <<a, b>>
                            /\ r \in RibbonColumn(frames - 29 + j)
<1> DEFINE Lit(j) == r \in RibbonColumn(frames - 29 + j)
<1>1. ASSUME NEW j \in 0 .. 28
      PROVE  r \in text_buffer[j + 8] <=> Lit(j)
  <2>1. j + 8 \in BufferColumn /\ (j + 8) - 37 + frames = frames - 29 + j
    BY DEF BufferColumn, TextTypes
  <2>2. text_buffer[j + 8] = RibbonColumn((j + 8) - 37 + frames)
    BY <2>1 DEF BufferHolds, Scrolling
  <2> QED
    BY <2>1, <2>2
<1> HIDE DEF Lit
<1>2. /\ b + 14 \in 14 .. 21 /\ (b + 14) + 8 = b + 22
      /\ a + 7 \in 7 .. 14 /\ (a + 7) + 8 = a + 15
      /\ 28 - a \in 21 .. 28 /\ (28 - a) + 8 = (7 - a) + 29
      /\ 7 - b \in 0 .. 7 /\ (7 - b) + 8 = (7 - b) + 8
  OBVIOUS
<1>3. WallLit(text_buffer, <<a, b, r>>) <=>
        \/ a = 7 /\ Lit(b + 14)
        \/ b = 0 /\ Lit(a + 7)
        \/ /\ tmode = "fourwalls"
           /\ (b = 7 /\ Lit(28 - a)) \/ (a = 0 /\ Lit(7 - b))
  <2>1. /\ r \in text_buffer[b + 22] <=> Lit(b + 14)
        /\ r \in text_buffer[a + 15] <=> Lit(a + 7)
        /\ r \in text_buffer[(7 - a) + 29] <=> Lit(28 - a)
        /\ r \in text_buffer[(7 - b) + 8] <=> Lit(7 - b)
    BY <1>1, <1>2
  <2> QED
    BY <2>1 DEF WallLit
<1>4. \A j \in 0 .. 28 : RingPlace(j) = <<a, b>> <=>
         \/ j \in 14 .. 21 /\ a = 7 /\ j = b + 14
         \/ j \in 7 .. 14 /\ b = 0 /\ j = a + 7
         \/ j \in 21 .. 28 /\ b = 7 /\ j = 28 - a
         \/ j \in 0 .. 7 /\ a = 0 /\ j = 7 - b
  BY RingInverse
<1>5. CASE tmode = "fourwalls"
  <2>1. Window = 0 .. 28
    BY <1>5 DEF Window
  <2>2. (\E j \in 0 .. 28 : RingPlace(j) = <<a, b>> /\ Lit(j)) <=>
          \/ a = 7 /\ Lit(b + 14)
          \/ b = 0 /\ Lit(a + 7)
          \/ b = 7 /\ Lit(28 - a)
          \/ a = 0 /\ Lit(7 - b)
    BY <1>2, <1>4
  <2> QED
    BY <1>3, <1>5, <2>1, <2>2 DEF Lit
<1>6. CASE tmode = "twowalls"
  <2>1. Window = 7 .. 21
    BY <1>6 DEF Window
  <2>2. (\E j \in 7 .. 21 : RingPlace(j) = <<a, b>> /\ Lit(j)) <=>
          \/ a = 7 /\ Lit(b + 14)
          \/ b = 0 /\ Lit(a + 7)
    BY <1>2, <1>4
  <2> QED
    BY <1>3, <1>6, <2>1, <2>2 DEF Lit
<1> QED
  BY <1>5, <1>6 DEF OnWalls, WallModes

\* Frame after frame the walls show the text and nothing else, whatever text
\* was cancelled before: text_scroll_walls and text_scroll_character.
THEOREM WallsCorrect == TextSpec => []WallsShowText
<1>1. ASSUME TextInvariant
      PROVE  WallsShowText
  <2> SUFFICES ASSUME tpc = "shown", OnWalls, frames > 1, NEW i \in 0 .. 28, NEW r \in Row
               PROVE  cube[<<RingPlace(i)[1], RingPlace(i)[2], r>>] =
                        IF \E j \in Window : /\ RingPlace(j) = RingPlace(i)
                                             /\ r \in RibbonColumn(frames - 29 + j)
                        THEN Stored(pen) ELSE Black
    BY DEF WallsShowText, OnWalls
  <2>1. PICK a \in 0 .. 7, b \in 0 .. 7 :
          RingPlace(i) = <<a, b>> /\ (a \in {0, 7} \/ b \in {0, 7})
    <3>1. CASE i \in 0 .. 7
      BY <3>1 DEF RingPlace
    <3>2. CASE i \in 8 .. 14
      BY <3>2 DEF RingPlace
    <3>3. CASE i \in 15 .. 21
      BY <3>3 DEF RingPlace
    <3>4. CASE i \in 22 .. 28
      BY <3>4 DEF RingPlace
    <3> QED
      BY <3>1, <3>2, <3>3, <3>4
  <2>2. <<a, b, r>> \in Walls
    BY <2>1, Measures DEF Walls, Row
  <2>3. cube[<<a, b, r>>] =
          IF WallLit(text_buffer, <<a, b, r>>) THEN Stored(pen) ELSE Black
    BY <1>1, <2>2 DEF TextInvariant, OnTheWalls
  <2>4. WallLit(text_buffer, <<a, b, r>>) <=>
          \E j \in Window : /\ RingPlace(j) = <<a, b>>
                           /\ r \in RibbonColumn(frames - 29 + j)
    BY <1>1, LitIsRibbon DEF TextInvariant
  <2>5. <<RingPlace(i)[1], RingPlace(i)[2], r>> = <<a, b, r>>
    BY <2>1
  <2> QED
    BY <2>1, <2>3, <2>4, <2>5
<1> QED
  BY <1>1, TextInvariantHolds, PTL

\* The characters go through the cube whole and apart, whatever was on the
\* cube before: text_scroll_through, cube_plane and cube_translate.
THEOREM PlanesCorrect == TextSpec => []PlanesShowText
<1>1. TextInvariant => PlanesShowText
  BY DEF TextInvariant, InThePlanes, PlanesShowText, Expected, Through
<1> QED
  BY <1>1, TextInvariantHolds, PTL
=============================================================================
