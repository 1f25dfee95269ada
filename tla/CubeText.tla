------------------------------ MODULE CubeText ------------------------------
(***************************************************************************)
(* The scrolling texts of text.c, run by cube.text in a thread of its own: *)
(* round two or four walls of the cube, one column of a character a frame, *)
(* or through the cube, one plane a frame.  The text buffer of the walls   *)
(* is a static that outlives a text, also one that was cancelled.          *)
(*                                                                         *)
(* The cube is the 8x8x8 one, whose measures text.c is written with.  The  *)
(* font, data in the code, is the constant Glyph; a column of a character, *)
(* or of the buffer, is the set of its rows that are lit.                  *)
(***************************************************************************)
EXTENDS CubeDraw, Sequences

CONSTANTS
  Chars,      \* the characters, those the font has and others
  Glyph,      \* the columns of the characters the font has
  Strays,     \* what lies in memory where the font has no such character
  Texts,      \* the texts users scroll
  Pens,       \* the colours they scroll them in
  Pictures    \* what may be on the cube before

Row == 0 .. 7
GlyphColumn == 0 .. 7
Cells == [GlyphColumn -> SUBSET Row]

ASSUME TextAssumption ==
  /\ Cols = 8 /\ Panels = 8 /\ Layers = 8
  /\ DOMAIN Glyph \subseteq Chars /\ Glyph \in [DOMAIN Glyph -> Cells]
  /\ Strays \subseteq Cells
  /\ Texts \subseteq Seq(Chars) /\ Pens \subseteq [Channel -> Int]
  /\ Pictures \subseteq Image

VARIABLES
  text_buffer,  \* the columns left of, on and right of the walls
  tmode,        \* the mode of the text
  pen,          \* its colour
  todo,         \* the characters not yet in the buffer or on the cube
  tpc,          \* where the thread is
  frame,        \* the frames shown of the character in hand
  tail,         \* the characters' worth of frames shown since the last one
  ribbon,       \* history: the characters so far, as they were drawn
  frames        \* history: the frames shown of this text

textVarsButPlace == <<text_buffer, tmode, pen, todo, frame, tail, ribbon, frames>>
textVars == <<drawVars, tpc, textVarsButPlace>>

\* idle    no text                  ready  cube.text entered
\* next    done with a character    scroll about to show a frame
\* shown   in the delay after it    last   in the long delay at the end
Places == {"idle", "ready", "next", "scroll", "shown", "last"}
WallModes == {"twowalls", "fourwalls"}
ThroughModes == {"X", "Y", "Z"}
Modes == WallModes \cup ThroughModes

BufferColumn == 0 .. 45
EmptyBuffer == [c \in BufferColumn |-> {}]

TextInit ==
  /\ Init
  /\ text_buffer = EmptyBuffer
  /\ tmode = "twowalls" /\ pen = Black /\ todo = <<>>
  /\ tpc = "idle" /\ frame = 0 /\ tail = 0
  /\ ribbon = <<>> /\ frames = 0

-----------------------------------------------------------------------------
\* What text_scroll_walls finds in the font; it does not look whether the
\* font has the character.
CellsOf(c) == IF c \in DOMAIN Glyph THEN {Glyph[c]} ELSE Strays

\* (mutant) the rows counted from the bottom
GetcharUpsideDown(c) ==
  [g \in GlyphColumn \X Row |->
     IF c \in DOMAIN Glyph /\ g[2] \in Glyph[c][g[1]] THEN pen ELSE Black]
\* The grid cube_plane draws, rows counted from the top.  A character the font
\* has not is blank.
text_getchar(c) ==
  [g \in GlyphColumn \X Row |->
     IF c \in DOMAIN Glyph /\ 7 - g[2] \in Glyph[c][g[1]] THEN pen ELSE Black]

\* What other commands leave on the cube and in its buffer before a text.
OtherCommands ==
  /\ tpc = "idle" /\ tpc' = "ready"
  /\ cube' \in Pictures /\ buffer_cube' = cube'
  /\ UNCHANGED textVarsButPlace

\* (mutant) the buffer left as the text before left it
StartDirty(text, mode, colour) ==
  /\ tpc = "ready" /\ tpc' = "next"
  /\ tmode' = mode /\ pen' = colour /\ todo' = text
  /\ frame' = 0 /\ tail' = 0 /\ ribbon' = <<>> /\ frames' = 0
  /\ UNCHANGED <<drawVars, text_buffer>>
text_scroll(text, mode, colour) ==
  /\ tpc = "ready" /\ tpc' = "next"
  /\ text_buffer' = EmptyBuffer
  /\ tmode' = mode /\ pen' = colour /\ todo' = text
  /\ frame' = 0 /\ tail' = 0 /\ ribbon' = <<>> /\ frames' = 0
  /\ UNCHANGED drawVars

-----------------------------------------------------------------------------
(* Round the walls.                                                        *)

\* The next character is added in the columns beyond the last wall; nothing
\* is taken away there.
LoadCharacter ==
  /\ tpc = "next" /\ tmode \in WallModes /\ todo # <<>>
  /\ \E cells \in CellsOf(Head(todo)) :
       /\ text_buffer' = [c \in BufferColumn |->
            IF c - 37 \in GlyphColumn THEN text_buffer[c] \cup cells[c - 37]
            ELSE text_buffer[c]]
       /\ ribbon' = Append(ribbon, cells)
  /\ todo' = Tail(todo) /\ frame' = 0 /\ tpc' = "scroll"
  /\ UNCHANGED <<drawVars, tmode, pen, tail, frames>>

\* After the last character, four characters' worth of frames.
LoadNothing ==
  /\ tpc = "next" /\ tmode \in WallModes /\ todo = <<>> /\ tail < 4
  /\ tail' = tail + 1 /\ frame' = 0 /\ tpc' = "scroll"
  /\ UNCHANGED <<drawVars, text_buffer, tmode, pen, todo, ribbon, frames>>

\* The last column is never written, nor shifted into.
ShiftedBuffer ==
  [c \in BufferColumn |-> IF c < 45 THEN text_buffer[c + 1] ELSE text_buffer[c]]

\* The LEDs a frame lights: two of the walls, or all of them.
WallLit(buf, q) ==
  \/ q[1] = 7 /\ q[3] \in buf[q[2] + 22]
  \/ q[2] = 0 /\ q[3] \in buf[q[1] + 15]
  \/ /\ tmode = "fourwalls"
     /\ \/ q[2] = 7 /\ q[3] \in buf[(7 - q[1]) + 29]
        \/ q[1] = 0 /\ q[3] \in buf[(7 - q[2]) + 8]

\* text_scroll_character up to its delay.
ScrollColumn ==
  /\ tpc = "scroll" /\ tpc' = "shown"
  /\ text_buffer' = ShiftedBuffer
  /\ cube' = Fill(cube, {q \in Pos : WallLit(ShiftedBuffer, q)}, pen)
  /\ frame' = frame + 1 /\ frames' = frames + 1
  /\ UNCHANGED <<buffer_cube, tmode, pen, todo, tail, ribbon>>

\* And after it: all four walls are cleared, in either mode.
Walls == {q \in Pos : q[1] \in {0, 7} \/ q[2] \in {0, 7}}
\* (mutant) only the walls of the two-wall mode cleared
ClearFront ==
  /\ tpc = "shown" /\ tmode \in WallModes
  /\ cube' = Fill(cube, {q \in Pos : q[1] = 7 \/ q[2] = 0}, Black)
  /\ tpc' = IF frame < 8 THEN "scroll" ELSE "next"
  /\ UNCHANGED <<buffer_cube, textVarsButPlace>>
ClearWalls ==
  /\ tpc = "shown" /\ tmode \in WallModes
  /\ cube' = Fill(cube, Walls, Black)
  /\ tpc' = IF frame < 8 THEN "scroll" ELSE "next"
  /\ UNCHANGED <<buffer_cube, textVarsButPlace>>

-----------------------------------------------------------------------------
(* Through the cube.                                                       *)

\* The face a character enters by, and the way it goes.
Face == [X |-> <<"slice", 0>>, Y |-> <<"panel", 0>>, Z |-> <<"layer", 7>>]
Way == [X |-> <<1, 0, 0>>, Y |-> <<0, 1, 0>>, Z |-> <<0, 0, -1>>]

\* The plane is overwritten, whatever has been moved there.
PlaceCharacter ==
  /\ tpc = "next" /\ tmode \in ThroughModes /\ todo # <<>>
  /\ cube_plane(FALSE, Face[tmode][1], Face[tmode][2], text_getchar(Head(todo)))
  /\ ribbon' = Append(ribbon, Head(todo))
  /\ todo' = Tail(todo) /\ frame' = 0 /\ tpc' = "shown"
  /\ UNCHANGED <<text_buffer, tmode, pen, tail, frames>>

\* After the last character four planes more.
PlaceNothing ==
  /\ tpc = "next" /\ tmode \in ThroughModes /\ todo = <<>> /\ tail = 0
  /\ tail' = 1 /\ frame' = 0 /\ tpc' = "shown"
  /\ UNCHANGED <<drawVars, text_buffer, tmode, pen, todo, ribbon, frames>>

\* The frames between two characters, and after the last.
PlanesApart == IF tail = 0 THEN 5 ELSE 4
\* A delay and a movement.
MovePlane ==
  /\ tpc = "shown" /\ tmode \in ThroughModes
  /\ cube_translate(Way[tmode][1], Way[tmode][2], Way[tmode][3])
  /\ frame' = frame + 1 /\ frames' = frames + 1
  /\ tpc' = IF frame + 1 < PlanesApart THEN "shown" ELSE "next"
  /\ UNCHANGED <<text_buffer, tmode, pen, todo, tail, ribbon>>

-----------------------------------------------------------------------------
(* The end of a text.                                                      *)

LastCharacterOut ==
  /\ tpc = "next" /\ todo = <<>> /\ tail = (IF tmode \in WallModes THEN 4 ELSE 1)
  /\ tpc' = "last"
  /\ UNCHANGED <<drawVars, textVarsButPlace>>

EndText ==
  /\ tpc = "last" /\ tpc' = "idle"
  /\ text_buffer' = IF tmode \in WallModes THEN EmptyBuffer ELSE text_buffer
  /\ UNCHANGED <<drawVars, tmode, pen, todo, frame, tail, ribbon, frames>>

\* A cancellation acts in a delay; the interpreter then wipes the cube.
CancelText ==
  /\ tpc \in {"shown", "last"} /\ tpc' = "idle"
  /\ cube_clear(FALSE)
  /\ UNCHANGED textVarsButPlace

-----------------------------------------------------------------------------
StartText ==
  \E text \in Texts, mode \in Modes, colour \in Pens :
    text_scroll(text, mode, colour)

\* What the thread of a text does by itself.
Scroll ==
  \/ LoadCharacter \/ LoadNothing \/ ScrollColumn \/ ClearWalls
  \/ PlaceCharacter \/ PlaceNothing \/ MovePlane
  \/ LastCharacterOut \/ EndText

TextNext == OtherCommands \/ StartText \/ Scroll \/ CancelText

TextSpec == TextInit /\ [][TextNext]_textVars /\ WF_textVars(Scroll)

-----------------------------------------------------------------------------
\* The columns of the walls in the order a reader walking round sees them:
\* left, front, right and back, each sharing a column with the next.  The
\* last one is the first again.
RingPlace(i) ==
  CASE i \in 0 .. 7   -> <<0, 7 - i>>
    [] i \in 8 .. 14  -> <<i - 7, 0>>
    [] i \in 15 .. 21 -> <<7, i - 14>>
    [] i \in 22 .. 28 -> <<28 - i, 7>>
Window == IF tmode = "fourwalls" THEN 0 .. 28 ELSE 7 .. 21

\* Column k of the text; there is nothing before it and after it.
RibbonColumn(k) ==
  IF k \in 0 .. 8 * Len(ribbon) - 1 THEN ribbon[k \div 8 + 1][k % 8] ELSE {}

\* Frame after frame the text moves round the walls by one column, none of
\* its columns skipped, shown twice or mixed with another's, whatever text
\* was cancelled before; only in the corner where the four walls close are
\* its first and its last visible column over one another.  The first frame
\* is drawn over what was on the walls.
WallsShowText ==
  tpc = "shown" /\ tmode \in WallModes /\ frames > 1 =>
    \A i \in 0 .. 28, r \in Row :
      cube[<<RingPlace(i)[1], RingPlace(i)[2], r>>] =
        IF \E j \in Window : /\ RingPlace(j) = RingPlace(i)
                             /\ r \in RibbonColumn(frames - 29 + j)
        THEN Stored(pen) ELSE Black

\* Where a position is on the way of the characters, and which column and row
\* of a character is seen there.
Depth(q) == CASE tmode = "X" -> q[1] [] tmode = "Y" -> q[2] [] tmode = "Z" -> 7 - q[3]
CellAt(q) ==
  CASE tmode = "X" -> <<7 - q[2], q[3]>>
    [] tmode = "Y" -> <<q[1], q[3]>>
    [] tmode = "Z" -> <<q[1], q[2]>>
ShownAt(c, q) == c \in DOMAIN Glyph /\ CellAt(q)[2] \in Glyph[c][CellAt(q)[1]]

\* The characters go through the cube one plane a frame, five planes apart,
\* each of them whole on every plane, with nothing between them.
PlanesShowText ==
  tpc = "shown" /\ tmode \in ThroughModes /\ ribbon # <<>> =>
    \A q \in Pos : Depth(q) <= frames =>
      cube[q] = IF \E n \in 1 .. Len(ribbon) :
                     /\ frames - Depth(q) = 5 * (n - 1)
                     /\ ShownAt(ribbon[n], q)
                THEN Stored(pen) ELSE Black

\* A text comes to its end, and is gone then: the frames after the last
\* character are enough to take it off the walls, or out of the cube, and a
\* cancelled one is wiped away.  Only a text of no character at all may leave
\* what was in the cube before.
TextEndsDark ==
  tpc = "shown" /\ (tmode \in WallModes \/ ribbon # <<>>) ~>
    /\ tpc = "idle"
    /\ \A q \in IF tmode \in WallModes THEN Walls ELSE Pos : cube[q] = Black
=============================================================================
