------------------------------ MODULE TclSprite -----------------------------
(***************************************************************************)
(* The sprite class of ext/sprite.class: a sprite written in Tcl, whose    *)
(* methods are lines of commands for the shell.  Drawing and hiding are    *)
(* transactions: cube.begin, a cube.led per cell, cube.commit.  A SIGINT   *)
(* may come between any two commands, and inside cube.begin.               *)
(*                                                                         *)
(* A line is the sequence of commands still to be done.  The interpreter   *)
(* looks for a signal after each of them: the command and the look at the  *)
(* signal are one step here (CubeShell has them apart).                    *)
(***************************************************************************)
EXTENDS CubeDraw, SequencesExt

CONSTANTS
  Side,        \* the edge of the cube, 8
  Sizes,       \* the sizes sprites are created with
  Pictures,    \* the data they are given
  StartPlaces, StartMotions,   \* what place and motion are called with
  Rolls, Rotations             \* what roll and rotate are called with

Axis == 1 .. 3
Other(a) == Axis \ {a}
Cells(s) == (0 .. s[1] - 1) \X (0 .. s[2] - 1) \X (0 .. s[3] - 1)

ASSUME TclAssumption ==
  /\ Side \in Nat \ {0} /\ Cols = Side /\ Panels = Side /\ Layers = Side
  /\ Sizes \subseteq [Axis -> 1 .. Side]
  /\ \A s \in Sizes : Pictures[s] \subseteq [Cells(s) -> Colour]
  /\ \A s \in Sizes : StartPlaces[s] \cup StartMotions[s] \subseteq [Axis -> Int]
  /\ Rolls \cup Rotations \subseteq Axis \X {0, 1}

VARIABLES
  place, motion, size,  \* px py pz, dx dy dz, lx ly lz
  data,                 \* the colours of the cells
  transaction, sigmask, \* as in CubeShell
  script,               \* the commands of the line still to be done
  entry                 \* history: a line, until it is disturbed, and the
                        \* sprite it found

spriteVars == <<place, motion, size, data>>
shellVars == <<transaction, sigmask, script, entry>>
tclVars == <<drawVars, spriteVars, shellVars>>

Idle == script = <<>>

\* Where a cell is drawn: the layer is counted from px, not from pz.
LEDOf(c) == <<place[1] + c[1], place[2] + c[2], place[1] + c[3]>>
Blank == [c \in Cells(size) |-> Black]
Footprint == {LEDOf(c) : c \in Cells(size)}

-----------------------------------------------------------------------------
(* The lines, as sequences of commands.                                    *)

Do(name, args) == <<[do |-> name, args |-> args]>>
ForEach(name) == [n \in 1 .. Cardinality(Cells(size)) |->
                    [do |-> name, args |-> SetToSeq(Cells(size))[n]]]
ForAxes(name) == Do(name, <<1>>) \o Do(name, <<2>>) \o Do(name, <<3>>)

Hide == Do("begin -copy", <<>>) \o ForEach("hide") \o Do("commit", <<>>)
Drawing(begin) == Do(begin, <<>>) \o ForEach("led") \o Do("commit", <<>>)
DrawOver == Drawing("begin -copy")
\* (mutant) a move that leaves the sprite where it was drawn
MoveUnhidden == ForAxes("incr") \o DrawOver
Move == Hide \o ForAxes("incr") \o DrawOver
Bounce == Move \o ForAxes("turnlow") \o ForAxes("turnhigh")
Roll(axis, dir) == Do("steer", <<axis, dir>>) \o Move

\* Where the cell of a sprite goes in a rotation.
\* (mutant) without the reversal: a reflection
ReflectedCell(axis, dir, c) ==
  CASE axis = 1 -> <<c[1], c[3], c[2]>>
    [] axis = 2 -> <<c[3], c[2], c[1]>>
    [] axis = 3 -> <<c[2], c[1], c[3]>>
RotatedCell(axis, dir, c) ==
  CASE axis = 1 /\ dir = 0 -> <<c[1], size[3] - 1 - c[3], c[2]>>
    [] axis = 1 /\ dir = 1 -> <<c[1], c[3], size[2] - 1 - c[2]>>
    [] axis = 2 /\ dir = 0 -> <<size[3] - 1 - c[3], c[2], c[1]>>
    [] axis = 2 /\ dir = 1 -> <<c[3], c[2], size[1] - 1 - c[1]>>
    [] axis = 3 /\ dir = 0 -> <<c[2], size[1] - 1 - c[1], c[3]>>
    [] axis = 3 /\ dir = 1 -> <<size[2] - 1 - c[2], c[1], c[3]>>

\* The colours to be set come from a copy of the list.
Rotate(axis, dir) ==
  Hide \o Do("clear", <<>>)
       \o [n \in 1 .. Cardinality(Cells(size)) |->
             LET c == SetToSeq(Cells(size))[n]
             IN  [do |-> "lset", args |-> RotatedCell(axis, dir, c) \o <<data[c]>>]]
       \o DrawOver

NoLine == [line |-> "none"]

TclInit ==
  /\ Init
  /\ size \in Sizes
  /\ place = [a \in Axis |-> -1] /\ motion = [a \in Axis |-> 0]
  /\ data = Blank
  /\ transaction = FALSE /\ sigmask = FALSE
  /\ script = <<>>
  /\ entry = NoLine

-----------------------------------------------------------------------------
(* What is entered.                                                        *)

Inside == \A a \in Axis : place[a] \in 0 .. Side - size[a]
\* The same, with a plane free at each of the upper walls.
Clear == \A a \in Axis : place[a] \in 0 .. Side - 1 - size[a]
\* At a speed of at most one, and at no wall it is going to.
Headed ==
  \A a \in Axis :
    /\ motion[a] \in -1 .. 1
    /\ place[a] <= 0 => motion[a] >= 0
    /\ place[a] + size[a] > Side - 1 => motion[a] <= 0

Enter(commands) ==
  /\ Idle
  /\ script' = commands
  /\ UNCHANGED <<drawVars, spriteVars, transaction, sigmask>>
Remember(line, axis, fits) ==
  entry' = [line |-> line, axis |-> axis, fits |-> fits, data |-> data]

\* A bound of the model: a sprite that has left is moved no further.
EnterLine ==
  \/ /\ \/ Enter(DrawOver) \/ Enter(Drawing("begin")) \/ Enter(Hide)
        \/ Inside /\ Enter(Move)
        \/ Enter(Do("begin", <<>>)) \/ Enter(Do("commit", <<>>))
     /\ UNCHANGED entry
  \/ Inside /\ Enter(Bounce) /\ Remember("bounce", 0, Headed)
  \/ \E way \in Rolls :
       Inside /\ Enter(Roll(way[1], way[2])) /\ Remember("roll", way[1], Clear)
  \/ \E way \in Rotations :
       Enter(Rotate(way[1], way[2])) /\ Remember("rotate", way[1], TRUE)

Configure ==
  /\ Idle
  /\ UNCHANGED <<drawVars, size, transaction, sigmask, script, entry>>

\* place; a sprite that is lit is moved, not placed anew.
SetPlace ==
  /\ Configure /\ cube = Dark
  /\ place' \in StartPlaces[size]
  /\ UNCHANGED <<motion, data>>
SetMotion ==
  /\ Configure
  /\ motion' \in StartMotions[size]
  /\ UNCHANGED <<place, data>>
\* data, fill, outline and sphere: no command of the cube is in them.
SetPicture ==
  /\ Configure
  /\ data' \in Pictures[size]
  /\ UNCHANGED <<place, motion>>

-----------------------------------------------------------------------------
(* The commands of a line.                                                 *)

Command(name) == script # <<>> /\ Head(script).do = name
Args == Head(script).args
Cell == SubSeq(Args, 1, 3)
\* What follows the command, unless a signal has come.
Continues(commands) ==
  /\ script' = IF sigmask THEN <<>> ELSE commands
  /\ entry' = IF script' = <<>> THEN NoLine ELSE entry
  /\ sigmask' = FALSE
Returns == Continues(Tail(script))
\* An error takes the rest of the line with it.
Fails ==
  /\ script' = <<>> /\ sigmask' = FALSE /\ entry' = NoLine
  /\ UNCHANGED <<drawVars, spriteVars, transaction>>

Begins == Command("begin") \/ Command("begin -copy")
BeginFails == Begins /\ transaction /\ Fails
BeginCopies ==
  /\ Begins /\ ~transaction
  /\ IF Command("begin") THEN cube_buffer_clear ELSE cube_buffer
  /\ script' = Do("open", <<>>) \o Tail(script)
  /\ UNCHANGED <<spriteVars, transaction, sigmask, entry>>
BeginOpens ==
  /\ Command("open")
  /\ transaction' = TRUE
  /\ Returns
  /\ UNCHANGED <<drawVars, spriteVars>>

\* cube.led, in the transaction if there is one still; off the cube it does
\* nothing.
DrawCell ==
  /\ Command("led")
  /\ LED(transaction, LEDOf(Cell)[1], LEDOf(Cell)[2], LEDOf(Cell)[3], data[Cell])
  /\ Returns
  /\ UNCHANGED <<spriteVars, transaction>>
\* (mutant) a cell taken off at once
HideCellAtOnce ==
  /\ Command("hide")
  /\ LED(FALSE, LEDOf(Cell)[1], LEDOf(Cell)[2], LEDOf(Cell)[3], Black)
  /\ Returns
  /\ UNCHANGED <<spriteVars, transaction>>
HideCell ==
  /\ Command("hide")
  /\ LED(transaction, LEDOf(Cell)[1], LEDOf(Cell)[2], LEDOf(Cell)[3], Black)
  /\ Returns
  /\ UNCHANGED <<spriteVars, transaction>>

CommitFails == Command("commit") /\ ~transaction /\ Fails
Commit ==
  /\ Command("commit") /\ transaction
  /\ cube_from_buffer
  /\ transaction' = FALSE
  /\ Returns
  /\ UNCHANGED spriteVars

Increment ==
  /\ Command("incr")
  /\ place' = [place EXCEPT ![Args[1]] = @ + motion[Args[1]]]
  /\ Returns
  /\ UNCHANGED <<drawVars, motion, size, data, transaction>>

\* (mutant) turned after it has left
TurnLowLate ==
  /\ Command("turnlow")
  /\ motion' = IF place[Args[1]] < 0 /\ motion[Args[1]] < 0
               THEN [motion EXCEPT ![Args[1]] = -@] ELSE motion
  /\ Returns
  /\ UNCHANGED <<drawVars, place, size, data, transaction>>
TurnLow ==
  /\ Command("turnlow")
  /\ motion' = IF place[Args[1]] <= 0 /\ motion[Args[1]] < 0
               THEN [motion EXCEPT ![Args[1]] = -@] ELSE motion
  /\ Returns
  /\ UNCHANGED <<drawVars, place, size, data, transaction>>
TurnHigh ==
  /\ Command("turnhigh")
  /\ motion' = IF place[Args[1]] + size[Args[1]] > Side - 1 /\ motion[Args[1]] > 0
               THEN [motion EXCEPT ![Args[1]] = -@] ELSE motion
  /\ Returns
  /\ UNCHANGED <<drawVars, place, size, data, transaction>>

-----------------------------------------------------------------------------
(* roll: the walls the next movement leads to, and what is done about them.*)

\* The walls lx, ly, lz, ux, uy and uz of test_move, in its order.  It takes a
\* sprite that would touch an upper wall for one that would be outside.
Wall == 1 .. 6
AxisOf(wall) == IF wall <= 3 THEN wall ELSE wall - 3
Hit(wall) ==
  LET a == AxisOf(wall)
  IN  IF wall <= 3 THEN place[a] + motion[a] < 0
      ELSE place[a] + motion[a] + size[a] > Side - 1
Hits == {wall \in Wall : Hit(wall)}
FirstHit == CHOOSE wall \in Hits : \A other \in Hits : wall <= other

\* rolltable: from the walls of one axis along the other one, from the first
\* axis the same way as the wall looks, from the second the other way; and all
\* the other way round for direction 1.
RollTable(axis, dir, wall) ==
  LET other == CHOOSE a \in Other(axis) : a # AxisOf(wall)
      way == IF (wall <= 3) = (AxisOf(wall) < other) THEN 1 ELSE -1
  IN  [a \in Axis |-> IF a # other THEN 0 ELSE IF dir = 0 THEN way ELSE -way]

\* Along the axis it rolls about, the distance to the wall becomes the motion.
\* (mutant) to where the corner would be at the wall, and not the sprite
DistanceUnsized(wall) ==
  LET a == AxisOf(wall)
  IN  IF wall <= 3 THEN place[a] ELSE Side - 1 - place[a]
Distance(wall) ==
  LET a == AxisOf(wall)
  IN  IF wall <= 3 THEN place[a] ELSE Side - 1 - place[a] - size[a]

\* One round of the loop: the first of the walls decides.  The loop is left when
\* no wall is hit, or when the table has nothing new.
SteerByTable ==
  /\ Command("steer") /\ Hits # {} /\ AxisOf(FirstHit) # Args[1]
  /\ motion' = RollTable(Args[1], Args[2], FirstHit)
  /\ Continues(IF motion' = motion THEN Tail(script) ELSE script)
  /\ UNCHANGED <<drawVars, place, size, data, transaction>>
SteerByDistance ==
  /\ Command("steer") /\ Hits # {} /\ AxisOf(FirstHit) = Args[1]
  /\ motion' = [motion EXCEPT ![Args[1]] = Distance(FirstHit)]
  /\ Continues(script)
  /\ UNCHANGED <<drawVars, place, size, data, transaction>>
SteerClear ==
  /\ Command("steer") /\ Hits = {}
  /\ Returns
  /\ UNCHANGED <<drawVars, spriteVars, transaction>>

-----------------------------------------------------------------------------
(* rotate.                                                                 *)

ClearData ==
  /\ Command("clear")
  /\ data' = Blank
  /\ Returns
  /\ UNCHANGED <<drawVars, place, motion, size, transaction>>

\* lset refuses an index the list has not: edges that are not equal end the
\* rotation with the sprite hidden and its colours lost.
SetCell ==
  /\ Command("lset") /\ Cell \in Cells(size)
  /\ data' = [data EXCEPT ![Cell] = Args[4]]
  /\ Returns
  /\ UNCHANGED <<drawVars, place, motion, size, transaction>>
SetCellFails == Command("lset") /\ Cell \notin Cells(size) /\ Fails

-----------------------------------------------------------------------------
(* Signals.                                                                *)

\* jim_signal_handler; there is no animation thread to be stopped.  The signal
\* comes before the next command, which is still done, or at the end of the last
\* one, and then it is not.  (CubeShell has the signals at the prompt.)
Interrupt ==
  /\ ~Idle
  /\ transaction' = FALSE
  /\ entry' = NoLine
  /\ \/ ~sigmask /\ sigmask' = TRUE /\ UNCHANGED script
     \/ ~Command("open") /\ sigmask' = FALSE /\ script' = <<>>
  /\ UNCHANGED <<drawVars, spriteVars>>

Step ==
  \/ BeginFails \/ BeginCopies \/ BeginOpens \/ DrawCell \/ HideCell
  \/ CommitFails \/ Commit \/ Increment \/ TurnLow \/ TurnHigh
  \/ SteerByTable \/ SteerByDistance \/ SteerClear
  \/ ClearData \/ SetCell \/ SetCellFails

TclNext ==
  \/ EnterLine \/ SetPlace \/ SetMotion \/ SetPicture
  \/ Step \/ Interrupt

TclSpec == TclInit /\ [][TclNext]_tclVars /\ WF_tclVars(Step)

-----------------------------------------------------------------------------
\* Whatever line is interrupted where, and whatever transaction of the user
\* makes one fail: only cells of the sprite as it is placed now are lit, so that
\* the next line takes all of them off again.
NoTrail == \A q \in Pos : cube[q] # Black => q \in Footprint

\* The sprite appears and disappears whole: the cube changes when a transaction
\* is committed, and shows all of the sprite then or nothing.  Only the one
\* command that runs after a signal has ended the transaction shows a cell.
AllShown == \A c \in Cells(size) : LEDOf(c) \in Pos => cube[LEDOf(c)] = data[c]
FramesAreWhole ==
  [][cube' # cube => \/ sigmask
                     \/ Command("commit") /\ (AllShown' \/ cube' = Dark)]_tclVars

\* The last command of a line that was not disturbed.
Ends(line) ==
  entry.line = line /\ Len(script) = 1 /\ script' = <<>> /\ Step

\* bounce turns round before px, py and pz leave the places a sprite of that size
\* has in the cube: one at a speed of at most one stays among them, and is never
\* left at a wall it is going to.  roll turns in time too, at any speed, for a
\* sprite that leaves a plane free at each upper wall: test_move takes that plane
\* for the outside, and one that has got there may be rolled on and out.  (What is
\* drawn is another matter: ShownAtPlace.)
MovesStayInside ==
  [][entry.line # "none" /\ entry.fits =>
       /\ Ends("bounce") => Inside' /\ Headed'
       /\ Ends("roll") => Clear']_tclVars

\* A rotation is a quarter turn of the colours about the axis that is asked for
\* and the middle of the sprite: twice the distances of a cell from it are
\* exchanged, one of them negated.
Middle(c, a) == 2 * c[a] - (size[a] - 1)
QuarterTurned(axis, old, new) ==
  LET a == CHOOSE x \in Other(axis) : \A y \in Other(axis) : x <= y
      b == CHOOSE x \in Other(axis) : x # a
  IN  size[a] = size[b] /\ \E sign \in {-1, 1} : \A c, e \in Cells(size) :
        /\ e[axis] = c[axis]
        /\ Middle(e, a) = sign * Middle(c, b)
        /\ Middle(e, b) = (0 - sign) * Middle(c, a)
        => new[e] = old[c]
RotateIsQuarter ==
  [][Ends("rotate") => QuarterTurned(entry.axis, entry.data, data)]_tclVars

\* What shines is between "px, py, pz - position of bottom left corner" and the
\* upper right one.  It is not: draw and hide count the layer from px.
ShownAtPlace ==
  \A q \in Pos : cube[q] # Black =>
    \A a \in Axis : q[a] \in place[a] .. place[a] + size[a] - 1

\* A line comes to its end: the loop of roll finds a way for such a sprite.  It
\* may not for one that touches two upper walls, where bounce or place can
\* bring it.
LineEnds == Clear /\ script # <<>> ~> script = <<>>
=============================================================================
