# piCube in TLA+

piCube drives an 8x8x8 cube of RGB LEDs from a Raspberry Pi: a C program with a
Tcl shell (Jim), a real-time thread that multiplexes the cube's layers, a
watchdog for that thread, and animations that run in a thread of their own.
These modules say what the program's parts promise each other, model-check it
on small cubes, and prove part of it for cubes of every size.

## Inventory

| Part | State | Operations | Talks to |
|---|---|---|---|
| Drawing routines, `cube.c` | the matrix `cube`, the scratch and transaction buffer `buffer_cube` | `LED`, `cube_row` ... `cube_sphere`, `cube_fade`, `cube_plane`, `cube_translate`, `cube_rotate`, `cube_buffer`, `cube_from_buffer`, `cube_buffer_clear` | called by the shell and by animations; the matrix is read by the refresh thread without a lock |
| Refresh thread, `cube.c` | where it is in a pass; the shift register, its latch and the layer pins (hardware) | `cube_refresh`: 6 exposures of 8 layers, then sleep until 8 ms after the pass began | reads `exiting`, sets `canary` |
| Canary thread, `canary.c` | `canary` | look every 500 ms, after 5 s; turn the cube off and exit when the flag was not set | reads `exiting`, resets `canary` |
| Main thread, `main.c`, `cube.c`, `util.c` | `cube_running`, `exiting`, the lock file | `cube_start`, `cube_stop`, `cube_layer_control`, the crash handler | creates and joins the two threads |
| Shell, `jim.c` and Jim's prompt | `transaction`, the interpreter's signal mask, `anim_thread` | one command per handler, SIGINT handler | drawing routines, animation threads |
| Text, `text.c` | the static text buffer; the text in hand, its mode and colour; font data | scroll round two or four walls, or through the cube along each axis | drawing routines; runs in a thread of `cube.text` |
| Animations, `anim.c`, `anim/` | a thread, what each keeps | draw, delay, draw ...; `rotateCube` | drawing routines, sprites |
| Sprites, `sprite.c` | a box of colours and its buffer, the size, place, motion, intensity | paint, describe, rotate, set, clear, move, bounce, roll | `LED` of the drawing routines; called by animations |
| Tcl sprites, `ext/sprite.class` | a nested list of colours, place, motion, size | place, motion, data, draw, hide, move, bounce, roll, rotate | lines of commands for the shell, so transactions and signals |
| Tables and colours, `include/`, `tables.h` | constants | rotation, the colour wheel | rotation, `cube.colour` |
| Lock, GPIO, hardware detection, help, vendored Jim Tcl | | | |

What is hard here, and what each part must get right:

* **Shared memory without locks.** The interpreter and an animation write the
  same matrix and buffer, the refresh thread reads the matrix. "Memory barriers
  are not used since the buffer will only be accessed from a single thread"
  (`cube.c:128`) is a claim about the shell: it must wait for its animations.
* **A signal handler in the middle of anything.** `jim_signal_handler` cancels
  the animation, marks the interpreter and clears `transaction`, between any two
  steps of the interpreter, so also between a test of `transaction` and its
  assignment, or between the join of a thread and the reset of its handle.
* **One bit at a time.** The refresh thread reads the matrix component by
  component while others write it, and what it has read passes through pins,
  shift registers, latches and a layer pin, in an order that must never show
  the bits of one layer on another.
* **Hardware that burns.** A layer left on at full current destroys LEDs. Two
  threads, a signal handler and three sleeps share the duty of turning it off;
  the sleeps are against a clock that can be set, and can be cut short.
* **Sprites.** Each movement clears and draws with the state of the moment, four
  turns of a roll are tried on a motion each of them may change, and a rotation
  permutes indices of which one runs from the top, over memory never written.
* **Lines of commands.** A Tcl sprite draws and hides in transactions of its own,
  each a dozen commands long; a signal, or a transaction of the user, ends a line
  at any of them, and the next line must find the sprite where it was left.
* **A buffer that outlives its text.** The walls show four windows of one static
  buffer that is shifted under them; what a cancelled text leaves in it must not
  come round with the next.
* **Geometry.** Planes drawn and read by two sets of loops with flipped axes;
  translation through one shared scratch buffer; rotation by a table that is
  neither one-to-one nor onto; component values that pass from `long` through
  `uint8_t` to six bits.

The hazards are listed, each at its line, in `PROJECT.json`.

## Modules

`CubeDraw` is the base; `CubeShell` extends it, so that what a command or an
animation does to the images in `CubeShell` is a routine of `CubeDraw`.
`CubeThreads` stands alone: the drawing has no influence on when the three
threads do what, nor they on it. `CubeText`, `TclSprite` and `CubeRotate` extend
`CubeDraw` too: they are callers of its routines, with the state a text, a Tcl
sprite and a rotating picture add. `CubeRefresh` is the refresh thread again, as
what it does with the matrix and without its times; `CubeDisplay` is the abstract
specification it implements.

### CubeDraw: the drawing routines

`cube` and `buffer_cube` are functions from positions (column, panel, layer) to
colours. Every routine of `cube.c` that writes them is an action of that name;
the flag `buffer` of the code is the first parameter. Each routine runs in one
thread to its end, so each is one step. The three edges are separate constants:
a routine that confuses two axes cannot hide behind a symmetric cube.

A colour component goes the way of the code: what a caller passes (`Paint`: raw
from the pen or a plane, or capped by the macro `HANDLE_COLOUR`) is cut to a byte
(`Byte`, `v % ByteMod`) and then capped (`Clamp`). `Stored` is the two together.
Regions named by an index off the grid are empty, as the LED routines' early
returns make them. A fade shifts by any amount a user names; where C does not
define the shift (`Shifts`) it is by some number of bits, the same for all LEDs.

`cube_translate` is three passes through the buffer, each copying the cube first
(`Pass`, `Copied`). `cube_rotate` draws column by column where `Turn`, a constant,
sends each LED; the last one drawn on a place stays (`DrawnAfter`). The lookup
tables are data: the results hold for every table.

### CubeShell: commands, transactions, animations, SIGINT

`mpc` is the interpreter, `apc` the animation thread. A command is one step unless
a signal in its middle matters: `cube.begin` and `cube.commit` set their flag in a
step of their own, `cube.anim` and `cube.text` are create, join, reset of the
handle, look at the result. The animation draws by any routine (`AnimFrame`),
then sleeps (`AnimDelay`), the one place a cancellation acts; it may end by itself.
`Interrupt` is the handler, enabled in every state; right between join and reset
`pthread_cancel` gets a stale handle, which the C library leaves undefined, so
the model lets the process crash there or go on. Nothing looks at the result of
`pthread_create`: when it fails (`CreateFails`) the join crashes on a zero or stale
handle, or returns an error with `retval` as it lay on the stack, which may wipe
the cube as if the animation had been cancelled.

After each command the interpreter looks at its mask (`CheckSignal`); errors end a
line unless caught (`CommandFailed`), a signal is not caught by a plain `catch`.
The prompt clears the mask (`ResetSignals`). A script run from a file ends the
program instead of coming back to the prompt; everything before that is alike.

### CubeThreads: refresh, canary, main, time

The three threads as program counters with timers. A tick passes only when no
real-time thread is ready (`SCHED_FIFO`), while the main thread may dawdle at any
point. The refresh thread sleeps until a wall-clock time: `SetClock` moves its
wake-up and the end of its pass back or forth. Sleeps of the canary and of the
crash handler are relative. `Interrupt` is a handler that runs in a thread and
cuts its `clock_nanosleep` or `sleep` short; the canary's `delay` resumes. The process
is `dead` when it has ended or been killed, and `exited` when `start_thread` gave up,
the one end of it that turns nothing off.
`quiet`, `glow` and `manual` are history variables for the properties: ticks
since the refresh thread began a pass, ticks its layer has been lit, layers
switched on with `cube.hw.debug -layer`.

### CubeRefresh: from the matrix to the columns, and CubeDisplay

`rpc`, `slot`, `taken`, `read` say where the thread is: which exposure (`slot`, bit
by bit and in each layer by layer), how many LEDs clocked in, which components
of the next one read. Reading a component (`ReadComponent`), the rising `CLOCK`
(`ClockBits`), the rising `LATCH`, the layer on, the layer off are steps, and
`Store`, one component written by anybody, may come between any two: that is
how fine the code's sharing is, since `cube_from_buffer` and the drawing routines
write byte by byte. `cube_stop`, `cube_start` and `cube_load_layer` are here with
what they do to pins (the colours' too) and registers.

The registers are hardware, seen through how the code uses them: a bit is taken
in, and the columns change, when a pin rises. (A pass of 64 LEDs per layer makes
64 rising edges on each layer and, on the first one of a bit, only 63 falling
ones, since it begins by bringing `CLOCK` low.) A level here is `0 .. 2^Bits - 1`, one
value for each of the `Bits` bits that are shown; `CubeDraw` proves that no routine
stores any other. Layer pins switched by hand (`cube.hw.debug -layer`) and the
canary are in `CubeThreads` only.

`CubeDisplay` has the matrix, what is shown and, per component, the values it has
had since the last exposure (`recent`). An exposure lights one layer, in the
order of bits and layers, with one bit of a recent value for each LED and colour.
It leaves open what the code leaves open: the LEDs of an exposure, the colours
of an LED and the bits of a component over a pass may be of different moments.
`CubeRefresh` implements it with `shown` mapped to what the latches drive while a
layer is lit (`Shown`). `glow` and `touched` are history variables for
`StillIsExact`.

### CubeSprite: the sprites, and SpriteLoop

One sprite, as `struct sprite` has it, and the image it is drawn on; each routine of
`sprite.c` is an action of its name, and a behaviour is any sequence of calls an
animation may make. `sprite_create` leaves the colours as `malloc` found them:
they are `Junk`, equal to no colour, and a sprite begins with any place and motion.
Positions are functions from axes to numbers. `Under` gives the sprite's cell at a
position of the cube, `CellOf` its colour: the description is indexed layer first
and from the top. Painting counts its three indices in another order than drawing does
(`Painted`), which is why `NoJunkShown` is about cubes; a rotation copies its whole buffer
back, with whatever was in it before.

The 24 turns of the six rolls are a table (`Turns`): at the wall the first heading
leads to, the second is taken. The four of a roll are tried one after another
on the motion the one before left (`Rolled`), as the code's `if`s are. A motion
that is none of the headings of a roll starts it (`Start`).

What the animations keep to is a guard: a rotation needs equal edges in its plane
(`Square`), a sprite is placed anew only when it is not lit. An
intensity is `0 .. 4`, as the animations set it (`Bouncer` goes down to 0). The colours of other
sprites, and the conversion of a colour with an intensity, are left out.

`SpriteLoop` is an animation that only rolls its sprite, as `FlyingBoxes` does.

### CubeText: scrolling texts

One thread of `cube.text` after another, on the 8x8x8 cube `text.c` is written with.
A frame up to its delay is a step and the clearing after it another: a cancellation
(`CancelText`, with the wipe the interpreter does after the join) acts between the
two, or in the delay at the end. Round the walls, `LoadCharacter` adds a character
beyond the last wall, `ScrollColumn` shifts the buffer and lights its windows,
`ClearWalls` clears all four walls in either mode. Through the cube, a character
is drawn with `cube_plane` and moved with `cube_translate`, both of `CubeDraw`.

A column of the font or of the buffer is the set of its lit rows. `Glyph` is what the
font has; a character it has not is blank in `text_getchar`, which looks, and is
whatever lies in memory (`Strays`) in `text_scroll_walls`, which does not.
`ribbon` and `frames` are history: the characters as they were drawn, and the
frames since. With them the properties say what a reader sees: `WallsShowText`
that wall column *j* of the ring shows column *frames - 29 + j* of the text and
nothing else, `PlanesShowText` that character *n* stands, whole, 5(*n* - 1) planes
behind the first.

### TclSprite: the sprite class of Tcl

A method is a line of commands. `script` is what is left of it, a sequence built
by the operators named for the methods (`Hide`, `Move`, `Bounce`, `Roll`, `Rotate`);
each command is an action. `cube.begin` is two (a signal between its test of
`transaction` and its assignment is what `CubeShell` found to matter), and the look
for a signal after a command is part of it, with its error path: `Fails` takes the
rest of the line with it, as an error does. Cells are done in
one order (`ForEach`), the same for every line but not the one of the code's nested loops: no
property tells them apart. `entry` is history: what the line was, about which axis, on which colours, and whether
it has been disturbed by a signal since.

What users do beside the methods is `cube.begin` and `cube.commit` of their own, so
that `hide` meets a transaction in progress. Three bounds keep the sprite in sight:
it is placed only while the cube is dark, moved only from inside the cube, and has
no speed above one but what `roll` gives it.

The layer of a cell is counted from `px`, not from `pz` (`LEDOf`): the class says
"px, py, pz - position of bottom left corner", and its `draw` and `hide` agree with
each other but not with that; `test_move` and `bounce` look at `pz`. So `MovesStayInside`
is about the place, `px`, `py` and `pz`: what is drawn of a sprite that stays inside may be
partly outside, or in another layer. `ShownAtPlace` says what the class's comment does,
and is violated (*tcl_corner*).

`RotateIsQuarter` names the axis a rotation was asked for; the sense is either one, because
`rotate` does not count its directions by the same hand about every axis, and no comment says which.

### CubeRotate and RotateTables: rotation by the real tables

`RotateTables` are the three tables as integers. `CubeRotate` does the arithmetic of
`cube_rotate_layer` on them, and gives `CubeDraw`'s `Turn` the result. An angle counts
millionths of a radian. That no float is so near a boundary that rounding takes an
LED elsewhere was found by running the C expressions beside these, for every whole
degree from -360 to 720 and every frame of the loops the animations use.
`cube.rotate` and the frames of `rotateCube` are the actions. `LoopAngles` are the angles a loop
goes through, which `LoopAssumption` ties to the code's steps (`NextAngle`); `Turns` has them all. A table index past the end
(`InTable`) reads what lies behind the table, the same each time: `Astray`.

The table of angles begins at column 0, the lookup (sine for the column, cosine for the
panel) at the last panel: a rotation is a right angle ahead of what it is asked for, whatever
that is, and `help/cube.rotate` says "by a specified number of degrees". `RotatesAsAsked`
says so too, and is violated (*rotate_degrees*). The properties that hold do not have the
code's zero in them. `TurnsFromOneZero` compares two rotations in a row: some zero, the same for
both, explains where all inner LEDs land; `RightAnglesExact` has a right angle show the whole
buffer turned by some right angle, and the next one of the same buffer turn that by the
difference. `ShownTurned` is about the distance from the axis, and that nothing else shines.

### Proofs

`CubeDrawProofs`, `CubeShellProofs`, `CubeThreadsProofs`, `CubeRefreshProofs`,
`CubeSpriteProofs`, `CubeTextProofs`, `TclSpriteProofs` and `CubeRotateProofs` each hold the
theorems about the module they are named after. Those about the threads and the data path begin
with the same lemmas about division (an exposure is a bit and a layer, a number of clock
pulses a column and a panel). The section *What is proved* says what they rest on.

## Runs

| Run | Module, configuration | Shows |
|---|---|---|
| shell | `MCCubeShell`, `MCCubeShell.cfg` | `ShellTypeOK`, `SingleBufferUser`, `HandleTracksThread`, `InterruptEndsTransaction`, `CancelEndsLine`, and that a cancelled animation gives back the prompt (`CancelGivesPrompt`) and a dark cube (`CancelledIsDark`), and what changes the cube in a transaction (`DrawnInBuffer`); on the images it reaches, `TranslateIsShift` and `PlaneReadsBack` |
| threads | `MCCubeThreads`, `Threads.cfg` | with crashes, a clock setting, a signal and a thread that cannot be created: `TypeOK`, `OneOfEach`, `OneLayerLit`, `StoppedIsDark`, `DeadIsDark`, `NoAlarm`, `NoLongGlow`, `AlarmMeansQuiet`, `StopReturns` |
| refresh | `MCCubeRefresh`, `MCCubeRefresh.cfg` | `RefreshTypeOK`, `StillIsExact`, and `ImplementsDisplay`: the refresh thread implements `CubeDisplay` |
| sprite | `MCCubeSprite`, `MCCubeSprite.cfg` | `SpriteTypeOK`, `RotateIsQuarter`, `NoTrail`, `BounceStaysInside`, `RollStaysInside`, `NoJunkShown` |
| loop | `MCSpriteLoop`, `MCSpriteLoop.cfg` | sprites that are only rolled, about every axis in both directions: `RollsRound` |
| text | `MCCubeText`, `MCCubeText.cfg` | `WallsShowText`, `PlanesShowText`, and that a text ends with its LEDs dark (`TextEndsDark`) |
| tcl | `MCTclSprite`, `MCTclSprite.cfg` | under signals and failing commands: `NoTrail`, `FramesAreWhole`, `MovesStayInside`, `RotateIsQuarter`, and that every line ends (`LineEnds`) |
| rotate | `MCCubeRotate`, `MCCubeRotate.cfg` | `ShownTurned`, `RightAnglesExact`, `TurnsFromOneZero` |
| lost_signal | `MCCubeShell`, `ShellLostSignal.cfg` | `InterruptStopsAnimation` is violated |
| rotate_docs | `MCCubeRotate`, `RotateDocs.cfg` | `LookupInTable` is violated |
| rotate_degrees | `MCCubeRotate`, `RotateDegrees.cfg` | `RotatesAsAsked` is violated |
| tcl_corner | `MCTclSprite`, `TclCorner.cfg` | `ShownAtPlace` is violated |

The definitions marked `(mutant)` are plausible bugs; each stands before the
definition it would replace, and putting it in its place violates one property.

**Bounds.** `shell` has a column of two panels and two layers, a component on or off, and
three signals: one for the animation, one for the same line, one for the next. Its
drawing routines reach images on which the panels' and layers' axes can be told apart by the
planes' flips, and a translation can leave the cube on each side of both; a raw
component can wrap and one of a plane exceed the brightest level, a sphere and a fade go
further than the cube. Components do not interact, so one is enough. The theorems about the drawing
routines are for all three edges of any length. `threads` has two layers and one bit, so that a pass has
an exposure of each layer; one tick separates the end of the exposures from the end
of the pass, and the pass from what the watchers wait. Its clock step is longer than all the
canary waits; one setting of the clock and one signal are in it, and what holds only
without them has that as a condition (`NoAlarm`, `DeadIsDark`), so that most of the run's
states still count. Exposures of different lengths are in the theorems, which hold for any number of bits. `refresh` has two of everything (columns, panels, layers, colours, bits), so
that no two loops can be taken for each other, and two components written at
any moments, of the same LED, of two LEDs of a layer, or of two layers, before,
during or after their exposure. `MaxStores` is the only bound of it. `sprite` has a
sprite of eight cells in a cube of 27, the least that can move and turn; a
description with one red cell tells all positions apart. It may be `Away` from the
cube by one, so that it is also drawn in part. `loop` has a cube of edge 4 with
sprites of three shapes, two of them with unequal edges, at all places and with all
motions of a step along each axis. `text` has two characters that tell left from
right and top from bottom and one the font has not, texts of none to three of them
(three are on four walls at a time, and one has left), after one another in every
mode, so that a text meets what the one before it left in the buffer; the cube is
dark before or lit all over. `tcl` has a cube of edge 3, a sprite of two lit cells
that moves, bounces and rolls about two axes, and three squares, one across each axis, of which one
corner is lit: each is rotated about its axis and, with an edge of 1, stopped half-way about
the two others. Signals are not counted. `rotate` has one layer, since layers are turned alike, with an LED
near the middle, one in an inner row, an outside corner, and every LED; right
angles, two others, and three loops, one of them backwards and one that leaves the
table; a picture is turned at most twice (`MaxTurned`).

**Fairness.** In `CubeShell` the interpreter's own steps and the animation are
scheduled weakly fairly, both being runnable threads of a preemptive system; the
user's input, the end of an animation and signals are not assumed. In
`CubeThreads` the two real-time threads, the main thread's work once begun, and
time are weakly fair. In `SpriteLoop` the loop goes on: the code's runs 250 times.
In `CubeText` the thread of a text is scheduled, and in `TclSprite` the interpreter
goes on with a line it has; new texts, lines and signals are not assumed.

**Deadlock** is not checked in the runs of the shell and the threads: a process
that has exited or died stays so. `refresh`, `sprite`, `text`, `tcl` and `rotate` never stop. It is not checked
in `loop`: a sprite that was started beside the cube may leave it for good, and is not
followed further than `Away`.

## What the violated runs show

* *lost_signal.* The comment above the animations says a thread makes them
  interruptible by `^C`. A SIGINT before `pthread_create` has stored the handle marks the
  interpreter and reaches no thread; the interpreter is then stuck in the join, and
  the animation runs to its end. That may be during the line (after a command the mask is
  looked at, but not within `cube.anim`), and also at the prompt before the line is
  entered, since the mask is reset only when a line has been evaluated: so it is in the trace.
* *rotate_docs.* The help's example turns the cube by 45 degrees. The sum of an
  LED's angle and 45 degrees is reduced only above 6.28318 and rounded to
  twentieths; from 6.275 on it is 126, and the table ends at 125. Four LEDs of
  each layer go where the memory behind the table says. The animations' loops of
  5 and 15 degrees do the same four times a turn, those of 10 and -10 never; so do
  many negative angles and those of more than a turn.
* *rotate_degrees.* `cube.rotate 90` turns the cube by half a turn, `cube.rotate 0` by a
  quarter, `cube.rotate 270` not at all: the zero of the table of angles is not that of the
  lookup. Animations do not show it, since they begin anywhere and go round.
* *tcl_corner.* A Tcl sprite at `px` 0 and `pz` 1 is drawn in the lowest layer: `draw` and
  `hide` add the cell's height to `px`. One that is one wide and two high, at the upper wall of
  `px`, is drawn half outside the cube while its place is inside. The cube-shaped sprites of the
  examples move through the cube's layers with `px`.

More departures from what the documents say are in the models without a run of their own:

* `help/cube.begin` says all operations are done against a buffer that is copied in
  one go; `cube.translate` and `cube.rotate` draw on the real cube in a transaction
  too, and overwrite what it has built. `DrawnInBuffer` names them as its exceptions.
* `start_thread` exits the process when it cannot create a thread. If it is the
  canary, the refresh thread may have a layer lit, and nothing turns it off:
  `DeadIsDark` is not about `exited`.
* The crash handler turns the cube off, sleeps a second for the refresh thread to
  finish its pass, and turns it off again. A SIGINT ends the sleep early, and the
  refresh thread lights a layer between the second `cube_off` and `abort`:
  `DeadIsDark` is about processes that got no signal.
* `cube.begin` interrupted between its test and its assignment leaves a transaction open,
  which the handler had just closed: `InterruptEndsTransaction` has it as its one exception.
* `cube_load_layer` pulses `CLOCK` and `LATCH` high and low, for a cube that is stopped;
  a pass leaves both high. The first pulse of each is then no rising edge: the
  first LED's bits are not clocked in, the others stand one cell off, and nothing
  is latched (`Pulses` in `CubeRefresh`).
* `roll` of the Tcl class has no end for a sprite that touches two upper walls, was
  never placed, or is as large as the cube: `LineEnds` is about the others.

## What is proved

TLAPS checks these for every value of the constants that their assumptions allow
(`CubeAssumption`, `GridAssumption`, `SignalAssumption`, `ThreadAssumption`, `RefreshAssumption`,
`SpriteAssumption`, `TextAssumption`, `TclAssumption`, `RotateAssumption`, `LoopAssumption`). `PowerAssumption`, in `CubeThreads` and
`CubeRefresh`, says of the powers of two up to `2^Bits` that they are positive, grow, begin with 1 and
double: the provers have no exponentiation. TLC evaluates all of them in the runs.

* `DrawTypeCorrect`: no routine leaves a component beyond the brightest level.
  The invariant is inductive by itself; the work is one lemma per operation on an
  image (`FillImage`, `FadedImage`, `ShiftedImage`, `PlaneDrawnImage`,
  `RotatedImage`).
* `TranslateCorrect`: the three passes of a translation are one shift. A pass is a
  shift of what the cube shows (`PassShifts`), because it copies the cube first,
  and shifts along different axes compose (`ShiftsCompose`).
* `PlaneCorrect`: reading a plane gives what was drawn, since the flips of
  `OnPlane` are one-to-one and the reading loops use the same positions.
* `RotateCorrect`: a rotation by any table shows on each LED one that lands on it,
  or black (`RotateKeepsLayers`, which no run repeats: `rotate` checks more of it on the
  real tables). Among the LEDs that land on a place one is drawn last
  (`LastLandingExists`, by the finiteness of a layer).
* `ShellTypeCorrect`, `BufferHasOneUser`, `HandleIsThread`,
  `InterruptClosesTransaction`, `CancelStopsLine`, `TransactionKeepsCube`: the shell's invariants, for
  any number of signals and threads that cannot be created. They follow from `Control`, which adds to them what they
  need to be inductive: the interpreter in the join has a handle and a thread,
  past the join the thread has ended, and only an animation that exists can have
  been asked to stop. Without the last a pending request could outlive the line
  whose mask is cleared. That the images stay well formed is taken over from
  `NextType` by `ShellDraws`: every step of the shell is a step of the drawing
  routines or leaves the images alone. `TransactionKeepsCube` (`DrawnInBuffer`) also rests
  on `DrawsInBuffer`: a drawing routine told to use the buffer leaves the cube alone.
* `RefreshImplements`: the refresh thread implements `CubeDisplay`, whatever is
  written, and whenever it is stopped, started or pre-loaded. The invariant
  `OnTheirWay` (`BitsAreRecent`) follows the bits: on the pins (`OnPins`), in the shift
  registers (`InShift`) and in the latches (`InLatch`) each is a bit of a value its
  LED has had since the last exposure. It is needed because an exposure shows
  what was read at as many moments as it has components. A write keeps it since
  `recent` only grows until the layer is off (`WritesAdd`); a clock pulse moves each
  bit and the turn it belongs to together (`WayClockBits`). What ends up in the cell
  of a column is the bit of its LED because the two numberings are inverse to
  each other (`SiteHasCell`, from `RowAndPlace`: division gives back row and place).
* `StillGlowsExactly`: a layer that nobody has written to since its last exposure has
  glowed, when it is next turned off, as long as its colours say. `BitsAreRecent` alone
  does not give this, so its invariant also says of a component not written in the pass
  that the bit on its way is that of its one value. `GlowAddsUp` then relates the time
  an LED has been on to the value with its higher bits left out, which each exposure
  completes by one bit, in whatever order of layers; after the last bit nothing is left out.
  No sum is needed: `PowerAssumption` says that each weight is twice the one before.
  `RefreshTypeCorrect` is the types.
* `ThreadsTypeCorrect`, `ThreadsAreSingle`, `LayersAreSingle`, `StopLeavesDark`: the three threads,
  with signals, a clock that is set, and threads that cannot be created, in any
  number. `Control` says which thread can be where while another is somewhere else, above
  all that `exiting` is set before any thread is waited for and reset only when both are
  gone; `LitIsShown` says that the refresh thread answers for the one layer it has lit, so
  any other was lit by `cube_layer_control`. `AlarmsMeanQuiet` follows from `Silence`: a canary that is
  false when it is looked at has been false for the whole of the interval. `GlowIsBounded`
  follows from `Glowing`, which bounds how long a layer can have been lit by where the
  canary thread is in its second look: `2 * Interval` and the boot delay are
  the worst case, also when the refresh thread has died or a sleep was cut short.
* `NoAlarmInTime` and `EndsInTheDark`: the two that need time to be kept. The properties say until
  when: the clock has not been set, for both, since a clock set back can keep the refresh thread asleep; and
  for the second no SIGINT has come, since without that it is false (*What the violated runs show*).
  `InTime` is what holds until then. `PassInTime` counts what is left of a pass: `Left(s)` is
  what the exposures from `s` on take, in closed form, `LeftAtNext` says that an exposure takes its
  part of it. `SongInTime` then has the next song due before the canary wakes, and `EndInTime` has
  the pass over before the crash handler does.
* `LeavesNoTrail`, `RotateTurns`, `BounceCorrect`, `RollCorrect`, `PaintedStaysClean` and
  `SpriteTypeCorrect`: the sprites, of any size (`SpriteAssumption`: no edge as long as
  the cube's). A roll keeps to its track because its four turns are a ring
  (`TurnsGoRound`): each leads to the heading of another one, along the other axis, and
  back from there. So at most one of them applies in a call, in whatever order they are
  tried, and a sprite that has just turned is not in the next corner
  (`OppositeWalls`). Rotations are compared by where they read (`QuarterX`, `QuarterY`,
  `QuarterZ`), and a cubic sprite is clean if no cell of its box is junk in the order in
  which it is painted (`CleanCube`).
* `WallsCorrect` and `PlanesCorrect`: the scrolling texts, for every font, every text and
  every sequence of texts that end or are cancelled (`TextAssumption`: the cube is the one
  `text.c` is written for). `TextInvariant` has a part for each thing a frame rests on.
  `Counting`: the frames shown are eight, or five, for each character drawn.
  `BufferHolds`: the buffer is the text, shifted by the frames; a character is added
  where the one before has just left (`RibbonEnds`), which is why not clearing there is
  right, and the column the shift never reaches stays empty. `OnTheWalls`: the walls show
  the windows of the buffer, and are dark between frames. `InThePlanes`: the planes the
  text has reached show its characters; a step back along its way is one plane less deep
  at the same cell of the character (`OneBack`), and no character is due on the face
  while one is moved (by `Counting`). What is then left is the geometry of the walls,
  which column of the ring is seen where (`RingInverse`).

* `NoTrailLeft` and `FramesWhole`: the Tcl sprite, for cubes, sprites, pictures, places and motions
  of any size. A line is a sequence of commands of which any number may have been done; the
  invariant `TclInv` has a part for the line and one for the buffer. `Formed` says how a line is put
  together: every `cube.begin` is followed by a block (a command for each cell, then `cube.commit`),
  and `Hidden` that every movement still to be done comes after a block that hides the sprite, or
  that this block is being done, or that the cube is dark. All lines are of that
  form because joining two lines keeps it (`LineJoin`, `HiddenJoin`) and doing a command does
  (`FormedTail`, `HiddenTail`). `Building` says what the buffer shows of each cell: what the
  block wants, or a command that will still see to it. Two signals in a line, an error in the middle
  of it, and a transaction left open by the user need no part of their own: they end a line
  or open a block at a moment the invariant allows already.
* `MovesInside` and `RotationIsQuarter`: what an undisturbed line of `bounce`, `roll` or `rotate` does.
  `Follows` says that what is left of the line is the end of a plan, a function from the place in
  the line to the commands that may stand there. From the number of commands done follows the
  `BounceStage`, `RollStage` or `RotateStage`: between its movement and its turns a bounced sprite may
  be headed for a wall it is at; before its movement it is the next place of a rolled sprite that is
  clear; of a rotated one, so many cells have their colour. Two things had to be found
  for it. The loop of `roll` is also left when the table has nothing new, but not for a sprite inside:
  a wall is hit along the way the sprite goes, and the table leads along another axis (`TableTurns`).
  And a rotation that has come to its end has equal edges, although nothing tests that: both
  corners of the box have landed inside (`LandingTurns`).
* `RightAnglesCorrect`, `TurnsCorrect` and `ShownCorrect`: rotation by the real tables, for cubes of any height and colours,
  any pictures, and any angles and loops: every whole number of millionths of a radian. Where an LED
  lands depends on its distance from the centre and on the entry of the table of sines that its
  angle is rounded to. There are nine distances; for six the `Ring` lemmas say of all 126 entries where
  each takes the LED (`Arc`: from this entry to that one, to this cell), for the three of the outside
  what is needed of them. From the rings follow `InnerLandNear`, that the cell is near the angle, counted
  from one zero (a right angle on, which is the witness of `TurnsFromOneZero`), and
  `LandsHome`, that an LED turned to the angle of another one at its distance lands exactly there. The
  angles of the tables grow by a quarter turn, but for 5 millionths, from each LED to the one a quarter
  turn further (`QuarterFurther`), so a right angle takes each to one of its own (`RightLands`), nothing
  else lands there (`QuarterOneToOne`), and the last one drawn is the only one. The inductive invariant is `RotateInv`: what is shown
  is one of `Turns`, and the cube is the buffer turned by it; it needs where in its loop
  `rotateCube` is (`Running`), because the frames' angles are added up and not computed from a count. That the
  code's floats land where these integers do is no part of it: it was checked for the angles named
  in *CubeRotate and RotateTables*.

**Only model-checked:** the liveness properties (`CancelGivesPrompt`,
`CancelledIsDark`, `StopReturns`, `RollsRound`, `TextEndsDark`, `LineEnds`), which the
prover cannot do. Every safety property of the passing runs, and the refinement, is a theorem.

## Not modelled, and why

* The contents of the animations, but for `rotateCube` and the loop of `FlyingBoxes`:
  demonstrations whose pictures have no stated correctness. What the system owes
  them, and they the system, is in `CubeShell`, `CubeSprite` and `CubeDraw`.
* The font and the other pictures (`font.h`, `atom.h`, `diagonal.h`): data.
* The wheel of `cube.colour`, which maps a number to a colour "as seen"; parsing
  of arguments, which is a value or `BadCommand` here; commands that only read
  (`cube.get`, `cube.getled`, `cube.lookup`, `cube.textchar`, help).
* GPIO access and hardware detection: register writes. The lock file: one atomic call.
* Jim Tcl but for its prompt and its signal check: vendored, and by far the most
  of the repository's lines. The same holds for the other libraries beside it.

## Plan

1. *Done:* `CubeDraw`, `CubeShell`, `CubeThreads`, `CubeRefresh` with `CubeDisplay`, `CubeSprite`
   with `SpriteLoop`, `CubeText`, `TclSprite`, `CubeRotate`, and their runs; the proofs of all of them
   but `SpriteLoop`, whose one property is liveness.
2. To do: shorter proofs of `TclSprite`, where the steps of a plan are proved for each of the
   three kinds of line.
