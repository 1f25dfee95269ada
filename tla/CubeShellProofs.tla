-------------------------- MODULE CubeShellProofs ---------------------------
(***************************************************************************)
(* Proofs about the shell, for a cube of any size and any number of        *)
(* signals at any moment.  Places collects what is true of the places the  *)
(* interpreter and the animation thread can be in together; with the types *)
(* it is inductive, and the properties follow from it.  That the images    *)
(* keep their type is taken over from CubeDrawProofs: whatever the shell   *)
(* does with the two images is a step of the drawing routines.             *)
(***************************************************************************)
EXTENDS CubeShell, CubeDrawProofs

\* The type of what the shell adds to the two images.
ShellTypes ==
  /\ transaction \in BOOLEAN /\ sigmask \in BOOLEAN /\ anim_thread \in BOOLEAN
  /\ mpc \in Interpreter /\ apc \in Animation
  /\ cancel \in BOOLEAN /\ signals \in 0 .. MaxSignals

\* Where the interpreter is while there is an animation, a handle to it, or a
\* request to stop it.
Places ==
  /\ mpc = "join" => anim_thread /\ apc # "none"
  /\ mpc \in {"joined", "reap"} => Ended
  /\ mpc = "crashed" => ~Running
  /\ cancel => apc # "none"
  /\ SingleBufferUser /\ HandleTracksThread
  /\ InterruptEndsTransaction /\ CancelEndsLine

Control == ShellTypes /\ Places

-----------------------------------------------------------------------------
(* The drawing routines, as the shell runs them.                           *)

\* Whatever a step of the shell does with the cube and the buffer is a step of
\* one of the drawing routines, or nothing.
LEMMA ShellDraws ==
  ASSUME Control, [ShellNext]_shellVars
  PROVE  [Next]_drawVars
<1> USE DEF Next, drawVars
<1>1. CASE DrawCommand
  BY <1>1 DEF DrawCommand, Control, ShellTypes
<1>2. CASE MoveCommand
  BY <1>2 DEF MoveCommand
<1>3. CASE jim_cube_begin \/ jim_cube_commit
  BY <1>3 DEF jim_cube_begin, jim_cube_commit
<1>4. CASE CreateFails \/ ReapThread
  <2>1. CreateFails \/ ReapThread => UNCHANGED drawVars \/ cube_clear(FALSE)
    BY DEF CreateFails, ReapThread
  <2>2. cube_clear(FALSE) => DrawWhole(FALSE)
    BY DEF DrawWhole
  <2> QED
    BY <1>4, <2>1, <2>2
<1>5. CASE AnimFrame
  BY <1>5 DEF AnimFrame
<1>6. CASE UNCHANGED shellVars
  BY <1>6 DEF shellVars
<1>7. CASE OtherCommand \/ BadCommand \/ jim_cube_anim \/ Exit
  BY <1>7 DEF OtherCommand, BadCommand, jim_cube_anim, Exit
<1>8. CASE ReadLine \/ EndInput \/ EndLine
  BY <1>8 DEF ReadLine, EndInput, EndLine
<1>9. CASE CheckSignal \/ CommandFailed \/ ResetSignals \/ BeginReturns
           \/ CommitReturns \/ CreateThread \/ JoinThread \/ ForgetThread
  BY <1>9 DEF CheckSignal, CommandFailed, ResetSignals, BeginReturns,
              CommitReturns, CreateThread, JoinThread, ForgetThread
<1>10. CASE AnimFinish \/ AnimDelay \/ Interrupt
  BY <1>10 DEF AnimFinish, AnimDelay, Interrupt
<1> QED
  BY <1>1, <1>2, <1>3, <1>4, <1>5, <1>6, <1>7, <1>8, <1>9, <1>10
  DEF ShellNext, Command, Proceed, Animate

-----------------------------------------------------------------------------
(* The invariant of the two threads.                                       *)

\* The types are right when the shell starts.
LEMMA TypesInit == ShellInit => ShellTypes
<1> SUFFICES ASSUME ShellInit PROVE ShellTypes
  OBVIOUS
<1>1. signals \in 0 .. MaxSignals
  BY SignalAssumption DEF ShellInit
<1> QED
  BY <1>1, Zenon DEF ShellInit, ShellTypes, Interpreter, Animation

\* Every step keeps the types; only Interrupt counts.
LEMMA TypesNext ==
  ASSUME ShellTypes, [ShellNext]_shellVars
  PROVE  ShellTypes'
<1> USE DEF ShellTypes, Interpreter, Animation, At, Goto, threadVars
<1>1. CASE ReadLine \/ EndInput \/ EndLine
  BY <1>1 DEF ReadLine, EndInput, EndLine
<1>2. CASE DrawCommand \/ MoveCommand \/ OtherCommand \/ BadCommand
  BY <1>2 DEF DrawCommand, MoveCommand, OtherCommand, BadCommand
<1>3. CASE jim_cube_begin \/ jim_cube_commit
  BY <1>3 DEF jim_cube_begin, jim_cube_commit
<1>4. CASE jim_cube_anim \/ Exit
  BY <1>4 DEF jim_cube_anim, Exit
<1>5. CASE CheckSignal \/ CommandFailed \/ ResetSignals
  BY <1>5 DEF CheckSignal, CommandFailed, ResetSignals
<1>6. CASE BeginReturns \/ CommitReturns
  BY <1>6 DEF BeginReturns, CommitReturns
<1>7. CASE CreateThread \/ CreateFails \/ JoinThread \/ ForgetThread
  BY <1>7 DEF CreateThread, CreateFails, JoinThread, ForgetThread
<1>8. CASE ReapThread
  BY <1>8 DEF ReapThread
<1>9. CASE Animate
  BY <1>9 DEF Animate, AnimFrame, AnimFinish, AnimDelay
<1>10. CASE Interrupt
  <2>1. signals' \in 0 .. MaxSignals
    BY <1>10, SignalAssumption DEF Interrupt, jim_cube_stop_anim
  <2>2. transaction' \in BOOLEAN /\ sigmask' \in BOOLEAN
        /\ anim_thread' \in BOOLEAN /\ cancel' \in BOOLEAN
    BY <1>10, Zenon DEF Interrupt, jim_cube_stop_anim
  <2>3. mpc' \in Interpreter /\ apc' \in Animation
    BY <1>10 DEF Interrupt, jim_cube_stop_anim
  <2> QED
    BY <2>1, <2>2, <2>3
<1>11. CASE UNCHANGED shellVars
  BY <1>11 DEF shellVars
<1> QED
  BY <1>1, <1>2, <1>3, <1>4, <1>5, <1>6, <1>7, <1>8, <1>9, <1>10, <1>11
  DEF ShellNext, Command, Proceed

\* There is no animation when the shell starts.
LEMMA PlacesInit == ShellInit => Places
  BY DEF ShellInit, Places, Ended, Running, SingleBufferUser,
         HandleTracksThread, InterruptEndsTransaction, CancelEndsLine

\* Every step of the interpreter, of the animation and of the handler keeps
\* the two threads in places that go together.
LEMMA PlacesNext ==
  ASSUME Control, [ShellNext]_shellVars
  PROVE  Places'
<1> USE DEF Control, ShellTypes, Places, Interpreter, Animation, Ended, Running,
            SingleBufferUser, HandleTracksThread, InterruptEndsTransaction,
            CancelEndsLine, At, Goto, threadVars
<1>1. CASE ReadLine \/ EndInput \/ EndLine
  BY <1>1 DEF ReadLine, EndInput, EndLine
<1>2. CASE DrawCommand \/ MoveCommand \/ OtherCommand \/ BadCommand
  BY <1>2 DEF DrawCommand, MoveCommand, OtherCommand, BadCommand
<1>3. CASE jim_cube_begin \/ jim_cube_commit
  BY <1>3 DEF jim_cube_begin, jim_cube_commit
<1>4. CASE jim_cube_anim \/ Exit
  BY <1>4 DEF jim_cube_anim, Exit
<1>5. CASE CheckSignal \/ CommandFailed \/ ResetSignals
  BY <1>5 DEF CheckSignal, CommandFailed, ResetSignals
<1>6. CASE BeginReturns \/ CommitReturns
  <2>1. apc' = "none" /\ ~cancel' /\ ~anim_thread' /\ sigmask' = sigmask
    BY <1>6 DEF BeginReturns, CommitReturns
  <2>2. mpc' = "begun" \/ (mpc' = "check" /\ ~transaction')
    BY <1>6 DEF BeginReturns, CommitReturns
  <2> QED
    BY <2>1, <2>2
<1>7. CASE CreateThread \/ CreateFails
  <2>1. CASE CreateThread
    BY <2>1 DEF CreateThread
  <2>2. CASE CreateFails
    <3>1. mpc = "spawn" /\ mpc' \in {"crashed", "check"}
      BY <2>2 DEF CreateFails
    <3>2. apc' = apc /\ cancel' = cancel /\ anim_thread' = anim_thread
          /\ transaction' = transaction /\ sigmask' = sigmask
      BY <2>2, Zenon DEF CreateFails
    <3>3. apc = "none" /\ ~anim_thread /\ ~cancel /\ ~(sigmask /\ transaction)
      BY <3>1
    <3> QED
      BY <3>1, <3>2, <3>3
  <2> QED
    BY <1>7, <2>1, <2>2
<1>8. CASE JoinThread \/ ForgetThread \/ ReapThread
  <2>1. CASE JoinThread
    BY <2>1 DEF JoinThread
  <2>2. CASE ForgetThread
    <3>1. ~anim_thread'
      BY <2>2, Zenon DEF ForgetThread
    <3>2. mpc' = "reap" /\ UNCHANGED <<apc, cancel, transaction, sigmask>>
      BY <2>2 DEF ForgetThread
    <3>3. Ended
      BY <2>2 DEF ForgetThread
    <3> QED
      BY <3>1, <3>2, <3>3
  <2>3. CASE ReapThread
    <3>1. ~cancel'
      BY <2>3, Zenon DEF ReapThread
    <3>2. ~anim_thread /\ mpc = "reap" /\ apc' = "none" /\ mpc' = "check"
      BY <2>3 DEF ReapThread
    <3>3. UNCHANGED <<anim_thread, transaction, sigmask>>
      BY <2>3 DEF ReapThread
    <3> QED
      BY <3>1, <3>2, <3>3
  <2> QED
    BY <1>8, <2>1, <2>2, <2>3
<1>9. CASE Animate
  BY <1>9 DEF Animate, AnimFrame, AnimFinish, AnimDelay
<1>10. CASE Interrupt
  BY <1>10 DEF Interrupt, jim_cube_stop_anim
<1>11. CASE UNCHANGED shellVars
  BY <1>11 DEF shellVars
<1> QED
  BY <1>1, <1>2, <1>3, <1>4, <1>5, <1>6, <1>7, <1>8, <1>9, <1>10, <1>11
  DEF ShellNext, Command, Proceed

\* Control is an invariant of the shell.
LEMMA ControlInvariant == ShellSpec => []Control
<1>1. ShellInit => Control
  BY TypesInit, PlacesInit DEF Control
<1>2. Control /\ [ShellNext]_shellVars => Control'
  BY TypesNext, PlacesNext DEF Control
<1> QED
  BY <1>1, <1>2, PTL DEF ShellSpec

-----------------------------------------------------------------------------
\* The shell keeps its variables, and the images it lets commands, animations
\* and signals work on, within their types.
THEOREM ShellTypeCorrect == ShellSpec => []ShellTypeOK
<1>1. ShellInit => TypeOK
  BY DarkImage DEF ShellInit, Init, TypeOK
<1>2. TypeOK /\ Control /\ [ShellNext]_shellVars => TypeOK'
  BY ShellDraws, NextType
<1>3. TypeOK /\ Control => ShellTypeOK
  BY DEF Control, ShellTypes, ShellTypeOK
<1> QED
  BY <1>1, <1>2, <1>3, ControlInvariant, PTL DEF ShellSpec

\* The interpreter and an animation are never both at work on the cube and the
\* buffer: buffer_LED and its kin need no barriers, as cube.c says.
THEOREM BufferHasOneUser == ShellSpec => []SingleBufferUser
<1>1. Control => SingleBufferUser
  BY DEF Control, Places
<1> QED
  BY <1>1, ControlInvariant, PTL

\* The handle the signal handler cancels is that of a thread not yet joined,
\* but for the moment between the join and the reset.
THEOREM HandleIsThread == ShellSpec => []HandleTracksThread
<1>1. Control => HandleTracksThread
  BY DEF Control, Places
<1> QED
  BY <1>1, ControlInvariant, PTL

\* An interrupted line leaves no transaction open, except by a cube.begin that
\* was itself interrupted.
THEOREM InterruptClosesTransaction == ShellSpec => []InterruptEndsTransaction
<1>1. Control => InterruptEndsTransaction
  BY DEF Control, Places
<1> QED
  BY <1>1, ControlInvariant, PTL

\* The signal that stops an animation is still pending when the animation has
\* been joined, so that nothing more of its line is run.
THEOREM CancelStopsLine == ShellSpec => []CancelEndsLine
<1>1. Control => CancelEndsLine
  BY DEF Control, Places
<1> QED
  BY <1>1, ControlInvariant, PTL

-----------------------------------------------------------------------------
\* The drawing commands of a transaction leave the cube alone.
LEMMA DrawsInBuffer ==
  /\ \A colour : DrawShape(TRUE, colour) => cube' = cube
  /\ DrawWhole(TRUE) => cube' = cube
<1>1. ASSUME NEW img, DrawOn(TRUE, img) PROVE cube' = cube
  BY <1>1 DEF DrawOn
<1>2. ASSUME NEW region, NEW colour, Draw(TRUE, region, colour)
      PROVE  cube' = cube
  BY <1>1, <1>2 DEF Draw
<1>3. ASSUME NEW colour, DrawShape(TRUE, colour) PROVE cube' = cube
  BY <1>2, <1>3, Zenon
  DEF DrawShape, LED, cube_row, cube_column, cube_panel, cube_layer, cube_slice,
      cube_fill, cube_sphere
<1>4. ASSUME DrawWhole(TRUE) PROVE cube' = cube
  BY <1>1, <1>2, <1>4, Zenon
  DEF DrawWhole, cube_clear, cube_fill, cube_fade, cube_plane
<1> QED
  BY <1>3, <1>4

\* While a transaction is open the cube is only changed by its commit, by what
\* moves the real cube, and around an animation.
THEOREM TransactionKeepsCube == ShellSpec => DrawnInBuffer
<1> DEFINE Kept == transaction /\ cube' # cube =>
                     \/ mpc' = "commit" /\ cube' = buffer_cube
                     \/ mpc \in {"join", "reap", "spawn"}
                     \/ MoveCube
<1>1. ASSUME Control, [ShellNext]_shellVars, transaction, cube' # cube
      PROVE  Kept
  <2>1. CASE DrawCommand
    <3>1. (\E colour \in Paint : DrawShape(TRUE, colour)) \/ DrawWhole(TRUE)
      BY <1>1, <2>1 DEF DrawCommand, Control, ShellTypes
    <3> QED
      BY <1>1, <3>1, DrawsInBuffer, Zenon
  <2>2. CASE MoveCommand
    BY <2>2 DEF MoveCommand
  <2>3. CASE jim_cube_begin
    BY <1>1, <2>3 DEF jim_cube_begin, drawVars
  <2>4. CASE jim_cube_commit
    BY <1>1, <2>4 DEF jim_cube_commit, cube_from_buffer, drawVars, Goto
  <2>5. CASE CreateFails \/ ReapThread
    BY <2>5 DEF CreateFails, ReapThread, At
  <2>6. CASE AnimFrame
    BY <1>1, <2>6
    DEF AnimFrame, Control, Places, HandleTracksThread, Running, Ended,
        SingleBufferUser
  <2>7. CASE OtherCommand \/ BadCommand \/ jim_cube_anim \/ Exit
    BY <1>1, <2>7 DEF OtherCommand, BadCommand, jim_cube_anim, Exit, drawVars
  <2>8. CASE ReadLine \/ EndInput \/ EndLine
    BY <1>1, <2>8 DEF ReadLine, EndInput, EndLine, drawVars
  <2>9. CASE CheckSignal \/ CommandFailed \/ ResetSignals \/ BeginReturns
             \/ CommitReturns \/ CreateThread \/ JoinThread \/ ForgetThread
    BY <1>1, <2>9
    DEF CheckSignal, CommandFailed, ResetSignals, BeginReturns, CommitReturns,
        CreateThread, JoinThread, ForgetThread, drawVars
  <2>10. CASE AnimFinish \/ AnimDelay \/ Interrupt
    BY <1>1, <2>10 DEF AnimFinish, AnimDelay, Interrupt, drawVars
  <2>11. CASE UNCHANGED shellVars
    BY <1>1, <2>11 DEF shellVars
  <2> QED
    BY <1>1, <2>1, <2>2, <2>3, <2>4, <2>5, <2>6, <2>7, <2>8, <2>9, <2>10, <2>11
    DEF ShellNext, Command, Proceed, Animate
<1>2. Control /\ [ShellNext]_shellVars => [Kept]_shellVars
  BY <1>1
<1> QED
  BY <1>2, ControlInvariant, PTL DEF ShellSpec, DrawnInBuffer
=============================================================================
