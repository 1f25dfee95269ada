----------------------------- MODULE CubeShell ------------------------------
(***************************************************************************)
(* The cube shell of jim.c: the interpreter runs the commands of a line    *)
(* one after another; cube.begin and cube.commit make them draw in the     *)
(* buffer; cube.anim and cube.text run their animation in a thread of its  *)
(* own, which the interpreter joins; and SIGINT runs jim_signal_handler    *)
(* between any two steps of the interpreter.                               *)
(*                                                                         *)
(* A command is one step unless a signal in the middle of it makes a       *)
(* difference; mpc then names the point the interpreter has reached.       *)
(***************************************************************************)
EXTENDS CubeDraw

CONSTANT MaxSignals          \* how often SIGINT may arrive

ASSUME SignalAssumption == MaxSignals \in Nat

VARIABLES
  transaction,   \* cube.begin has been done, and no cube.commit since
  sigmask,       \* j->sigmask, which holds SIGINT or nothing
  anim_thread,   \* the handle of the animation thread is not 0
  mpc,           \* where the interpreter is
  apc,           \* where the animation thread is, or how it ended
  cancel,        \* the animation thread has been asked to stop
  signals        \* the SIGINTs so far

threadVars == <<anim_thread, apc, cancel>>
shellVars == <<cube, buffer_cube, transaction, sigmask, anim_thread, mpc, apc,
               cancel, signals>>

\* prompt   reading a line               eval     about to run a command
\* begin    the buffer of cube.begin is ready, transaction not yet 1
\* commit   cube.commit has copied, transaction not yet 0
\* spawn    in cube.anim or cube.text, the thread not yet created
\* join     in pthread_join              joined   it returned
\* reap     anim_thread is 0 again, the result not yet looked at
\* begun    cube.begin has returned      check    another command has
\* failed   a command returned JIM_ERR   reset    the line has ended
Interpreter == {"prompt", "eval", "begin", "commit", "spawn", "join", "joined",
                "reap", "begun", "check", "failed", "reset", "exited", "crashed"}
Animation == {"none", "draw", "delay", "done", "cancelled"}

Running == apc \in {"draw", "delay"}
Ended   == apc \in {"done", "cancelled"}

At(place) == mpc = place
Goto(place) == mpc' = place

ShellInit ==
  /\ Init
  /\ transaction = FALSE /\ sigmask = FALSE /\ anim_thread = FALSE
  /\ mpc = "prompt" /\ apc = "none" /\ cancel = FALSE /\ signals = 0

-----------------------------------------------------------------------------
(* Jim_InteractivePrompt and the loop of Jim_EvalObj.                      *)

ReadLine ==
  /\ At("prompt") /\ Goto("eval")
  /\ UNCHANGED <<drawVars, threadVars, transaction, sigmask, signals>>

\* End of input.
EndInput ==
  /\ At("prompt") /\ Goto("exited")
  /\ UNCHANGED <<drawVars, threadVars, transaction, sigmask, signals>>

EndLine ==
  /\ At("eval") /\ Goto("reset")
  /\ UNCHANGED <<drawVars, threadVars, transaction, sigmask, signals>>

\* After each command the interpreter looks for a signal: one makes the whole
\* line return JIM_SIGNAL, whatever the command returned, and no plain catch
\* holds it up.
CheckSignal ==
  /\ mpc \in {"begun", "check"}
  /\ Goto(IF sigmask THEN "reset" ELSE "eval")
  /\ UNCHANGED <<drawVars, threadVars, transaction, sigmask, signals>>

\* An error ends the line too, unless the script catches it.
CommandFailed ==
  /\ At("failed")
  /\ \/ Goto("reset")
     \/ ~sigmask /\ Goto("eval")
  /\ UNCHANGED <<drawVars, threadVars, transaction, sigmask, signals>>

ResetSignals ==
  /\ At("reset") /\ Goto("prompt")
  /\ sigmask' = FALSE
  /\ UNCHANGED <<drawVars, threadVars, transaction, signals>>

\* The exit command: JIM_EXIT, which a signal overrides like any result.
Exit ==
  /\ At("eval") /\ Goto(IF sigmask THEN "reset" ELSE "exited")
  /\ UNCHANGED <<drawVars, threadVars, transaction, sigmask, signals>>

-----------------------------------------------------------------------------
(* The commands.                                                           *)

\* cube.led, row, column, panel, layer, slice, fill, sphere, clear, fade and
\* plane draw where the transaction says.
\* (mutant) a whole cube cleared, faded or drawn whatever the transaction
DrawCommandThrough ==
  /\ At("eval") /\ Goto("check")
  /\ \/ \E colour \in Paint : DrawShape(transaction, colour)
     \/ DrawWhole(FALSE)
  /\ UNCHANGED <<threadVars, transaction, sigmask, signals>>
DrawCommand ==
  /\ At("eval") /\ Goto("check")
  /\ \/ \E colour \in Paint : DrawShape(transaction, colour)
     \/ DrawWhole(transaction)
  /\ UNCHANGED <<threadVars, transaction, sigmask, signals>>

\* cube.translate and cube.rotate.
MoveCommand ==
  /\ At("eval") /\ Goto("check")
  /\ MoveCube
  /\ UNCHANGED <<threadVars, transaction, sigmask, signals>>

\* The commands that only read the cube or set what is not modelled, and delay.
OtherCommand ==
  /\ At("eval") /\ Goto("check")
  /\ UNCHANGED <<drawVars, threadVars, transaction, sigmask, signals>>

\* Any command with wrong arguments.
BadCommand ==
  /\ At("eval") /\ Goto("failed")
  /\ UNCHANGED <<drawVars, threadVars, transaction, sigmask, signals>>

jim_cube_begin ==
  /\ At("eval")
  /\ \/ /\ transaction /\ Goto("failed")
        /\ UNCHANGED drawVars
     \/ /\ ~transaction /\ Goto("begin")
        /\ \/ cube_buffer_clear
           \/ cube_buffer                \* -copy
           \/ UNCHANGED drawVars         \* -preserve
  /\ UNCHANGED <<threadVars, transaction, sigmask, signals>>

BeginReturns ==
  /\ At("begin") /\ Goto("begun")
  /\ transaction' = TRUE
  /\ UNCHANGED <<drawVars, threadVars, sigmask, signals>>

jim_cube_commit ==
  /\ At("eval")
  /\ \/ /\ ~transaction /\ Goto("failed")
        /\ UNCHANGED drawVars
     \/ /\ transaction /\ Goto("commit")
        /\ \/ cube_from_buffer
           \/ UNCHANGED drawVars         \* -nocopy
  /\ UNCHANGED <<threadVars, transaction, sigmask, signals>>

CommitReturns ==
  /\ At("commit") /\ Goto("check")
  /\ transaction' = FALSE
  /\ UNCHANGED <<drawVars, threadVars, sigmask, signals>>

-----------------------------------------------------------------------------
(* cube.anim and cube.text.                                                *)

jim_cube_anim ==
  /\ At("eval") /\ Goto("spawn")
  /\ UNCHANGED <<drawVars, threadVars, transaction, sigmask, signals>>

\* pthread_create has the handle stored by the time the thread runs.
\* (mutant) the thread not joined
CreateDetached ==
  /\ At("spawn") /\ Goto("check")
  /\ anim_thread' = TRUE /\ apc' = "draw" /\ cancel' = FALSE
  /\ UNCHANGED <<drawVars, transaction, sigmask, signals>>
CreateThread ==
  /\ At("spawn") /\ Goto("join")
  /\ anim_thread' = TRUE /\ apc' = "draw" /\ cancel' = FALSE
  /\ UNCHANGED <<drawVars, transaction, sigmask, signals>>

\* Nothing looks at the result of pthread_create.  When it fails, pthread_join
\* is given a zero handle or a stale one and crashes on it, or returns an error
\* and leaves retval as it was on the stack: that decides whether the cube is
\* wiped as after a cancellation.
CreateFails ==
  /\ At("spawn")
  /\ \/ Goto("crashed") /\ UNCHANGED drawVars
     \/ Goto("check") /\ (cube_clear(FALSE) \/ UNCHANGED drawVars)
  /\ UNCHANGED <<threadVars, transaction, sigmask, signals>>

JoinThread ==
  /\ At("join") /\ Ended /\ Goto("joined")
  /\ UNCHANGED <<drawVars, threadVars, transaction, sigmask, signals>>

\* (mutant) the handle kept
KeepHandle ==
  /\ At("joined") /\ Goto("reap")
  /\ UNCHANGED <<drawVars, threadVars, transaction, sigmask, signals>>
ForgetThread ==
  /\ At("joined") /\ Goto("reap")
  /\ anim_thread' = FALSE
  /\ UNCHANGED <<drawVars, apc, cancel, transaction, sigmask, signals>>

\* What a cancelled animation was drawing is wiped off the cube.
\* (mutant) the cube not wiped
ReapUnwiped ==
  /\ At("reap") /\ Goto("check")
  /\ apc' = "none" /\ cancel' = FALSE
  /\ UNCHANGED <<drawVars, anim_thread, transaction, sigmask, signals>>
ReapThread ==
  /\ At("reap") /\ Goto("check")
  /\ IF apc = "cancelled" THEN cube_clear(FALSE) ELSE UNCHANGED drawVars
  /\ apc' = "none" /\ cancel' = FALSE
  /\ UNCHANGED <<anim_thread, transaction, sigmask, signals>>

\* A frame of an animation calls any of the drawing routines; none of them is
\* a cancellation point.
AnimFrame ==
  /\ apc = "draw" /\ apc' = "delay"
  /\ Next \/ UNCHANGED drawVars
  /\ UNCHANGED <<anim_thread, cancel, transaction, sigmask, mpc, signals>>

AnimFinish ==
  /\ apc = "draw" /\ apc' = "done"
  /\ UNCHANGED <<drawVars, anim_thread, cancel, transaction, sigmask, mpc,
                 signals>>

\* The nanosleep of delay acts on a cancellation.
\* (mutant) a sleep that is no cancellation point
DeafDelay ==
  /\ apc = "delay" /\ apc' = "draw"
  /\ UNCHANGED <<drawVars, anim_thread, cancel, transaction, sigmask, mpc,
                 signals>>
AnimDelay ==
  /\ apc = "delay" /\ apc' = (IF cancel THEN "cancelled" ELSE "draw")
  /\ UNCHANGED <<drawVars, anim_thread, cancel, transaction, sigmask, mpc,
                 signals>>

-----------------------------------------------------------------------------
\* The handle is still set right after the join: what pthread_cancel does with
\* it is undefined, it may touch freed memory.
jim_cube_stop_anim ==
  /\ cancel' = (cancel \/ (anim_thread /\ Running))
  /\ \/ UNCHANGED mpc
     \/ anim_thread /\ At("joined") /\ Goto("crashed")

\* jim_signal_handler.
\* (mutant) the transaction left open
InterruptMidway ==
  /\ mpc \notin {"exited", "crashed"} /\ signals < MaxSignals
  /\ signals' = signals + 1
  /\ sigmask' = TRUE
  /\ jim_cube_stop_anim
  /\ UNCHANGED <<drawVars, anim_thread, apc, transaction>>
\* (mutant) the interpreter not told
InterruptUnmarked ==
  /\ mpc \notin {"exited", "crashed"} /\ signals < MaxSignals
  /\ signals' = signals + 1
  /\ transaction' = FALSE
  /\ jim_cube_stop_anim
  /\ UNCHANGED <<drawVars, anim_thread, apc, sigmask>>
Interrupt ==
  /\ mpc \notin {"exited", "crashed"} /\ signals < MaxSignals
  /\ signals' = signals + 1
  /\ sigmask' = TRUE
  /\ transaction' = FALSE
  /\ jim_cube_stop_anim
  /\ UNCHANGED <<drawVars, anim_thread, apc>>

Command ==
  \/ DrawCommand \/ MoveCommand \/ OtherCommand \/ BadCommand
  \/ jim_cube_begin \/ jim_cube_commit \/ jim_cube_anim \/ Exit

\* What the interpreter does by itself once it has been given a line.
Proceed ==
  \/ CheckSignal \/ CommandFailed \/ ResetSignals
  \/ BeginReturns \/ CommitReturns
  \/ CreateThread \/ CreateFails \/ JoinThread \/ ForgetThread \/ ReapThread

Animate == AnimFrame \/ AnimFinish \/ AnimDelay

ShellNext ==
  \/ ReadLine \/ EndInput \/ EndLine \/ Command \/ Proceed
  \/ Animate
  \/ Interrupt

\* The two threads are scheduled; the user need not type anything.
ShellSpec ==
  /\ ShellInit /\ [][ShellNext]_shellVars
  /\ WF_shellVars(Proceed) /\ WF_shellVars(Animate)

-----------------------------------------------------------------------------
ShellTypeOK ==
  /\ TypeOK
  /\ transaction \in BOOLEAN /\ sigmask \in BOOLEAN /\ anim_thread \in BOOLEAN
  /\ mpc \in Interpreter /\ apc \in Animation
  /\ cancel \in BOOLEAN /\ signals \in 0 .. MaxSignals

\* "The buffer will only be accessed from a single thread", which is why
\* buffer_LED needs no barriers: while an animation runs, and until its end has
\* been seen by pthread_join, the interpreter does nothing else, whatever
\* signals arrive.
SingleBufferUser == apc # "none" => mpc \in {"join", "joined", "reap", "crashed"}

\* A running animation can be reached by the handler, and the handle outlives
\* the thread only for the moment between the join and the reset: no later
\* signal is sent to a thread that is gone, or to another one.
HandleTracksThread ==
  /\ Running => anim_thread
  /\ anim_thread => mpc \in {"join", "joined", "crashed"}

\* An interrupted line does not leave later lines drawing in the buffer,
\* unless the command it was in is the cube.begin that opened the transaction:
\* that one sets the flag after the handler has cleared it.
InterruptEndsTransaction ==
  sigmask /\ transaction => mpc \in {"begun", "reset"}

\* A stopped animation takes the rest of its line with it, and its transaction:
\* the signal that stopped it stays pending until the line has been unwound.
CancelEndsLine == cancel \/ apc = "cancelled" => sigmask /\ ~transaction

\* Once the handler has asked an animation to stop the user gets the prompt
\* back, however long the animation would have run.
CancelGivesPrompt == cancel ~> mpc \in {"prompt", "crashed"}

\* And if the animation did not end by itself first, with the cube dark:
\* nothing of the line draws after the wipe.
CancelledIsDark ==
  apc = "cancelled" ~> \/ mpc = "prompt" /\ cube = Dark
                       \/ mpc = "crashed"

\* "All cube operations [...] are done against a buffer rather than the real
\* cube": a transaction keeps the drawing commands and cube.commit's own return
\* off the cube.  cube.translate and cube.rotate move the real cube all the
\* same, and a text or an animation, as well as what is wiped after it, is
\* shown in the middle of the transaction.
DrawnInBuffer ==
  [][transaction /\ cube' # cube => \/ mpc' = "commit" /\ cube' = buffer_cube
                                   \/ mpc \in {"join", "reap", "spawn"}
                                   \/ MoveCube]_shellVars

\* "Animations are run in a thread to allow interruption via SIGINT": once
\* there is a signal pending, a delay of the animation is its last.
InterruptStopsAnimation ==
  [][sigmask /\ apc = "delay" => apc' \in {"delay", "cancelled"}]_shellVars
=============================================================================
