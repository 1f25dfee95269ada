---------------------------- MODULE CubeThreads -----------------------------
(***************************************************************************)
(* The three threads that keep the LEDs safe: the refresh thread, which    *)
(* lights one layer at a time for a bounded moment, the canary thread,     *)
(* which turns the cube off when the refresh thread has stopped singing,   *)
(* and the main thread, which starts and stops the two and runs the crash  *)
(* handler.  An LED that stays lit may burn out; the question is when a    *)
(* layer pin can be left low.                                              *)
(*                                                                         *)
(* Time passes in ticks.  The two real-time threads (SCHED_FIFO) run as    *)
(* soon as they can: no tick passes while one of them is ready.  The main  *)
(* thread runs whenever it likes.  The refresh thread sleeps until a time  *)
(* of the wall clock, so that setting the clock back lengthens its sleep;  *)
(* the canary's sleeps are relative and are not affected.                  *)
(***************************************************************************)
EXTENDS Integers, FiniteSets

CONSTANTS
  Layers, Bits,     \* the layers of the cube, and the passes of the BAM
  PassTime,         \* a refresh pass, 8 ms in the code
  Boot, Interval,   \* what the canary sleeps, 5 s at first and then 500 ms
  Grace,            \* what the crash handler sleeps, 1 s
  ClockStep,        \* how far the wall clock may be set back or forth at once
  MaxClockSteps,    \* how often it is
  MaxSignals,       \* how often SIGINT interrupts a sleep
  ThreadsMayFail    \* whether pthread_create may fail

Layer == 0 .. Layers - 1
Slot == 0 .. Layers * Bits - 1       \* one exposure: a bit of a layer
LayerOf(s) == s % Layers
Weight == [b \in 0 .. Bits |-> 2^b]
Exposure(s) == Weight[s \div Layers]
Bound == Boot + 2 * Interval

\* The exposures fit in a pass, and a pass in what the two watchers wait.
ASSUME ThreadAssumption ==
  /\ Layers \in Nat \ {0} /\ Bits \in Nat \ {0}
  /\ PassTime \in Nat /\ Layers * (Weight[Bits] - 1) <= PassTime
  /\ Boot \in Nat /\ Interval \in Nat /\ PassTime < Interval
  /\ Grace \in Nat /\ PassTime < Grace
  /\ ClockStep \in Nat /\ MaxClockSteps \in Nat /\ MaxSignals \in Nat
  /\ ThreadsMayFail \in BOOLEAN

\* Arithmetic the provers do not have, for the bits there are.
ASSUME PowerAssumption ==
  /\ 2^0 = 1
  /\ \A b \in 0 .. Bits : 2^b \in Nat \ {0} /\ 2^b <= 2^Bits
  /\ \A b \in 0 .. Bits - 1 : 2^(b + 1) = 2 * 2^b

VARIABLES
  cube_running, exiting, canary,   \* the flags of the code
  lit,          \* the layers whose pin is low
  rpc, slot,    \* where the refresh thread is
  rtimer, pass, \* ticks until it wakes, and until its pass is to be over
  kpc, ktimer,  \* the same for the canary
  mpc, mtimer,  \* the same for the main thread
  ending,       \* the main thread is stopping the cube in order to return
  steps, signals,        \* the clock settings and the SIGINTs so far
  quiet,        \* history: ticks since the last song, Interval and more alike
  glow,         \* history: ticks the refresh thread's layer has been lit for
                \* with a canary on duty
  manual        \* history: layers lit by cube_layer_control

refreshVars == <<rpc, slot, rtimer, pass>>
canaryVars == <<kpc, ktimer>>
mainVars == <<mpc, mtimer, ending>>
flags == <<cube_running, exiting>>
worldVars == <<steps, signals>>
vars == <<cube_running, exiting, canary, lit, rpc, slot, rtimer, pass, kpc, ktimer,
          mpc, mtimer, ending, steps, signals, quiet, glow, manual>>

\* refresh   top: before it reads exiting   show: about to light a layer
\*           lit, shade, rest: asleep with a layer on, after one, after a pass
\* canary    boot, wait: asleep   look, judge, clear: reading exiting, reading
\*           canary, resetting it   alarm, quit: turning the cube off, exiting
\* main      idle: in the interpreter   start, create, create2: cube_start
\*           joinR, off, joinK: cube_stop   crash, nap, again, abort: the
\*           crash handler   dead: the process is gone   exited: so it is, as
\*           a thread could not be created
Refresh == {"none", "top", "show", "lit", "shade", "rest", "gone"}
Canary == {"none", "boot", "wait", "look", "judge", "clear", "alarm", "quit", "gone"}
Main == {"idle", "start", "create", "create2", "joinR", "off", "joinK",
         "crash", "nap", "again", "abort", "dead", "exited"}

Alive == mpc \notin {"dead", "exited"}
Unstarted(pc) == pc \in {"none", "gone"}
InHandler == mpc \in {"crash", "nap", "again", "abort"}

\* The program has run cube_init, which leaves every pin high.
Init ==
  /\ cube_running = FALSE /\ exiting = FALSE /\ canary = FALSE
  /\ lit = {} /\ manual = {}
  /\ rpc = "none" /\ slot = 0 /\ rtimer = 0 /\ pass = 0
  /\ kpc = "none" /\ ktimer = 0
  /\ mpc = "start" /\ mtimer = 0 /\ ending = FALSE
  /\ steps = 0 /\ signals = 0 /\ quiet = 0 /\ glow = 0

cube_off == lit' = {} /\ manual' = {} /\ glow' = 0

-----------------------------------------------------------------------------
(* cube_refresh.                                                           *)

\* (mutant) a pass that does not sing
RefreshTopSilent ==
  /\ Alive /\ rpc = "top"
  /\ IF exiting
     THEN rpc' = "gone" /\ UNCHANGED <<slot, pass, quiet>>
     ELSE rpc' = "show" /\ slot' = 0 /\ pass' = PassTime /\ quiet' = 0
  /\ UNCHANGED <<flags, canary, lit, rtimer, canaryVars, mainVars, worldVars,
                 glow, manual>>
RefreshTop ==
  /\ Alive /\ rpc = "top"
  /\ IF exiting
     THEN rpc' = "gone" /\ UNCHANGED <<slot, pass, canary, quiet>>
     ELSE /\ rpc' = "show" /\ slot' = 0 /\ pass' = PassTime
          /\ canary' = TRUE /\ quiet' = 0
  /\ UNCHANGED <<flags, lit, rtimer, canaryVars, mainVars, worldVars, glow, manual>>

RefreshShow ==
  /\ Alive /\ rpc = "show"
  /\ rpc' = "lit" /\ lit' = lit \cup {LayerOf(slot)}
  /\ rtimer' = Exposure(slot) /\ glow' = 0
  /\ UNCHANGED <<flags, canary, slot, pass, canaryVars, mainVars, worldVars,
                 quiet, manual>>

\* The 100 ns pause that follows is less than a tick.
\* (mutant) the layer left on for the next exposure
RefreshUnshaded ==
  /\ Alive /\ rpc = "lit" /\ rtimer = 0
  /\ rpc' = "shade" /\ glow' = 0
  /\ UNCHANGED <<flags, canary, lit, slot, rtimer, pass, canaryVars, mainVars,
                 worldVars, quiet, manual>>
RefreshShade ==
  /\ Alive /\ rpc = "lit" /\ rtimer = 0
  /\ rpc' = "shade" /\ lit' = lit \ {LayerOf(slot)} /\ glow' = 0
  /\ UNCHANGED <<flags, canary, slot, rtimer, pass, canaryVars, mainVars, worldVars,
                 quiet, manual>>

\* (mutant) one exposure too many
RefreshOnePast ==
  /\ Alive /\ rpc = "shade" /\ rtimer = 0
  /\ IF slot \in Slot
     THEN rpc' = "show" /\ slot' = slot + 1 /\ UNCHANGED rtimer
     ELSE rpc' = "rest" /\ rtimer' = pass /\ UNCHANGED slot
  /\ UNCHANGED <<flags, canary, lit, pass, canaryVars, mainVars, worldVars,
                 quiet, glow, manual>>
RefreshNext ==
  /\ Alive /\ rpc = "shade" /\ rtimer = 0
  /\ IF slot + 1 \in Slot
     THEN rpc' = "show" /\ slot' = slot + 1 /\ UNCHANGED rtimer
     ELSE rpc' = "rest" /\ rtimer' = pass /\ UNCHANGED slot
  /\ UNCHANGED <<flags, canary, lit, pass, canaryVars, mainVars, worldVars,
                 quiet, glow, manual>>

RefreshWake ==
  /\ Alive /\ rpc = "rest" /\ rtimer = 0
  /\ rpc' = "top"
  /\ UNCHANGED <<flags, canary, lit, slot, rtimer, pass, canaryVars, mainVars,
                 worldVars, quiet, glow, manual>>

cube_refresh ==
  RefreshTop \/ RefreshShow \/ RefreshShade \/ RefreshNext \/ RefreshWake

-----------------------------------------------------------------------------
(* canary_thread.                                                          *)

CanaryWake ==
  /\ Alive /\ ktimer = 0
  /\ \/ kpc = "boot" /\ kpc' = "wait" /\ ktimer' = Interval
     \/ kpc = "wait" /\ kpc' = "look" /\ UNCHANGED ktimer
  /\ UNCHANGED <<flags, canary, lit, refreshVars, mainVars, worldVars, quiet,
                 glow, manual>>

CanaryLook ==
  /\ Alive /\ kpc = "look" /\ kpc' = (IF exiting THEN "gone" ELSE "judge")
  /\ UNCHANGED <<flags, canary, lit, refreshVars, ktimer, mainVars, worldVars, quiet,
                 glow, manual>>

CanaryJudge ==
  /\ Alive /\ kpc = "judge" /\ kpc' = (IF canary THEN "clear" ELSE "alarm")
  /\ UNCHANGED <<flags, canary, lit, refreshVars, ktimer, mainVars, worldVars, quiet,
                 glow, manual>>

\* (mutant) the flag not reset, so that an old song counts
CanaryKeeps ==
  /\ Alive /\ kpc = "clear" /\ kpc' = "wait" /\ ktimer' = Interval
  /\ UNCHANGED <<flags, canary, lit, refreshVars, mainVars, worldVars, quiet,
                 glow, manual>>
\* (mutant) the next look at once
CanaryHasty ==
  /\ Alive /\ kpc = "clear" /\ kpc' = "wait" /\ ktimer' = 0
  /\ canary' = FALSE
  /\ UNCHANGED <<flags, lit, refreshVars, mainVars, worldVars, quiet, glow, manual>>
CanaryClear ==
  /\ Alive /\ kpc = "clear" /\ kpc' = "wait" /\ ktimer' = Interval
  /\ canary' = FALSE
  /\ UNCHANGED <<flags, lit, refreshVars, mainVars, worldVars, quiet, glow, manual>>

CanaryAlarm ==
  /\ Alive /\ kpc = "alarm" /\ kpc' = "quit"
  /\ cube_off
  /\ UNCHANGED <<flags, canary, refreshVars, ktimer, mainVars, worldVars, quiet>>

CanaryExit ==
  /\ Alive /\ kpc = "quit"
  /\ mpc' = "dead"
  /\ UNCHANGED <<flags, canary, lit, refreshVars, canaryVars, mtimer, ending,
                 worldVars, quiet, glow, manual>>

canary_thread ==
  CanaryWake \/ CanaryLook \/ CanaryJudge \/ CanaryClear \/ CanaryAlarm \/ CanaryExit

-----------------------------------------------------------------------------
(* The main thread: cube_start, cube_stop and what calls them.             *)

\* What every step of the main thread leaves alone.
KeepThreads == UNCHANGED <<canary, refreshVars, canaryVars, worldVars, quiet>>
KeepPins == UNCHANGED <<lit, glow, manual>>

\* cube.hw.debug -start, -stop and -layer; the end of the program.
StartCommand ==
  /\ mpc = "idle" /\ mpc' = "start"
  /\ KeepThreads /\ KeepPins /\ UNCHANGED <<flags, mtimer, ending>>

LayerCommand ==
  /\ mpc = "idle"
  /\ \E layer \in Layer :
       \/ lit' = lit \cup {layer} /\ manual' = manual \cup {layer}
       \/ lit' = lit \ {layer} /\ manual' = manual \ {layer}
  /\ KeepThreads /\ UNCHANGED <<flags, mainVars, glow>>

cube_start ==
  /\ mpc = "start"
  /\ IF cube_running
     THEN mpc' = "idle" /\ UNCHANGED flags
     ELSE mpc' = "create" /\ cube_running' = TRUE /\ exiting' = FALSE
  /\ KeepThreads /\ KeepPins /\ UNCHANGED <<mtimer, ending>>

CreateRefresh ==
  /\ mpc = "create" /\ mpc' = "create2"
  /\ rpc' = "top" /\ slot' = 0 /\ rtimer' = 0 /\ pass' = 0
  /\ KeepPins
  /\ UNCHANGED <<flags, canary, canaryVars, mtimer, ending, worldVars, quiet>>

CreateCanary ==
  /\ mpc = "create2" /\ mpc' = "idle"
  /\ kpc' = "boot" /\ ktimer' = Boot
  /\ KeepPins
  /\ UNCHANGED <<flags, canary, refreshVars, mtimer, ending, worldVars, quiet>>

\* start_thread calls exit(-1) when it cannot create its thread.
CreateFails ==
  /\ ThreadsMayFail /\ mpc \in {"create", "create2"} /\ mpc' = "exited"
  /\ KeepThreads /\ KeepPins /\ UNCHANGED <<flags, mtimer, ending>>

\* cube_stop, called by -stop or by main before it returns.
\* (mutant) the threads not told
StopUntold ==
  /\ mpc = "idle" /\ ending' \in BOOLEAN
  /\ IF cube_running
     THEN mpc' = "joinR" /\ cube_running' = FALSE /\ UNCHANGED exiting
     ELSE mpc' = (IF ending' THEN "dead" ELSE "idle") /\ UNCHANGED flags
  /\ KeepThreads /\ KeepPins /\ UNCHANGED mtimer
cube_stop ==
  /\ mpc = "idle" /\ ending' \in BOOLEAN
  /\ IF cube_running
     THEN mpc' = "joinR" /\ cube_running' = FALSE /\ exiting' = TRUE
     ELSE mpc' = (IF ending' THEN "dead" ELSE "idle") /\ UNCHANGED flags
  /\ KeepThreads /\ KeepPins /\ UNCHANGED mtimer

\* (mutant) the refresh thread not waited for
JoinNoRefresh ==
  /\ mpc = "joinR" /\ mpc' = "off"
  /\ KeepThreads /\ KeepPins /\ UNCHANGED <<flags, mtimer, ending>>
JoinRefresh ==
  /\ mpc = "joinR" /\ rpc = "gone" /\ mpc' = "off"
  /\ KeepThreads /\ KeepPins /\ UNCHANGED <<flags, mtimer, ending>>

StopOff ==
  /\ mpc = "off" /\ mpc' = "joinK"
  /\ cube_off
  /\ KeepThreads /\ UNCHANGED <<flags, mtimer, ending>>

\* (mutant) the canary not waited for
JoinNoCanary ==
  /\ mpc = "joinK" /\ mpc' = (IF ending THEN "dead" ELSE "idle")
  /\ KeepThreads /\ KeepPins /\ UNCHANGED <<flags, mtimer, ending>>
JoinCanary ==
  /\ mpc = "joinK" /\ kpc = "gone" /\ mpc' = (IF ending THEN "dead" ELSE "idle")
  /\ KeepThreads /\ KeepPins /\ UNCHANGED <<flags, mtimer, ending>>

-----------------------------------------------------------------------------
(* signal_handler, for SIGBUS, SIGSEGV or SIGQUIT in the main thread.      *)

Crash ==
  /\ Alive /\ ~InHandler /\ mpc' = "crash"
  /\ exiting' = TRUE
  /\ KeepThreads /\ KeepPins /\ UNCHANGED <<cube_running, mtimer, ending>>

\* (mutant) the refresh thread not given the time to finish its pass
HandlerNoSleep ==
  /\ mpc = "crash" /\ mpc' = "nap" /\ mtimer' = 0
  /\ cube_off
  /\ KeepThreads /\ UNCHANGED <<flags, ending>>
HandlerOff ==
  /\ mpc = "crash" /\ mpc' = "nap" /\ mtimer' = Grace
  /\ cube_off
  /\ KeepThreads /\ UNCHANGED <<flags, ending>>

HandlerWake ==
  /\ mpc = "nap" /\ mtimer = 0 /\ mpc' = "again"
  /\ KeepThreads /\ KeepPins /\ UNCHANGED <<flags, mtimer, ending>>

HandlerOffAgain ==
  /\ mpc = "again" /\ mpc' = "abort"
  /\ cube_off
  /\ KeepThreads /\ UNCHANGED <<flags, mtimer, ending>>

HandlerAbort ==
  /\ mpc = "abort" /\ mpc' = "dead"
  /\ KeepThreads /\ KeepPins /\ UNCHANGED <<flags, mtimer, ending>>

signal_handler == HandlerOff \/ HandlerWake \/ HandlerOffAgain \/ HandlerAbort

-----------------------------------------------------------------------------
(* Time, the wall clock and SIGINT.                                        *)

RefreshAsleep == Unstarted(rpc) \/ (rpc \in {"lit", "shade", "rest"} /\ rtimer > 0)
CanaryAsleep == Unstarted(kpc) \/ (kpc \in {"boot", "wait"} /\ ktimer > 0)
Less(t) == IF t > 0 THEN t - 1 ELSE 0

Tick ==
  /\ Alive /\ RefreshAsleep /\ CanaryAsleep
  /\ rtimer' = Less(rtimer) /\ pass' = Less(pass)
  /\ ktimer' = Less(ktimer) /\ mtimer' = Less(mtimer)
  /\ quiet' = IF quiet < Interval THEN quiet + 1 ELSE Interval
  /\ glow' = IF rpc = "lit" /\ LayerOf(slot) \in lit /\ ~Unstarted(kpc)
                /\ glow <= Bound
             THEN glow + 1 ELSE glow
  /\ UNCHANGED <<flags, canary, lit, rpc, slot, kpc, mpc, ending, worldVars, manual>>

\* The sleeping refresh thread waits for a time of the clock that is set.
SetClock ==
  /\ Alive /\ steps < MaxClockSteps /\ steps' = steps + 1
  /\ rpc \in {"lit", "shade", "rest"}
  /\ \/ rtimer' = rtimer + ClockStep /\ pass' = pass + ClockStep
     \/ /\ rtimer' = IF rtimer > ClockStep THEN rtimer - ClockStep ELSE 0
        /\ pass' = IF pass > ClockStep THEN pass - ClockStep ELSE 0
  /\ KeepPins
  /\ UNCHANGED <<flags, canary, rpc, slot, canaryVars, mainVars, signals, quiet>>

\* A handler that runs in a thread cuts short its clock_nanosleep or its
\* sleep; delay goes back to sleep.
Interrupt ==
  /\ Alive /\ signals < MaxSignals /\ signals' = signals + 1
  /\ \/ /\ rpc \in {"lit", "shade", "rest"} /\ rtimer' = 0
        /\ UNCHANGED <<ktimer, mtimer>>
     \/ kpc = "boot" /\ ktimer' = 0 /\ UNCHANGED <<rtimer, mtimer>>
     \/ mpc = "nap" /\ mtimer' = 0 /\ UNCHANGED <<rtimer, ktimer>>
  /\ KeepPins
  /\ UNCHANGED <<flags, canary, rpc, slot, pass, kpc, mpc, ending, steps, quiet>>

MainStep ==
  \/ cube_start \/ CreateRefresh \/ CreateCanary
  \/ JoinRefresh \/ StopOff \/ JoinCanary
  \/ signal_handler

Next ==
  \/ cube_refresh \/ canary_thread \/ MainStep \/ Tick
  \/ StartCommand \/ LayerCommand \/ cube_stop \/ CreateFails
  \/ Crash \/ SetClock \/ Interrupt

Spec ==
  /\ Init /\ [][Next]_vars
  /\ WF_vars(cube_refresh) /\ WF_vars(canary_thread) /\ WF_vars(MainStep)
  /\ WF_vars(Tick)

-----------------------------------------------------------------------------
TypeOK ==
  /\ cube_running \in BOOLEAN /\ exiting \in BOOLEAN /\ canary \in BOOLEAN
  /\ lit \subseteq Layer /\ manual \subseteq Layer
  /\ rpc \in Refresh /\ slot \in Slot /\ rtimer \in Nat /\ pass \in Nat
  /\ kpc \in Canary /\ ktimer \in Nat
  /\ mpc \in Main /\ mtimer \in Nat /\ ending \in BOOLEAN
  /\ steps \in 0 .. MaxClockSteps /\ signals \in 0 .. MaxSignals
  /\ quiet \in 0 .. Interval /\ glow \in Nat

\* cube_start never runs a thread beside an earlier one of the same kind: two
\* refresh threads would shift their bits through each other, and two canaries
\* clear the flag twice an interval and raise a false alarm.
OneOfEach == mpc = "create" => Unstarted(rpc) /\ Unstarted(kpc)

\* Two layers are never lit together by the refresh thread, whatever is
\* switched by hand.
OneLayerLit == Cardinality(lit \ manual) <= 1

\* After cube_stop no layer is lit but those switched on by hand since, and no
\* thread is left to light one.
StoppedIsDark ==
  mpc = "idle" /\ ~cube_running => lit \subseteq manual /\ rpc = "gone" /\ kpc = "gone"

\* When the process ends, by itself or by a crash, no layer is left lit that was
\* not switched on by hand: "in the event of a program crash, we want to do our
\* best to leave the cube turned off to avoid the risk of blowing an LED".  Not
\* after SIGINT, which can cut the handler's sleep short, nor after a clock
\* setting, which can outlast it; and start_thread's exit is not such an end: it
\* leaves the layer that the refresh thread has lit.
DeadIsDark == mpc = "dead" /\ steps = 0 /\ signals = 0 => lit \subseteq manual

\* The canary gives no false alarm: one means that the refresh thread has not
\* begun a pass for a whole interval, and until the clock is set it never comes.
AlarmMeansQuiet == [][kpc = "judge" /\ kpc' = "alarm" => quiet = Interval]_vars
NoAlarm == steps = 0 => kpc \notin {"alarm", "quit"}

\* However long the refresh thread oversleeps, the canary turns its layer off
\* within its first sleep and two intervals, unless the program is stopping.
NoLongGlow == ~exiting => glow <= Bound

\* cube_stop returns.
StopReturns == mpc = "joinR" ~> mpc \in {"idle", "dead"}
=============================================================================
