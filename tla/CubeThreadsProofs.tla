-------------------------- MODULE CubeThreadsProofs -------------------------
(***************************************************************************)
(* Proofs about the three threads, for every number of layers and bits and *)
(* all waiting times that ThreadAssumption allows.  Control says which     *)
(* thread can be where while another is somewhere else; it is inductive    *)
(* whatever the clock does, and gives what must hold even then.  InTime    *)
(* adds the times: until the clock is set, or a signal comes, a pass that  *)
(* has begun ends before the canary, or the crash handler, has finished    *)
(* waiting for it.                                                         *)
(***************************************************************************)
EXTENDS CubeThreads, FiniteSetTheorems, TLAPS

-----------------------------------------------------------------------------
(* Division: a number is a row and a place in it.  The provers divide by    *)
(* numbers only.                                                            *)

\* A product is no smaller than a factor if the other is positive.
LEMMA ProductBound ==
  ASSUME NEW p \in Nat, NEW d \in Nat, d > 0
  PROVE  p * d \in Nat /\ p * d >= p
<1>1. p * d = p + p * (d - 1)
  OBVIOUS
<1>2. p * (d - 1) \in Nat
  OBVIOUS
<1> QED
  BY <1>1, <1>2

\* A number has one row and one place in it.
LEMMA RowAndPlace ==
  ASSUME NEW p \in Nat \ {0}, NEW c \in Int, NEW r \in 0 .. p - 1,
         NEW k, k = c * p + r
  PROVE  k \div p = c /\ k % p = r
<1> DEFINE q == k \div p
           m == k % p
<1>1. k \in Int /\ q \in Int /\ m \in 0 .. p - 1 /\ k = p * q + m
  OBVIOUS
<1>2. p * (q - c) = r - m /\ p * (c - q) = m - r
  <2> HIDE DEF q, m
  <2> QED
    BY <1>1
<1>3. ASSUME q > c PROVE FALSE
  <2>1. p * (q - c) >= p
    BY <1>1, <1>3, ProductBound
  <2> QED
    BY <1>1, <1>2, <2>1
<1>4. ASSUME q < c PROVE FALSE
  <2>1. p * (c - q) >= p
    BY <1>1, <1>4, ProductBound
  <2> QED
    BY <1>1, <1>2, <2>1
<1>5. q = c
  BY <1>1, <1>3, <1>4
<1> QED
  BY <1>1, <1>5

\* The numbers below a product are so many rows of so many places.
LEMMA InRows ==
  ASSUME NEW p \in Nat \ {0}, NEW n \in Nat, NEW k \in 0 .. p * n - 1
  PROVE  /\ k \div p \in 0 .. n - 1 /\ k % p \in 0 .. p - 1
         /\ k = (k \div p) * p + (k % p)
<1> DEFINE q == k \div p
           m == k % p
<1>1. k \in Nat /\ k < p * n
  OBVIOUS
<1>2. q \in Nat /\ m \in 0 .. p - 1 /\ k = p * q + m
  BY <1>1
<1> HIDE DEF q, m
<1>3. q < n
  <2>1. SUFFICES ASSUME q >= n PROVE FALSE
    BY <1>2
  <2>2. p * q = p * n + p * (q - n) /\ p * (q - n) \in Nat
    BY <1>2, <2>1
  <2> QED
    BY <1>1, <1>2, <2>2
<1>4. k = q * p + m
  BY <1>2
<1>5. q \in 0 .. n - 1 /\ m \in 0 .. p - 1 /\ k = q * p + m
  BY <1>2, <1>3, <1>4
<1> QED
  BY <1>5 DEF q, m

-----------------------------------------------------------------------------

\* Who is where.  The two threads are started and stopped in an order, and
\* exiting is set before either is waited for.
Control ==
  /\ mpc = "start" /\ ~cube_running => Unstarted(rpc) /\ Unstarted(kpc)
  /\ mpc = "create" => Unstarted(rpc) /\ Unstarted(kpc) /\ cube_running
  /\ mpc = "create2" => Unstarted(kpc) /\ cube_running /\ ~Unstarted(rpc)
  /\ mpc = "idle" /\ ~cube_running => rpc = "gone" /\ kpc = "gone"
  /\ mpc = "joinR" => exiting /\ ~cube_running
  /\ mpc \in {"off", "joinK"} => rpc = "gone" /\ exiting /\ ~cube_running
  /\ Alive /\ ~InHandler /\ cube_running => ~exiting
  /\ InHandler => exiting
  /\ ~exiting /\ ~Unstarted(kpc) => ~Unstarted(rpc)

\* The refresh thread answers for one layer at most.
LitIsShown == lit \ manual \subseteq (IF rpc = "lit" THEN {LayerOf(slot)} ELSE {})

\* A false canary means silence, and a long one when its time is up.
Silence ==
  /\ kpc = "wait" /\ ~canary => quiet + ktimer >= Interval
  /\ kpc \in {"look", "judge"} /\ ~canary => quiet = Interval

\* How long the layer can have been lit, by what the canary has seen.
Glowing ==
  /\ rpc # "lit" \/ mpc \in {"create", "create2"} => glow = 0
  /\ kpc = "boot" => ktimer <= Boot /\ glow <= Boot - ktimer
  /\ kpc = "wait" =>
       /\ ktimer <= Interval
       /\ glow <= Boot + (IF canary THEN Interval ELSE 2 * Interval) - ktimer
  /\ kpc \in {"look", "judge"} /\ canary => glow <= Boot + Interval
  /\ kpc = "clear" => glow <= Boot + Interval
  /\ glow <= Bound

\* What the exposures from slot s on take, and the ticks until the refresh
\* thread sings again.
Left(s) == Layers * Weight[Bits] - (Layers + LayerOf(s)) * Weight[s \div Layers]
Due == IF rpc = "top" THEN 0 ELSE pass

\* A pass has time for the exposures that are left.
PassInTime ==
  /\ ~Unstarted(rpc) /\ rpc # "top" => pass <= PassTime
  /\ rpc = "show" => pass >= Left(slot)
  /\ rpc = "lit" => pass >= rtimer + Left(slot + 1)
  /\ rpc = "shade" => rtimer = 0 /\ pass >= Left(slot + 1)
  /\ rpc = "rest" => rtimer <= pass

\* While the canary waits, the song has been sung or will be in time.
SongInTime ==
  /\ kpc = "wait" /\ ~exiting => canary \/ (~Unstarted(rpc) /\ Due < ktimer)
  /\ kpc = "look" /\ ~exiting => canary
  /\ kpc = "judge" => canary
  /\ kpc \notin {"alarm", "quit"}

\* While the crash handler sleeps the pass ends, and then the thread.
EndInTime ==
  /\ mpc = "nap" => Unstarted(rpc) \/ Due < mtimer
  /\ mpc = "again" => Unstarted(rpc)
  /\ mpc = "abort" => Unstarted(rpc)
  /\ mpc = "dead" => lit \subseteq manual
-----------------------------------------------------------------------------
(* The places and the times of the exposures.                              *)

\* The weights of the bits are numbers, each twice the one before.
LEMMA Weights ==
  /\ \A b \in 0 .. Bits : Weight[b] \in Nat \ {0} /\ Weight[b] <= Weight[Bits]
  /\ \A b \in 0 .. Bits - 1 : Weight[b + 1] = 2 * Weight[b]
  /\ Weight[0] = 1
<1>1. Bits \in Nat \ {0}
  BY ThreadAssumption
<1>2. \A b \in 0 .. Bits : Weight[b] = 2^b
  BY DEF Weight
<1>3. 0 \in 0 .. Bits /\ Bits \in 0 .. Bits
  BY <1>1
<1>4. \A b \in 0 .. Bits - 1 : b \in 0 .. Bits /\ b + 1 \in 0 .. Bits
  BY <1>1
<1>5. Weight[0] = 1
  BY <1>2, <1>3, PowerAssumption
<1>6. \A b \in 0 .. Bits - 1 : Weight[b + 1] = 2 * Weight[b]
  BY <1>2, <1>4, PowerAssumption
<1>7. \A b \in 0 .. Bits : Weight[b] \in Nat \ {0} /\ Weight[b] <= Weight[Bits]
  BY <1>2, <1>3, PowerAssumption
<1> QED
  BY <1>5, <1>6, <1>7

\* An exposure is that of a layer and of a bit.
LEMMA SlotIsOne ==
  ASSUME NEW s \in Slot
  PROVE  /\ LayerOf(s) \in Layer
         /\ s \div Layers \in 0 .. Bits - 1
         /\ s = (s \div Layers) * Layers + LayerOf(s)
         /\ Exposure(s) \in Nat
<1>1. /\ s \div Layers \in 0 .. Bits - 1 /\ s % Layers \in 0 .. Layers - 1
      /\ s = (s \div Layers) * Layers + (s % Layers)
  BY InRows, ThreadAssumption DEF Slot
<1>2. Weight[s \div Layers] \in Nat
  BY <1>1, Weights, ThreadAssumption
<1> QED
  BY <1>1, <1>2 DEF LayerOf, Layer, Exposure

\* A pass begins with an exposure.
LEMMA FirstSlot == 0 \in Slot /\ LayerOf(0) = 0 /\ 0 \div Layers = 0
<1>1. Layers * Bits >= Layers
  BY ThreadAssumption, ProductBound
<1>2. 0 % Layers = 0 /\ 0 \div Layers = 0
  BY ThreadAssumption
<1> QED
  BY <1>1, <1>2, ThreadAssumption DEF Slot, LayerOf

\* The exposures of a pass fit in it.
LEMMA LeftAtFirst == Left(0) \in Nat /\ Left(0) <= PassTime
<1>1. Left(0) = Layers * Weight[Bits] - Layers
  BY FirstSlot, Weights, ThreadAssumption DEF Left
<1>2. Weight[Bits] \in Nat \ {0}
  BY Weights, ThreadAssumption
<1>3. Layers * (Weight[Bits] - 1) = Layers * Weight[Bits] - Layers
  BY <1>2, ThreadAssumption
<1>4. Layers * (Weight[Bits] - 1) \in Nat
  BY <1>2, ThreadAssumption
<1> QED
  BY <1>1, <1>3, <1>4, ThreadAssumption

\* Each exposure takes its part of what is left.
LEMMA LeftAtNext ==
  ASSUME NEW s \in Slot
  PROVE  /\ Left(s + 1) \in Nat
         /\ Left(s) = Exposure(s) + Left(s + 1)
<1> DEFINE q == s \div Layers
           m == s % Layers
           w == Weight[q]
           all == Layers * Weight[Bits]
<1>1. q \in 0 .. Bits - 1 /\ m \in 0 .. Layers - 1 /\ s = q * Layers + m
  BY SlotIsOne, ThreadAssumption DEF LayerOf, Layer
<1>2. w \in Nat \ {0} /\ Weight[q + 1] = 2 * w /\ 2 * w <= Weight[Bits]
      /\ Weight[Bits] \in Nat
  <2>1. q \in 0 .. Bits /\ q + 1 \in 0 .. Bits /\ Bits \in 0 .. Bits
    BY <1>1, ThreadAssumption
  <2> QED
    BY <1>1, <2>1, Weights
<1>3. all \in Nat /\ Layers * (2 * w) <= all
  <2>1. Layers * (Weight[Bits] - 2 * w) \in Nat
    BY <1>2, ThreadAssumption
  <2>2. Layers * (Weight[Bits] - 2 * w) = all - Layers * (2 * w)
    BY <1>2, ThreadAssumption
  <2>3. all \in Nat /\ Layers * (2 * w) \in Nat
    BY <1>2, ThreadAssumption
  <2> QED
    BY <2>1, <2>2, <2>3
<1>4. Left(s) = all - (Layers + m) * w /\ Exposure(s) = w
  BY DEF Left, LayerOf, Exposure
<1>5. CASE m < Layers - 1
  <2>1. m + 1 \in 0 .. Layers - 1 /\ s + 1 = q * Layers + (m + 1)
    BY <1>1, <1>5, ThreadAssumption
  <2>2. (s + 1) \div Layers = q /\ (s + 1) % Layers = m + 1
    BY <1>1, <2>1, RowAndPlace, ThreadAssumption
  <2>3. Left(s + 1) = all - (Layers + (m + 1)) * w
    BY <2>2 DEF Left, LayerOf
  <2>4. (Layers + (m + 1)) * w = (Layers + m) * w + w
    BY <1>1, <1>2, ThreadAssumption
  <2>5. (Layers - 1 - m) * w \in Nat
    <3>1. Layers - 1 - m \in Nat
      BY <1>1, ThreadAssumption
    <3> HIDE DEF w, m
    <3> QED
      BY <1>2, <3>1
  <2>6. (Layers - 1 - m) * w = Layers * (2 * w) - (Layers + (m + 1)) * w
    BY <1>1, <1>2, ThreadAssumption
  <2>7. (Layers + m) * w \in Nat /\ (Layers + (m + 1)) * w \in Nat
        /\ Layers * (2 * w) \in Nat
    BY <1>1, <1>2, ThreadAssumption
  <2> QED
    <3> HIDE DEF w, all, m, q
    <3> QED
      BY <1>2, <1>3, <1>4, <2>3, <2>4, <2>5, <2>6, <2>7
<1>6. CASE m = Layers - 1
  <2>1. 0 \in 0 .. Layers - 1 /\ q + 1 \in Int /\ s + 1 = (q + 1) * Layers + 0
    <3> HIDE DEF q, m
    <3> QED
      BY <1>1, <1>6, ThreadAssumption
  <2>2. (s + 1) \div Layers = q + 1 /\ (s + 1) % Layers = 0
    <3> HIDE DEF q
    <3> QED
      BY <2>1, RowAndPlace, ThreadAssumption
  <2>3. Left(s + 1) = all - Layers * (2 * w)
    BY <1>2, <2>2, ThreadAssumption DEF Left, LayerOf
  <2>4. (Layers + m) * w = Layers * (2 * w) - w
    BY <1>1, <1>2, <1>6, ThreadAssumption
  <2>5. Layers * (2 * w) \in Nat
    BY <1>2, ThreadAssumption
  <2> QED
    <3> HIDE DEF w, all, m, q
    <3> QED
      BY <1>2, <1>3, <1>4, <2>3, <2>4, <2>5
<1> QED
  BY <1>1, <1>5, <1>6, ThreadAssumption

-----------------------------------------------------------------------------
(* What holds whatever the clock, the signals and pthread_create do.       *)

\* The steps of the main thread, and of the signal handler, that create no thread.
MainOnly ==
  \/ StartCommand \/ LayerCommand \/ cube_start \/ CreateFails \/ cube_stop
  \/ JoinRefresh \/ StopOff \/ JoinCanary \/ Crash \/ signal_handler

\* They leave the refresh and the canary thread to themselves.
LEMMA MainKeeps == MainOnly => KeepThreads
BY DEF MainOnly, StartCommand, LayerCommand, cube_start, CreateFails, cube_stop,
       JoinRefresh, StopOff, JoinCanary, Crash, signal_handler, HandlerOff,
       HandlerWake, HandlerOffAgain, HandlerAbort

\* Every step keeps the types.
LEMMA TypeStep == TypeOK /\ [Next]_vars => TypeOK'
<1> SUFFICES ASSUME TypeOK, [Next]_vars PROVE TypeOK'
  OBVIOUS
<1>0. /\ 0 \in Slot
      /\ PassTime \in Nat /\ Boot \in Nat /\ Interval \in Nat /\ Grace \in Nat
      /\ ClockStep \in Nat /\ MaxClockSteps \in Nat /\ MaxSignals \in Nat
  BY FirstSlot, ThreadAssumption
<1> USE <1>0 DEF TypeOK, Refresh, Canary, Main, flags, mainVars, refreshVars,
       canaryVars, worldVars, KeepThreads, KeepPins
<1>1. CASE RefreshTop
  <2>1. CASE exiting
    BY <2>1, <1>1 DEF RefreshTop
  <2>2. CASE ~exiting
    BY <2>2, <1>1 DEF RefreshTop
  <2> QED
    BY <2>1, <2>2
<1>2. CASE RefreshShow
  BY <1>2, SlotIsOne DEF RefreshShow
<1>3. CASE RefreshShade
  BY <1>3 DEF RefreshShade
<1>4. CASE RefreshNext
  BY <1>4 DEF RefreshNext
<1>5. CASE RefreshWake
  BY <1>5 DEF RefreshWake
<1>6. CASE CanaryWake
  BY <1>6 DEF CanaryWake
<1>7. CASE CanaryLook
  BY <1>7 DEF CanaryLook
<1>8. CASE CanaryJudge
  BY <1>8 DEF CanaryJudge
<1>9. CASE CanaryClear
  BY <1>9 DEF CanaryClear
<1>10. CASE CanaryAlarm
  BY <1>10 DEF CanaryAlarm, cube_off
<1>11. CASE CanaryExit
  BY <1>11 DEF CanaryExit
<1>12. CASE StartCommand
  BY <1>12 DEF StartCommand
<1>13. CASE LayerCommand
  BY <1>13 DEF LayerCommand
<1>14. CASE cube_start
  BY <1>14 DEF cube_start
<1>15. CASE CreateRefresh
  BY <1>15 DEF CreateRefresh
<1>16. CASE CreateCanary
  BY <1>16 DEF CreateCanary
<1>17. CASE CreateFails
  BY <1>17 DEF CreateFails
<1>18. CASE cube_stop
  BY <1>18 DEF cube_stop
<1>19. CASE JoinRefresh
  BY <1>19 DEF JoinRefresh
<1>20. CASE StopOff
  BY <1>20 DEF StopOff, cube_off
<1>21. CASE JoinCanary
  BY <1>21 DEF JoinCanary
<1>22. CASE Crash
  BY <1>22 DEF Crash
<1>23. CASE HandlerOff
  BY <1>23 DEF HandlerOff, cube_off
<1>24. CASE HandlerWake
  BY <1>24 DEF HandlerWake
<1>25. CASE HandlerOffAgain
  BY <1>25 DEF HandlerOffAgain, cube_off
<1>26. CASE HandlerAbort
  BY <1>26 DEF HandlerAbort
<1>27. CASE Tick
  BY <1>27 DEF Tick, Less
<1>28. CASE SetClock
  BY <1>28 DEF SetClock
<1>29. CASE Interrupt
  BY <1>29 DEF Interrupt
<1>30. CASE UNCHANGED vars
  BY <1>30 DEF vars
<1> QED
  BY <1>1, <1>2, <1>3, <1>4, <1>5, <1>6, <1>7, <1>8, <1>9, <1>10, <1>11,
     <1>12, <1>13, <1>14, <1>15, <1>16, <1>17, <1>18, <1>19, <1>20, <1>21,
     <1>22, <1>23, <1>24, <1>25, <1>26, <1>27, <1>28, <1>29, <1>30
  DEF Next, cube_refresh, canary_thread, MainStep, signal_handler

\* Every step keeps the threads in their order.
LEMMA ControlStep == TypeOK /\ Control /\ [Next]_vars => Control'
<1> SUFFICES ASSUME TypeOK, Control, [Next]_vars PROVE Control'
  OBVIOUS
<1> USE DEF Control, TypeOK, Alive, InHandler, Unstarted, flags, mainVars,
       refreshVars, canaryVars, KeepThreads
<1>1. CASE RefreshTop
  BY <1>1 DEF RefreshTop
<1>2. CASE RefreshShow
  BY <1>2 DEF RefreshShow
<1>3. CASE RefreshShade
  BY <1>3 DEF RefreshShade
<1>4. CASE RefreshNext
  BY <1>4 DEF RefreshNext
<1>5. CASE RefreshWake
  BY <1>5 DEF RefreshWake
<1>6. CASE CanaryWake
  BY <1>6 DEF CanaryWake
<1>7. CASE CanaryLook
  BY <1>7 DEF CanaryLook
<1>8. CASE CanaryJudge
  BY <1>8 DEF CanaryJudge
<1>9. CASE CanaryClear
  BY <1>9 DEF CanaryClear
<1>10. CASE CanaryAlarm
  BY <1>10 DEF CanaryAlarm, cube_off
<1>11. CASE CanaryExit
  BY <1>11 DEF CanaryExit
<1>12. CASE StartCommand
  BY <1>12 DEF StartCommand
<1>13. CASE LayerCommand
  BY <1>13 DEF LayerCommand
<1>14. CASE cube_start
  BY <1>14 DEF cube_start
<1>15. CASE CreateRefresh
  BY <1>15 DEF CreateRefresh
<1>16. CASE CreateCanary
  BY <1>16 DEF CreateCanary
<1>17. CASE CreateFails
  BY <1>17 DEF CreateFails
<1>18. CASE cube_stop
  BY <1>18 DEF cube_stop
<1>19. CASE JoinRefresh
  BY <1>19 DEF JoinRefresh
<1>20. CASE StopOff
  BY <1>20 DEF StopOff, cube_off
<1>21. CASE JoinCanary
  BY <1>21 DEF JoinCanary
<1>22. CASE Crash
  BY <1>22 DEF Crash
<1>23. CASE HandlerOff
  BY <1>23 DEF HandlerOff, cube_off
<1>24. CASE HandlerWake
  BY <1>24 DEF HandlerWake
<1>25. CASE HandlerOffAgain
  BY <1>25 DEF HandlerOffAgain, cube_off
<1>26. CASE HandlerAbort
  BY <1>26 DEF HandlerAbort
<1>27. CASE Tick
  BY <1>27 DEF Tick
<1>28. CASE SetClock
  BY <1>28 DEF SetClock
<1>29. CASE Interrupt
  BY <1>29 DEF Interrupt
<1>30. CASE UNCHANGED vars
  BY <1>30 DEF vars
<1> QED
  BY <1>1, <1>2, <1>3, <1>4, <1>5, <1>6, <1>7, <1>8, <1>9, <1>10, <1>11,
     <1>12, <1>13, <1>14, <1>15, <1>16, <1>17, <1>18, <1>19, <1>20, <1>21,
     <1>22, <1>23, <1>24, <1>25, <1>26, <1>27, <1>28, <1>29, <1>30
  DEF Next, cube_refresh, canary_thread, MainStep, signal_handler

\* Every step keeps what is lit answered for.
LEMMA LitStep == TypeOK /\ Control /\ LitIsShown /\ [Next]_vars => LitIsShown'
<1> SUFFICES ASSUME TypeOK, Control, LitIsShown, [Next]_vars PROVE LitIsShown'
  OBVIOUS
<1> USE DEF Control, LitIsShown, LayerOf, Unstarted, refreshVars, KeepThreads,
       KeepPins
<1>1. CASE RefreshTop
  BY <1>1 DEF RefreshTop
<1>2. CASE RefreshShow
  BY <1>2 DEF RefreshShow
<1>3. CASE RefreshShade
  BY <1>3 DEF RefreshShade
<1>4. CASE RefreshNext
  BY <1>4 DEF RefreshNext
<1>5. CASE RefreshWake
  BY <1>5 DEF RefreshWake
<1>6. CASE CanaryWake
  BY <1>6 DEF CanaryWake
<1>7. CASE CanaryLook
  BY <1>7 DEF CanaryLook
<1>8. CASE CanaryJudge
  BY <1>8 DEF CanaryJudge
<1>9. CASE CanaryClear
  BY <1>9 DEF CanaryClear
<1>10. CASE CanaryAlarm
  BY <1>10 DEF CanaryAlarm, cube_off
<1>11. CASE CanaryExit
  BY <1>11 DEF CanaryExit
<1>12. CASE StartCommand
  BY <1>12 DEF StartCommand
<1>13. CASE LayerCommand
  BY <1>13 DEF LayerCommand
<1>14. CASE cube_start
  BY <1>14 DEF cube_start
<1>15. CASE CreateRefresh
  BY <1>15 DEF CreateRefresh
<1>16. CASE CreateCanary
  BY <1>16 DEF CreateCanary
<1>17. CASE CreateFails
  BY <1>17 DEF CreateFails
<1>18. CASE cube_stop
  BY <1>18 DEF cube_stop
<1>19. CASE JoinRefresh
  BY <1>19 DEF JoinRefresh
<1>20. CASE StopOff
  BY <1>20 DEF StopOff, cube_off
<1>21. CASE JoinCanary
  BY <1>21 DEF JoinCanary
<1>22. CASE Crash
  BY <1>22 DEF Crash
<1>23. CASE HandlerOff
  BY <1>23 DEF HandlerOff, cube_off
<1>24. CASE HandlerWake
  BY <1>24 DEF HandlerWake
<1>25. CASE HandlerOffAgain
  BY <1>25 DEF HandlerOffAgain, cube_off
<1>26. CASE HandlerAbort
  BY <1>26 DEF HandlerAbort
<1>27. CASE Tick
  BY <1>27 DEF Tick
<1>28. CASE SetClock
  BY <1>28 DEF SetClock
<1>29. CASE Interrupt
  BY <1>29 DEF Interrupt
<1>30. CASE UNCHANGED vars
  BY <1>30 DEF vars
<1> QED
  BY <1>1, <1>2, <1>3, <1>4, <1>5, <1>6, <1>7, <1>8, <1>9, <1>10, <1>11,
     <1>12, <1>13, <1>14, <1>15, <1>16, <1>17, <1>18, <1>19, <1>20, <1>21,
     <1>22, <1>23, <1>24, <1>25, <1>26, <1>27, <1>28, <1>29, <1>30
  DEF Next, cube_refresh, canary_thread, MainStep, signal_handler

\* What holds at every moment.
LEMMA AlwaysControl == Spec => [](TypeOK /\ Control /\ LitIsShown)
<1>1. Init => TypeOK /\ Control /\ LitIsShown
  <2>1. 0 \in Slot /\ 0 \in 0 .. Interval /\ 0 \in 0 .. MaxClockSteps
        /\ 0 \in 0 .. MaxSignals
    BY FirstSlot, ThreadAssumption
  <2> SUFFICES ASSUME Init PROVE TypeOK /\ Control /\ LitIsShown
    OBVIOUS
  <2>2. TypeOK
    BY <2>1 DEF Init, TypeOK, Refresh, Canary, Main
  <2>3. Control
    BY DEF Init, Control, Unstarted, InHandler
  <2>4. LitIsShown
    BY DEF Init, LitIsShown
  <2> QED
    BY <2>2, <2>3, <2>4
<1> QED
  BY <1>1, TypeStep, ControlStep, LitStep, PTL DEF Spec

\* Every variable keeps its type: the refresh thread never counts past its
\* last exposure, whatever is interrupted and however the clock is set.
THEOREM ThreadsTypeCorrect == Spec => []TypeOK
BY AlwaysControl, PTL

\* cube_start never creates a thread beside an earlier one of its kind.
THEOREM ThreadsAreSingle == Spec => []OneOfEach
<1>1. Control => OneOfEach
  BY DEF Control, OneOfEach
<1> QED
  BY <1>1, AlwaysControl, PTL

\* The refresh thread never lights two layers together.
THEOREM LayersAreSingle == Spec => []OneLayerLit
<1>1. LitIsShown => OneLayerLit
  <2> SUFFICES ASSUME LitIsShown PROVE Cardinality(lit \ manual) <= 1
    BY DEF OneLayerLit
  <2>1. lit \ manual = {} \/ lit \ manual = {LayerOf(slot)}
    BY DEF LitIsShown
  <2> QED
    BY <2>1, FS_EmptySet, FS_Singleton
<1> QED
  BY <1>1, AlwaysControl, PTL

\* cube_stop leaves no layer lit and no thread to light one.
THEOREM StopLeavesDark == Spec => []StoppedIsDark
<1>1. Control /\ LitIsShown => StoppedIsDark
  BY DEF Control, LitIsShown, StoppedIsDark
<1> QED
  BY <1>1, AlwaysControl, PTL

\* While the canary waits the silence grows as its time runs out.
LEMMA SilenceStep == TypeOK /\ Silence /\ [Next]_vars => Silence'
<1> SUFFICES ASSUME TypeOK, Silence, [Next]_vars PROVE Silence'
  OBVIOUS
<1>0. Interval \in Nat /\ Boot \in Nat
  BY ThreadAssumption
<1> USE <1>0 DEF TypeOK, Silence, canaryVars
<1>1. CASE RefreshTop
  BY <1>1 DEF RefreshTop
<1>2. CASE RefreshShow
  BY <1>2 DEF RefreshShow
<1>3. CASE RefreshShade
  BY <1>3 DEF RefreshShade
<1>4. CASE RefreshNext
  BY <1>4 DEF RefreshNext
<1>5. CASE RefreshWake
  BY <1>5 DEF RefreshWake
<1>6. CASE CanaryWake
  BY <1>6 DEF CanaryWake
<1>7. CASE CanaryLook
  BY <1>7 DEF CanaryLook
<1>8. CASE CanaryJudge
  BY <1>8 DEF CanaryJudge
<1>9. CASE CanaryClear
  BY <1>9 DEF CanaryClear
<1>10. CASE CanaryAlarm
  BY <1>10 DEF CanaryAlarm
<1>11. CASE CanaryExit
  BY <1>11 DEF CanaryExit
<1>12. CASE CreateRefresh
  BY <1>12 DEF CreateRefresh
<1>13. CASE CreateCanary
  BY <1>13 DEF CreateCanary
<1>14. CASE MainOnly
  BY <1>14, MainKeeps DEF KeepThreads
<1>15. CASE Tick
  BY <1>15 DEF Tick, Less
<1>16. CASE SetClock
  BY <1>16 DEF SetClock
<1>17. CASE Interrupt
  BY <1>17 DEF Interrupt
<1>18. CASE UNCHANGED vars
  BY <1>18 DEF vars
<1> QED
  BY <1>1, <1>2, <1>3, <1>4, <1>5, <1>6, <1>7, <1>8, <1>9, <1>10, <1>11,
     <1>12, <1>13, <1>14, <1>15, <1>16, <1>17, <1>18
  DEF Next, cube_refresh, canary_thread, MainStep, MainOnly

\* An alarm means that the refresh thread has begun no pass for a whole
\* interval, even when its clock is set back and its sleeps are interrupted.
THEOREM AlarmsMeanQuiet == Spec => AlarmMeansQuiet
<1>1. Init => Silence
  BY DEF Init, Silence
<1>2. TypeOK /\ Silence /\ [Next]_vars =>
        [kpc = "judge" /\ kpc' = "alarm" => quiet = Interval]_vars
  <2> SUFFICES ASSUME TypeOK, Silence, [Next]_vars, kpc = "judge", kpc' = "alarm"
               PROVE  quiet = Interval
    OBVIOUS
  <2>1. CASE UNCHANGED vars
    BY <2>1 DEF vars
  <2>2. CASE canary_thread
    BY <2>2 DEF canary_thread, CanaryWake, CanaryLook, CanaryJudge, CanaryClear,
       CanaryAlarm, CanaryExit, Silence, canaryVars
  <2>3. CASE cube_refresh
    BY <2>3 DEF cube_refresh, RefreshTop, RefreshShow, RefreshShade, RefreshNext,
       RefreshWake, canaryVars
  <2>4. CASE MainStep
    BY <2>4 DEF MainStep, cube_start, CreateRefresh, CreateCanary, JoinRefresh,
       StopOff, JoinCanary, signal_handler, HandlerOff, HandlerWake,
       HandlerOffAgain, HandlerAbort, KeepThreads, canaryVars
  <2>5. CASE \/ Tick \/ StartCommand \/ LayerCommand \/ cube_stop \/ CreateFails
             \/ Crash \/ SetClock \/ Interrupt
    BY <2>5 DEF Tick, StartCommand, LayerCommand, cube_stop, CreateFails, Crash,
       SetClock, Interrupt, KeepThreads, canaryVars
  <2> QED
    BY <2>1, <2>2, <2>3, <2>4, <2>5 DEF Next
<1> QED
  BY <1>1, <1>2, AlwaysControl, SilenceStep, PTL DEF Spec, AlarmMeansQuiet

\* The canary's waits bound how long the layer has been lit.
LEMMA GlowStep == TypeOK /\ Control /\ Glowing /\ [Next]_vars => Glowing'
<1> SUFFICES ASSUME TypeOK, Control, Glowing, [Next]_vars PROVE Glowing'
  OBVIOUS
<1>0. Interval \in Nat /\ Boot \in Nat
  BY ThreadAssumption
<1> USE <1>0 DEF TypeOK, Control, Glowing, Bound, Unstarted, mainVars, refreshVars,
       canaryVars, KeepThreads, KeepPins
<1>1. CASE RefreshTop
  BY <1>1 DEF RefreshTop
<1>2. CASE RefreshShow
  BY <1>2 DEF RefreshShow
<1>3. CASE RefreshShade
  BY <1>3 DEF RefreshShade
<1>4. CASE RefreshNext
  BY <1>4 DEF RefreshNext
<1>5. CASE RefreshWake
  BY <1>5 DEF RefreshWake
<1>6. CASE CanaryWake
  BY <1>6 DEF CanaryWake
<1>7. CASE CanaryLook
  BY <1>7 DEF CanaryLook
<1>8. CASE CanaryJudge
  BY <1>8 DEF CanaryJudge
<1>9. CASE CanaryClear
  BY <1>9 DEF CanaryClear
<1>10. CASE CanaryAlarm
  BY <1>10 DEF CanaryAlarm, cube_off
<1>11. CASE CanaryExit
  BY <1>11 DEF CanaryExit
<1>12. CASE StartCommand
  BY <1>12 DEF StartCommand
<1>13. CASE LayerCommand
  BY <1>13 DEF LayerCommand
<1>14. CASE cube_start
  BY <1>14 DEF cube_start
<1>15. CASE CreateRefresh
  BY <1>15 DEF CreateRefresh
<1>16. CASE CreateCanary
  BY <1>16 DEF CreateCanary
<1>17. CASE CreateFails
  BY <1>17 DEF CreateFails
<1>18. CASE cube_stop
  BY <1>18 DEF cube_stop
<1>19. CASE JoinRefresh
  BY <1>19 DEF JoinRefresh
<1>20. CASE StopOff
  BY <1>20 DEF StopOff, cube_off
<1>21. CASE JoinCanary
  BY <1>21 DEF JoinCanary
<1>22. CASE Crash
  BY <1>22 DEF Crash
<1>23. CASE HandlerOff
  BY <1>23 DEF HandlerOff, cube_off
<1>24. CASE HandlerWake
  BY <1>24 DEF HandlerWake
<1>25. CASE HandlerOffAgain
  BY <1>25 DEF HandlerOffAgain, cube_off
<1>26. CASE HandlerAbort
  BY <1>26 DEF HandlerAbort
<1>27. CASE Tick
  <2>1. CASE kpc = "boot"
    BY <2>1, <1>27 DEF Tick, RefreshAsleep, CanaryAsleep, Less
  <2>2. CASE kpc = "wait"
    BY <2>2, <1>27 DEF Tick, RefreshAsleep, CanaryAsleep, Less
  <2>3. CASE kpc \in {"look", "judge", "clear", "alarm", "quit"}
    BY <2>3, <1>27 DEF Tick, RefreshAsleep, CanaryAsleep, Less
  <2>4. CASE Unstarted(kpc)
    BY <2>4, <1>27 DEF Tick, RefreshAsleep, CanaryAsleep, Less
  <2> QED
    BY <2>1, <2>2, <2>3, <2>4, <1>27 DEF Canary
<1>28. CASE SetClock
  BY <1>28 DEF SetClock
<1>29. CASE Interrupt
  BY <1>29 DEF Interrupt
<1>30. CASE UNCHANGED vars
  BY <1>30 DEF vars
<1> QED
  BY <1>1, <1>2, <1>3, <1>4, <1>5, <1>6, <1>7, <1>8, <1>9, <1>10, <1>11,
     <1>12, <1>13, <1>14, <1>15, <1>16, <1>17, <1>18, <1>19, <1>20, <1>21,
     <1>22, <1>23, <1>24, <1>25, <1>26, <1>27, <1>28, <1>29, <1>30
  DEF Next, cube_refresh, canary_thread, MainStep, signal_handler

\* However long the refresh thread oversleeps, the canary turns its layer off
\* within its first sleep and two intervals.
THEOREM GlowIsBounded == Spec => []NoLongGlow
<1>1. Init => Glowing
  BY ThreadAssumption DEF Init, Glowing, Bound
<1>2. Glowing => NoLongGlow
  BY DEF Glowing, NoLongGlow
<1> QED
  BY <1>1, <1>2, AlwaysControl, GlowStep, PTL DEF Spec

-----------------------------------------------------------------------------
(* What the times give, as long as the clock of the computer is not set.   *)

\* What has happened stays so: a clock or a signal that has not come had not
\* come before either.
LEMMA StillNone ==
  ASSUME TypeOK, [Next]_vars
  PROVE  (steps' = 0 => steps = 0) /\ (signals' = 0 => signals = 0)
<1> USE DEF TypeOK, worldVars, KeepThreads
<1>1. CASE cube_refresh
  BY <1>1 DEF cube_refresh, RefreshTop, RefreshShow, RefreshShade, RefreshNext,
       RefreshWake
<1>2. CASE canary_thread
  BY <1>2 DEF canary_thread, CanaryWake, CanaryLook, CanaryJudge, CanaryClear,
       CanaryAlarm, CanaryExit
<1>3. CASE CreateRefresh \/ CreateCanary
  BY <1>3 DEF CreateRefresh, CreateCanary
<1>4. CASE MainOnly
  BY <1>4, MainKeeps
<1>5. CASE Tick
  BY <1>5 DEF Tick
<1>6. CASE SetClock
  BY <1>6 DEF SetClock
<1>7. CASE Interrupt
  BY <1>7 DEF Interrupt
<1>8. CASE UNCHANGED vars
  BY <1>8 DEF vars
<1> QED
  BY <1>1, <1>2, <1>3, <1>4, <1>5, <1>6, <1>7, <1>8 DEF Next, MainStep, MainOnly

\* A refresh thread that is asleep in its pass is still within it.
LEMMA DueIsNumber ==
  ASSUME TypeOK, PassInTime
  PROVE  Due \in Nat /\ (RefreshAsleep /\ ~Unstarted(rpc) => pass > 0)
<1>1. Due \in Nat
  BY DEF Due, TypeOK
<1>2. CASE rpc = "lit"
  <2>1. Left(slot + 1) \in Nat
    BY LeftAtNext DEF TypeOK
  <2> QED
    BY <1>1, <1>2, <2>1 DEF RefreshAsleep, PassInTime, TypeOK
<1> QED
  BY <1>1, <1>2 DEF RefreshAsleep, PassInTime, TypeOK, Unstarted

\* Every step leaves the pass the time for its exposures.
LEMMA PassStep ==
  ASSUME steps' = 0, TypeOK, Control, PassInTime, [Next]_vars
  PROVE  PassInTime'
<1>0. /\ Left(0) \in Nat /\ Left(0) <= PassTime /\ PassTime \in Nat
      /\ slot \in Slot /\ Left(slot + 1) \in Nat
      /\ Left(slot) = Exposure(slot) + Left(slot + 1) /\ Exposure(slot) \in Nat
  BY LeftAtFirst, LeftAtNext, SlotIsOne, ThreadAssumption DEF TypeOK
<1> USE <1>0 DEF TypeOK, PassInTime, Unstarted, refreshVars
<1>1. CASE RefreshTop
  BY <1>1 DEF RefreshTop
<1>2. CASE RefreshShow
  BY <1>2 DEF RefreshShow
<1>3. CASE RefreshShade
  BY <1>3 DEF RefreshShade
<1>4. CASE RefreshNext
  BY <1>4 DEF RefreshNext
<1>5. CASE RefreshWake
  BY <1>5 DEF RefreshWake
<1>6. CASE CanaryWake
  BY <1>6 DEF CanaryWake
<1>7. CASE CanaryLook
  BY <1>7 DEF CanaryLook
<1>8. CASE CanaryJudge
  BY <1>8 DEF CanaryJudge
<1>9. CASE CanaryClear
  BY <1>9 DEF CanaryClear
<1>10. CASE CanaryAlarm
  BY <1>10 DEF CanaryAlarm
<1>11. CASE CanaryExit
  BY <1>11 DEF CanaryExit
<1>12. CASE CreateRefresh
  BY <1>12 DEF CreateRefresh
<1>13. CASE CreateCanary
  BY <1>13 DEF CreateCanary
<1>14. CASE MainOnly
  BY <1>14, MainKeeps DEF KeepThreads
<1>15. CASE Tick
  <2>1. CASE rpc = "lit"
    BY <2>1, <1>15 DEF Tick, RefreshAsleep, Less
  <2>2. CASE rpc = "shade"
    BY <2>2, <1>15 DEF Tick, RefreshAsleep, Less
  <2>3. CASE rpc = "rest"
    BY <2>3, <1>15 DEF Tick, RefreshAsleep, Less
  <2>4. CASE Unstarted(rpc)
    BY <2>4, <1>15 DEF Tick, RefreshAsleep, Less
  <2> QED
    BY <2>1, <2>2, <2>3, <2>4, <1>15 DEF Tick, RefreshAsleep
<1>16. CASE SetClock
  BY <1>16 DEF SetClock
<1>17. CASE Interrupt
  BY <1>17 DEF Interrupt
<1>18. CASE UNCHANGED vars
  BY <1>18 DEF vars
<1> QED
  BY <1>1, <1>2, <1>3, <1>4, <1>5, <1>6, <1>7, <1>8, <1>9, <1>10, <1>11,
     <1>12, <1>13, <1>14, <1>15, <1>16, <1>17, <1>18
  DEF Next, cube_refresh, canary_thread, MainStep, MainOnly

\* While the canary waits, the song has been sung or will be in time; so it
\* never gives an alarm.
LEMMA SongStep ==
  ASSUME steps' = 0, TypeOK, Control, PassInTime, SongInTime, [Next]_vars
  PROVE  SongInTime'
<1>0. /\ Due \in Nat /\ (RefreshAsleep /\ ~Unstarted(rpc) => pass > 0)
      /\ PassTime < Interval /\ PassTime \in Nat /\ Interval \in Nat
      /\ ~Unstarted(rpc) /\ rpc # "top" => pass <= PassTime
  BY DueIsNumber, ThreadAssumption DEF PassInTime
<1> USE <1>0 DEF TypeOK, SongInTime, Control, Unstarted, Due,
       flags, refreshVars, canaryVars, KeepThreads
<1>1. CASE RefreshTop
  BY <1>1 DEF RefreshTop
<1>2. CASE RefreshShow
  BY <1>2 DEF RefreshShow
<1>3. CASE RefreshShade
  BY <1>3 DEF RefreshShade
<1>4. CASE RefreshNext
  BY <1>4 DEF RefreshNext
<1>5. CASE RefreshWake
  BY <1>5 DEF RefreshWake
<1>6. CASE CanaryWake
  BY <1>6 DEF CanaryWake
<1>7. CASE CanaryLook
  BY <1>7 DEF CanaryLook
<1>8. CASE CanaryJudge
  BY <1>8 DEF CanaryJudge
<1>9. CASE CanaryClear
  BY <1>9 DEF CanaryClear
<1>10. CASE CanaryAlarm
  BY <1>10 DEF CanaryAlarm, cube_off
<1>11. CASE CanaryExit
  BY <1>11 DEF CanaryExit
<1>12. CASE StartCommand
  BY <1>12 DEF StartCommand
<1>13. CASE LayerCommand
  BY <1>13 DEF LayerCommand
<1>14. CASE cube_start
  BY <1>14 DEF cube_start
<1>15. CASE CreateRefresh
  BY <1>15 DEF CreateRefresh
<1>16. CASE CreateCanary
  BY <1>16 DEF CreateCanary
<1>17. CASE CreateFails
  BY <1>17 DEF CreateFails
<1>18. CASE cube_stop
  BY <1>18 DEF cube_stop
<1>19. CASE JoinRefresh
  BY <1>19 DEF JoinRefresh
<1>20. CASE StopOff
  BY <1>20 DEF StopOff, cube_off
<1>21. CASE JoinCanary
  BY <1>21 DEF JoinCanary
<1>22. CASE Crash
  BY <1>22 DEF Crash
<1>23. CASE HandlerOff
  BY <1>23 DEF HandlerOff, cube_off
<1>24. CASE HandlerWake
  BY <1>24 DEF HandlerWake
<1>25. CASE HandlerOffAgain
  BY <1>25 DEF HandlerOffAgain, cube_off
<1>26. CASE HandlerAbort
  BY <1>26 DEF HandlerAbort
<1>27. CASE Tick
  <2>1. CASE kpc # "wait"
    BY <2>1, <1>27 DEF Tick, CanaryAsleep, RefreshAsleep, Less
  <2>2. CASE kpc = "wait" /\ ~canary /\ ~exiting
    BY <2>2, <1>27 DEF Tick, CanaryAsleep, RefreshAsleep, Less
  <2>3. CASE kpc = "wait" /\ (canary \/ exiting)
    BY <2>3, <1>27 DEF Tick, CanaryAsleep, RefreshAsleep, Less
  <2> QED
    BY <2>1, <2>2, <2>3
<1>28. CASE SetClock
  BY <1>28 DEF SetClock
<1>29. CASE Interrupt
  BY <1>29 DEF Interrupt
<1>30. CASE UNCHANGED vars
  BY <1>30 DEF vars
<1> QED
  BY <1>1, <1>2, <1>3, <1>4, <1>5, <1>6, <1>7, <1>8, <1>9, <1>10, <1>11,
     <1>12, <1>13, <1>14, <1>15, <1>16, <1>17, <1>18, <1>19, <1>20, <1>21,
     <1>22, <1>23, <1>24, <1>25, <1>26, <1>27, <1>28, <1>29, <1>30
  DEF Next, cube_refresh, canary_thread, MainStep, signal_handler

\* Until somebody sets the clock of the computer, the canary never takes a
\* refresh thread that keeps its time for one that hangs; signals may come and
\* threads may not be created.
THEOREM NoAlarmInTime == Spec => []NoAlarm
<1>1. Init => PassInTime /\ SongInTime
  BY DEF Init, PassInTime, SongInTime, Unstarted
<1>2. TypeOK /\ Control /\ (steps = 0 => PassInTime /\ SongInTime) /\ [Next]_vars
        => (steps = 0 => PassInTime /\ SongInTime)'
  BY PassStep, SongStep, StillNone
<1>3. (steps = 0 => PassInTime /\ SongInTime) => NoAlarm
  BY DEF SongInTime, NoAlarm
<1> QED
  BY <1>1, <1>2, <1>3, AlwaysControl, PTL DEF Spec

\* While the crash handler sleeps the pass ends, and with it the thread; and
\* the process ends in the dark.
LEMMA EndStep ==
  ASSUME steps' = 0, signals' = 0, TypeOK, Control, LitIsShown,
         PassInTime, SongInTime, EndInTime, [Next]_vars
  PROVE  EndInTime'
<1>0. /\ Due \in Nat /\ (RefreshAsleep /\ ~Unstarted(rpc) => pass > 0)
      /\ PassTime < Grace /\ PassTime \in Nat /\ Grace \in Nat
      /\ ~Unstarted(rpc) /\ rpc # "top" => pass <= PassTime
  BY DueIsNumber, ThreadAssumption DEF PassInTime
<1> USE <1>0 DEF TypeOK, EndInTime, Control, Unstarted, Due, Alive,
       InHandler, LitIsShown, SongInTime, flags, mainVars, refreshVars,
       KeepThreads, KeepPins
<1>1. CASE RefreshTop
  BY <1>1 DEF RefreshTop
<1>2. CASE RefreshShow
  BY <1>2 DEF RefreshShow
<1>3. CASE RefreshShade
  BY <1>3 DEF RefreshShade
<1>4. CASE RefreshNext
  BY <1>4 DEF RefreshNext
<1>5. CASE RefreshWake
  BY <1>5 DEF RefreshWake
<1>6. CASE CanaryWake
  BY <1>6 DEF CanaryWake
<1>7. CASE CanaryLook
  BY <1>7 DEF CanaryLook
<1>8. CASE CanaryJudge
  BY <1>8 DEF CanaryJudge
<1>9. CASE CanaryClear
  BY <1>9 DEF CanaryClear
<1>10. CASE CanaryAlarm
  BY <1>10 DEF CanaryAlarm, cube_off
<1>11. CASE CanaryExit
  BY <1>11 DEF CanaryExit
<1>12. CASE StartCommand
  BY <1>12 DEF StartCommand
<1>13. CASE LayerCommand
  BY <1>13 DEF LayerCommand
<1>14. CASE cube_start
  BY <1>14 DEF cube_start
<1>15. CASE CreateRefresh
  BY <1>15 DEF CreateRefresh
<1>16. CASE CreateCanary
  BY <1>16 DEF CreateCanary
<1>17. CASE CreateFails
  BY <1>17 DEF CreateFails
<1>18. CASE cube_stop
  BY <1>18 DEF cube_stop
<1>19. CASE JoinRefresh
  BY <1>19 DEF JoinRefresh
<1>20. CASE StopOff
  BY <1>20 DEF StopOff, cube_off
<1>21. CASE JoinCanary
  BY <1>21 DEF JoinCanary
<1>22. CASE Crash
  BY <1>22 DEF Crash
<1>23. CASE HandlerOff
  BY <1>23 DEF HandlerOff, cube_off
<1>24. CASE HandlerWake
  BY <1>24 DEF HandlerWake
<1>25. CASE HandlerOffAgain
  BY <1>25 DEF HandlerOffAgain, cube_off
<1>26. CASE HandlerAbort
  BY <1>26 DEF HandlerAbort
<1>27. CASE Tick
  BY <1>27 DEF Tick, RefreshAsleep, Less
<1>28. CASE SetClock
  BY <1>28 DEF SetClock
<1>29. CASE Interrupt
  BY <1>29 DEF Interrupt
<1>30. CASE UNCHANGED vars
  BY <1>30 DEF vars
<1> QED
  BY <1>1, <1>2, <1>3, <1>4, <1>5, <1>6, <1>7, <1>8, <1>9, <1>10, <1>11,
     <1>12, <1>13, <1>14, <1>15, <1>16, <1>17, <1>18, <1>19, <1>20, <1>21,
     <1>22, <1>23, <1>24, <1>25, <1>26, <1>27, <1>28, <1>29, <1>30
  DEF Next, cube_refresh, canary_thread, MainStep, signal_handler

\* No pass has lost its time, and no sleep of the handler's, until the clock is
\* set or SIGINT comes.
InTime == steps = 0 => /\ PassInTime /\ SongInTime
                       /\ signals = 0 => EndInTime

\* When the process ends, by itself or by a crash, no layer is left lit that was
\* not switched on by hand, but after SIGINT or a setting of the clock: the end
\* of the program waits for the threads, and the crash handler for longer than a
\* pass.
THEOREM EndsInTheDark == Spec => []DeadIsDark
<1>1. Init => InTime
  BY DEF Init, InTime, PassInTime, SongInTime, EndInTime, Unstarted
<1>2. TypeOK /\ Control /\ LitIsShown /\ InTime /\ [Next]_vars => InTime'
  <2> SUFFICES ASSUME TypeOK, Control, LitIsShown, InTime, [Next]_vars, steps' = 0
               PROVE  PassInTime' /\ SongInTime' /\ (signals' = 0 => EndInTime')
    BY DEF InTime
  <2>1. steps = 0 /\ (signals' = 0 => signals = 0)
    BY StillNone
  <2>2. PassInTime /\ SongInTime /\ (signals = 0 => EndInTime)
    BY <2>1 DEF InTime
  <2>3. PassInTime' /\ SongInTime'
    BY <2>2, PassStep, SongStep
  <2>4. ASSUME signals' = 0 PROVE EndInTime'
    BY <2>1, <2>2, <2>4, EndStep
  <2> QED
    BY <2>3, <2>4
<1>3. InTime => DeadIsDark
  BY DEF InTime, EndInTime, DeadIsDark
<1> QED
  BY <1>1, <1>2, <1>3, AlwaysControl, PTL DEF Spec
=============================================================================
