----------------------------- MODULE CubeRefresh -----------------------------
(***************************************************************************)
(* The data path of cube_refresh: the thread reads the matrix component by *)
(* component while another thread writes it, shifts one bit of each into   *)
(* the registers of the cube, latches them and lights the layer.  The      *)
(* times of it are the subject of CubeThreads; here every step takes as    *)
(* long as it likes.                                                       *)
(*                                                                         *)
(* The registers are hardware.  They take a bit in when CLOCK rises and    *)
(* pass what they hold to the columns when LATCH rises, which is how the   *)
(* thread uses them; the bit clocked first has travelled furthest.         *)
(***************************************************************************)
EXTENDS Integers

CONSTANTS
  Cols, Panels, Layers,  \* the edges of the cube
  Channel,               \* the colour components, with a register each
  Bits,                  \* the bits of a component, 6 in the code
  MaxStores              \* how many components are written

ASSUME RefreshAssumption ==
  /\ Cols \in Nat \ {0} /\ Panels \in Nat \ {0} /\ Layers \in Nat \ {0}
  /\ Bits \in Nat \ {0} /\ MaxStores \in Nat

\* Arithmetic the provers do not have, for the bits there are.
ASSUME PowerAssumption ==
  /\ 2^0 = 1
  /\ \A b \in 0 .. Bits : 2^b \in Nat \ {0} /\ 2^b <= 2^Bits
  /\ \A b \in 0 .. Bits - 1 : 2^(b + 1) = 2 * 2^b

VARIABLES
  cube,            \* the matrix
  exiting,         \* the refresh thread is to leave
  rpc, slot,       \* where the refresh thread is: what it does, of which exposure
  taken, read,     \* the LEDs clocked in, the components of the next one read
  clock, latch,    \* the pins CLOCK and LATCH are high
  data,            \* the pins RED, GREEN and BLUE
  shift, latched,  \* what the registers hold, and what they drive
  lit,             \* the layers whose pin is low
  stores,          \* the components written so far
  recent,          \* history: values of a component since the last exposure
  glow, touched    \* history: how bright the LEDs have been in this pass, and
                   \* the components written since it began

pins == <<clock, latch, data>>
registers == <<shift, latched>>
place == <<rpc, slot, taken, read>>
history == <<recent, glow, touched>>
refreshVars == <<cube, exiting, rpc, slot, taken, read, clock, latch, data, shift,
                 latched, lit, stores, recent, glow, touched>>

Site == (0 .. Cols - 1) \X (0 .. Panels - 1)
Pos == (0 .. Cols - 1) \X (0 .. Panels - 1) \X (0 .. Layers - 1)
Weight == [b \in 0 .. Bits |-> 2^b]
Level == 0 .. Weight[Bits] - 1
Slot == 0 .. Layers * Bits - 1
LayerOf(s) == s % Layers
BitOf(s) == s \div Layers
BitAt(v, b) == (v \div Weight[b]) % 2

\* The LED of a layer that is clocked in after k others: columns upwards, in
\* each of them the panels downwards.
Size == Cols * Panels
Cell == 0 .. Size - 1
\* (mutant) the panels upwards
SiteUpwards(k) == <<k \div Panels, k % Panels>>
SiteOf(k) == <<k \div Panels, Panels - 1 - (k % Panels)>>
LEDOf(k, layer) == <<SiteOf(k)[1], SiteOf(k)[2], layer>>
CellOf(site) == Size - 1 - (site[1] * Panels + Panels - 1 - site[2])

Off == [q \in Pos |-> [ch \in Channel |-> 0]]
Now(img) == [q \in Pos |-> [ch \in Channel |-> {img[q][ch]}]]
Empty == [ch \in Channel |-> [i \in Cell |-> 0]]

RefreshInit ==
  /\ cube = Off /\ exiting = FALSE
  /\ rpc = "top" /\ slot = 0 /\ taken = 0 /\ read = {}
  /\ clock = FALSE /\ latch = FALSE
  /\ data = [ch \in Channel |-> 0]
  /\ shift = Empty /\ latched = Empty
  /\ lit = {} /\ stores = 0
  /\ recent = Now(Off) /\ glow = Off /\ touched = {}

-----------------------------------------------------------------------------
(* cube_refresh.                                                           *)

RefreshTop ==
  /\ rpc = "top"
  /\ IF exiting
     THEN rpc' = "gone" /\ UNCHANGED <<clock, latch, glow, touched>>
     ELSE /\ rpc' = "load" /\ clock' = FALSE /\ latch' = FALSE
          /\ glow' = Off /\ touched' = {}
  /\ UNCHANGED <<cube, exiting, slot, taken, read, data, registers, lit, stores,
                 recent>>

\* One component of the LED whose turn it is.  They are plain loads: which comes
\* first is up to the compiler.
ReadComponent ==
  /\ rpc = "load"
  /\ \E ch \in Channel \ read :
       /\ read' = read \cup {ch}
       /\ data' = [data EXCEPT ![ch] =
                     BitAt(cube[LEDOf(taken, LayerOf(slot))][ch], BitOf(slot))]
  /\ UNCHANGED <<cube, exiting, rpc, slot, taken, clock, latch, registers, lit,
                 stores, history>>

\* CLOCK rises: every register moves its bits on and takes its pin's in.
Shifted(bit) ==
  [ch \in Channel |->
     [i \in Cell |-> IF i = 0 THEN bit[ch] ELSE shift[ch][i - 1]]]

ClockBits ==
  /\ rpc = "load" /\ read = Channel
  /\ clock' = TRUE /\ shift' = Shifted(data)
  /\ read' = {} /\ taken' = taken + 1
  /\ rpc' = (IF taken' = Size THEN "latch" ELSE "load")
  /\ UNCHANGED <<cube, exiting, slot, latch, data, latched, lit, stores, history>>

\* (mutant) LATCH not brought low first
LatchHigh ==
  /\ rpc = "latch" /\ rpc' = "on"
  /\ latch' = TRUE /\ latched' = (IF latch THEN latched ELSE shift)
  /\ UNCHANGED <<cube, exiting, slot, taken, read, clock, data, shift, lit, stores,
                 history>>
LatchData ==
  /\ rpc = "latch" /\ rpc' = "on"
  /\ latch' = TRUE /\ latched' = shift
  /\ UNCHANGED <<cube, exiting, slot, taken, read, clock, data, shift, lit, stores,
                 history>>

LayerOn ==
  /\ rpc = "on" /\ rpc' = "lit"
  /\ lit' = lit \cup {LayerOf(slot)}
  /\ UNCHANGED <<cube, exiting, slot, taken, read, pins, registers, stores, history>>

\* What the lit LEDs of an exposure add to the brightness of the pass.
Lit(q, ch) == IF q[3] \in lit THEN latched[ch][CellOf(<<q[1], q[2]>>)] ELSE 0
Glowing ==
  [q \in Pos |-> [ch \in Channel |->
     glow[q][ch] + Lit(q, ch) * Weight[BitOf(slot)]]]

\* After the layer is off: the next layer, the next bit, or the end of the pass.
\* (mutant) one exposure too many
LayerOffOnePast ==
  /\ rpc = "lit"
  /\ lit' = lit \ {LayerOf(slot)}
  /\ glow' = Glowing /\ recent' = Now(cube)
  /\ taken' = 0
  /\ IF slot \in Slot
     THEN rpc' = "load" /\ slot' = slot + 1 /\ UNCHANGED <<clock, latch>>
     ELSE rpc' = "rest" /\ slot' = 0 /\ UNCHANGED <<clock, latch>>
  /\ UNCHANGED <<cube, exiting, read, data, registers, stores, touched>>
LayerOff ==
  /\ rpc = "lit"
  /\ lit' = lit \ {LayerOf(slot)}
  /\ glow' = Glowing /\ recent' = Now(cube)
  /\ taken' = 0
  /\ IF slot + 1 \in Slot
     THEN /\ rpc' = "load" /\ slot' = slot + 1
          /\ IF LayerOf(slot + 1) = 0
             THEN clock' = FALSE /\ latch' = FALSE
             ELSE UNCHANGED <<clock, latch>>
     ELSE rpc' = "rest" /\ slot' = 0 /\ UNCHANGED <<clock, latch>>
  /\ UNCHANGED <<cube, exiting, read, data, registers, stores, touched>>

RefreshWake ==
  /\ rpc = "rest" /\ rpc' = "top"
  /\ UNCHANGED <<cube, exiting, slot, taken, read, pins, registers, lit, stores,
                 history>>

cube_refresh ==
  \/ RefreshTop \/ ReadComponent \/ ClockBits \/ LatchData
  \/ LayerOn \/ LayerOff \/ RefreshWake

-----------------------------------------------------------------------------
(* The thread that draws, and starts and stops the refresh thread.         *)

\* It waits while the refresh thread is leaving.
Free == exiting => rpc = "gone"

\* The stores of LED and cLED and the bytes of cube_from_buffer.
Store ==
  /\ Free /\ stores < MaxStores /\ stores' = stores + 1
  /\ \E q \in Pos, ch \in Channel, v \in Level :
       /\ cube' = [cube EXCEPT ![q][ch] = v]
       /\ recent' = [recent EXCEPT ![q][ch] = @ \cup {v}]
       /\ touched' = touched \cup {<<q, ch>>}
  /\ UNCHANGED <<exiting, place, pins, registers, lit, glow>>

cube_stop ==
  /\ ~exiting /\ exiting' = TRUE
  /\ UNCHANGED <<cube, place, pins, registers, lit, stores, history>>

cube_start ==
  /\ exiting /\ rpc = "gone"
  /\ exiting' = FALSE /\ rpc' = "top"
  /\ UNCHANGED <<cube, slot, taken, read, pins, registers, lit, stores, history>>

\* cube_load_layer pulses its pins high and low again: a pin that is high
\* already does not rise, so that the first pulse is lost.  On the pins of the
\* colours the last LED stays.
Pulses == IF clock THEN Size - 1 ELSE Size
HasColour(layer) ==
  [ch \in Channel |-> [i \in Cell |->
     IF cube[LEDOf(Size - 1 - i, layer)][ch] > 0 THEN 1 ELSE 0]]
cube_load_layer(layer) ==
  /\ exiting /\ rpc = "gone"
  /\ shift' = [ch \in Channel |-> [i \in Cell |->
                 IF i < Pulses THEN HasColour(layer)[ch][i]
                 ELSE shift[ch][i - Pulses]]]
  /\ data' = [ch \in Channel |-> HasColour(layer)[ch][0]]
  /\ clock' = FALSE /\ latch' = FALSE
  /\ latched' = (IF latch THEN latched ELSE shift')
  /\ UNCHANGED <<cube, exiting, place, lit, stores, history>>

LoadLayer == \E layer \in 0 .. Layers - 1 : cube_load_layer(layer)

RefreshNext ==
  \/ cube_refresh \/ Store \/ cube_stop \/ cube_start \/ LoadLayer

RefreshSpec == RefreshInit /\ [][RefreshNext]_refreshVars

-----------------------------------------------------------------------------
RefreshTypeOK ==
  /\ cube \in [Pos -> [Channel -> Level]] /\ exiting \in BOOLEAN
  /\ rpc \in {"top", "load", "latch", "on", "lit", "rest", "gone"}
  /\ slot \in Slot /\ taken \in 0 .. Size /\ read \subseteq Channel
  /\ clock \in BOOLEAN /\ latch \in BOOLEAN
  /\ data \in [Channel -> {0, 1}]
  /\ shift \in [Channel -> [Cell -> {0, 1}]]
  /\ latched \in [Channel -> [Cell -> {0, 1}]]
  /\ lit \subseteq 0 .. Layers - 1 /\ stores \in 0 .. MaxStores
  /\ recent \in [Pos -> [Channel -> SUBSET Level]]
  /\ glow \in [Pos -> [Channel -> Level]]
  /\ touched \subseteq Pos \X Channel

\* A component that is not written during a pass glows in it exactly as bright
\* as its value says: each bit is shown once, for its own time, on its own
\* layer, whatever happens to the other components meanwhile.
StillIsExact ==
  rpc = "rest" =>
    \A q \in Pos, ch \in Channel :
      <<q, ch>> \notin touched => glow[q][ch] = cube[q][ch]

\* The columns as the eye sees them: nothing while no layer is lit.
Shown ==
  [s \in Site |-> [ch \in Channel |->
     IF lit = {} THEN 0 ELSE latched[ch][CellOf(s)]]]

Display == INSTANCE CubeDisplay WITH shown <- Shown

\* The refresh thread shows what CubeDisplay says, beside any writer.
ImplementsDisplay == Display!DisplaySpec
=============================================================================
