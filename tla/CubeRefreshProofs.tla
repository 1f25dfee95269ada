-------------------------- MODULE CubeRefreshProofs --------------------------
(***************************************************************************)
(* The refresh thread implements CubeDisplay, for a cube of any size, any  *)
(* number of bits, and writes of any component at any moment.              *)
(*                                                                         *)
(* The invariant follows the bits of an exposure from the matrix to the    *)
(* columns: wherever they have got to, each is the bit of a value its LED  *)
(* has had since the last exposure, and of the one value of a component    *)
(* that is not written.  So what glows adds up, bit by bit, to the values. *)
(***************************************************************************)
EXTENDS CubeRefresh, TLAPS

-----------------------------------------------------------------------------
(* Division: a number is a row and a place in it.  The provers divide by    *)
(* numbers only.                                                            *)

\* A product is no smaller than a factor if the other is positive.
LEMMA ProductBound ==
  ASSUME NEW p \in Nat, NEW d \in Nat, d > 0
  PROVE  p * d \in Nat /\ p * d >= p
<1>1. p * d = p + p * (d - 1)
  OBVIOUS
<1>2. p * (d - 1) \in Nat
  OBVIOUS
<1> QED
  BY <1>1, <1>2

\* A number has one row and one place in it.
LEMMA RowAndPlace ==
  ASSUME NEW p \in Nat \ {0}, NEW c \in Int, NEW r \in 0 .. p - 1,
         NEW k, k = c * p + r
  PROVE  k \div p = c /\ k % p = r
<1> DEFINE q == k \div p
           m == k % p
<1>1. k \in Int /\ q \in Int /\ m \in 0 .. p - 1 /\ k = p * q + m
  OBVIOUS
<1>2. p * (q - c) = r - m /\ p * (c - q) = m - r
  <2> HIDE DEF q, m
  <2> QED
    BY <1>1
<1>3. ASSUME q > c PROVE FALSE
  <2>1. p * (q - c) >= p
    BY <1>1, <1>3, ProductBound
  <2> QED
    BY <1>1, <1>2, <2>1
<1>4. ASSUME q < c PROVE FALSE
  <2>1. p * (c - q) >= p
    BY <1>1, <1>4, ProductBound
  <2> QED
    BY <1>1, <1>2, <2>1
<1>5. q = c
  BY <1>1, <1>3, <1>4
<1> QED
  BY <1>1, <1>5

\* The numbers below a product are so many rows of so many places.
LEMMA InRows ==
  ASSUME NEW p \in Nat \ {0}, NEW n \in Nat, NEW k \in 0 .. p * n - 1
  PROVE  /\ k \div p \in 0 .. n - 1 /\ k % p \in 0 .. p - 1
         /\ k = (k \div p) * p + (k % p)
<1> DEFINE q == k \div p
           m == k % p
<1>1. k \in Nat /\ k < p * n
  OBVIOUS
<1>2. q \in Nat /\ m \in 0 .. p - 1 /\ k = p * q + m
  BY <1>1
<1> HIDE DEF q, m
<1>3. q < n
  <2>1. SUFFICES ASSUME q >= n PROVE FALSE
    BY <1>2
  <2>2. p * q = p * n + p * (q - n) /\ p * (q - n) \in Nat
    BY <1>2, <2>1
  <2> QED
    BY <1>1, <1>2, <2>2
<1>4. k = q * p + m
  BY <1>2
<1>5. q \in 0 .. n - 1 /\ m \in 0 .. p - 1 /\ k = q * p + m
  BY <1>2, <1>3, <1>4
<1> QED
  BY <1>5 DEF q, m

\* What a number leaves over the next power of two is what it leaves over this
\* one, and its bit.
LEMMA BitByBit ==
  ASSUME NEW w \in Nat \ {0}, NEW v \in Nat
  PROVE  v % (2 * w) = (v % w) + ((v \div w) % 2) * w
<1> DEFINE q == v \div w
           m == v % w
           h == q \div 2
           b == q % 2
<1>1. q \in Nat /\ m \in 0 .. w - 1 /\ v = w * q + m
  OBVIOUS
<1>2. h \in Int /\ b \in {0, 1} /\ q = 2 * h + b
  BY <1>1
<1> HIDE DEF q, m, h, b
<1>3. v = h * (2 * w) + (b * w + m)
  <2>1. w * q = w * (2 * h) + w * b
    BY <1>1, <1>2
  <2> QED
    BY <1>1, <1>2, <2>1
<1>4. b * w + m \in 0 .. (2 * w) - 1 /\ 2 * w \in Nat \ {0}
  BY <1>1, <1>2
<1>5. v % (2 * w) = b * w + m
  <2> DEFINE d == 2 * w
             r == b * w + m
  <2>1. d \in Nat \ {0} /\ r \in 0 .. d - 1 /\ v = h * d + r
    BY <1>3, <1>4
  <2> HIDE DEF d, r
  <2>2. v % d = r
    BY <1>2, <2>1, RowAndPlace
  <2> QED
    BY <2>2 DEF d, r
<1>6. v % (2 * w) = m + b * w
  BY <1>1, <1>2, <1>5
<1> QED
  BY <1>6 DEF q, m, b

-----------------------------------------------------------------------------

\* The bit is one a component of an LED has had since the last exposure; and
\* the bit of its value, if that has not been written in this pass.
Recent(bit, q, ch) ==
  /\ \E v \in recent[q][ch] : bit = BitAt(v, BitOf(slot))
  /\ <<q, ch>> \notin touched => bit = BitAt(cube[q][ch], BitOf(slot))

\* The LED clocked in after k others in the exposure at hand.
Current(k) == LEDOf(k, LayerOf(slot))

\* Where the thread is, and which layer is lit then.
Place ==
  /\ slot \in Slot /\ taken \in 0 .. Size /\ read \subseteq Channel
  /\ rpc \in {"top", "load", "latch", "on", "lit", "rest", "gone"}
  /\ rpc = "load" => taken < Size
  /\ rpc \in {"latch", "on"} => taken = Size
  /\ rpc \in {"top", "rest", "gone"} => taken = 0 /\ slot = 0
  /\ rpc # "load" => read = {}
  /\ lit = IF rpc = "lit" THEN {LayerOf(slot)} ELSE {}

\* What the matrix, the pins and the registers are functions of.
Shapes ==
  /\ cube \in [Pos -> [Channel -> Level]]
  /\ recent \in [Pos -> [Channel -> SUBSET Level]]
  /\ data \in [Channel -> {0, 1}]
  /\ shift \in [Channel -> [Cell -> {0, 1}]]
  /\ latched \in [Channel -> [Cell -> {0, 1}]]

\* The bits on their way.
InMatrix == \A q \in Pos, ch \in Channel : cube[q][ch] \in recent[q][ch]
OnPins ==
  rpc = "load" => \A ch \in read : Recent(data[ch], Current(taken), ch)
InShift ==
  rpc \in {"load", "latch"} =>
    \A ch \in Channel : \A i \in 0 .. taken - 1 :
      Recent(shift[ch][i], Current(taken - 1 - i), ch)
InLatch ==
  rpc \in {"on", "lit"} =>
    \A ch \in Channel : \A i \in Cell :
      Recent(latched[ch][i], Current(Size - 1 - i), ch)

OnTheirWay == Place /\ Shapes /\ InMatrix /\ OnPins /\ InShift /\ InLatch

-----------------------------------------------------------------------------
(* The order the LEDs of a layer are clocked in.                           *)

\* There is an LED on a layer.
LEMMA SizeIsPositive == Size \in Nat \ {0}
<1>1. Cols * Panels >= Panels
  BY RefreshAssumption, ProductBound
<1> QED
  BY <1>1, RefreshAssumption DEF Size

\* Every LED of a layer has its turn, and its bit ends up in its own cell.
LEMMA SiteHasCell ==
  ASSUME NEW s \in Site
  PROVE  /\ CellOf(s) \in Cell
         /\ SiteOf(Size - 1 - CellOf(s)) = s
<1> DEFINE c == s[1]
           r == Panels - 1 - s[2]
           k == c * Panels + r
<1>1. c \in 0 .. Cols - 1 /\ r \in 0 .. Panels - 1 /\ s = <<c, Panels - 1 - r>>
  BY RefreshAssumption DEF Site
<1>2. k \in Nat /\ k < Size
  <2> HIDE DEF c
  <2>1. Panels * (Cols - c) >= Panels
    <3>1. Panels \in Nat /\ Cols - c \in Nat /\ Cols - c > 0
      BY <1>1, RefreshAssumption
    <3> QED
      BY <3>1, ProductBound
  <2>2. Panels * (Cols - c) = Size - c * Panels
    BY <1>1, RefreshAssumption DEF Size
  <2>3. c * Panels \in Nat
    BY <1>1, RefreshAssumption
  <2> QED
    BY <1>1, <2>1, <2>2, <2>3, RefreshAssumption, SizeIsPositive
<1>3. Size - 1 - CellOf(s) = k
  BY <1>1, <1>2, SizeIsPositive DEF CellOf
<1>4. k \div Panels = c /\ k % Panels = r
  BY <1>1, RowAndPlace, RefreshAssumption
<1>5. SiteOf(k) = s
  BY <1>1, <1>4 DEF SiteOf
<1> QED
  BY <1>2, <1>3, <1>5, SizeIsPositive DEF Cell, CellOf

\* Every turn is that of an LED of the layer.
LEMMA TurnHasSite ==
  ASSUME NEW k \in Cell
  PROVE  SiteOf(k) \in Site
<1>1. k \div Panels \in 0 .. Cols - 1 /\ k % Panels \in 0 .. Panels - 1
  <2>1. k \in 0 .. (Panels * Cols) - 1
    BY RefreshAssumption DEF Cell, Size
  <2> QED
    BY <2>1, InRows, RefreshAssumption
<1> QED
  BY <1>1, RefreshAssumption DEF SiteOf, Site

\* The LED whose turn it is is one of the cube.
LEMMA TurnIsOnCube ==
  ASSUME slot \in Slot, NEW k \in Cell
  PROVE  Current(k) \in Pos
<1>1. LayerOf(slot) \in 0 .. Layers - 1
  BY RefreshAssumption DEF LayerOf, Slot
<1> QED
  BY <1>1, TurnHasSite DEF Current, LEDOf, Site, Pos, SiteOf

-----------------------------------------------------------------------------
(* Bits and exposures.                                                     *)

\* A bit weighs something, and twice what the bit before it does.
LEMMA Weights ==
  /\ \A b \in 0 .. Bits : Weight[b] \in Nat \ {0} /\ Weight[b] <= Weight[Bits]
  /\ \A b \in 0 .. Bits - 1 : Weight[b + 1] = 2 * Weight[b]
  /\ Weight[0] = 1
<1>1. \A b \in 0 .. Bits : Weight[b] = 2^b
  BY DEF Weight
<1>2. /\ 0 \in 0 .. Bits /\ Bits \in 0 .. Bits
      /\ \A b \in 0 .. Bits - 1 : b \in 0 .. Bits /\ b + 1 \in 0 .. Bits
  BY RefreshAssumption
<1>3. Weight[0] = 1
  BY <1>1, <1>2, PowerAssumption
<1>4. \A b \in 0 .. Bits - 1 : Weight[b + 1] = 2 * Weight[b]
  BY <1>1, <1>2, PowerAssumption
<1>5. \A b \in 0 .. Bits : Weight[b] \in Nat \ {0} /\ Weight[b] <= Weight[Bits]
  BY <1>1, <1>2, PowerAssumption
<1> QED
  BY <1>3, <1>4, <1>5

\* A pass has an exposure, and each is of a layer and of a bit.
LEMMA SlotIsOne ==
  /\ 0 \in Slot
  /\ \A s \in Slot : LayerOf(s) \in 0 .. Layers - 1 /\ BitOf(s) \in 0 .. Bits - 1
<1>1. Layers * Bits >= Layers
  BY RefreshAssumption, ProductBound
<1>2. 0 \in Slot
  BY <1>1, RefreshAssumption DEF Slot
<1>3. ASSUME NEW s \in Slot
      PROVE  LayerOf(s) \in 0 .. Layers - 1 /\ BitOf(s) \in 0 .. Bits - 1
  BY InRows, RefreshAssumption DEF Slot, LayerOf, BitOf
<1> QED
  BY <1>2, <1>3

\* A bit of a value is 0 or 1.
LEMMA BitIsBit ==
  ASSUME NEW s \in Slot, NEW v \in Level
  PROVE  BitAt(v, BitOf(s)) \in {0, 1}
<1>1. Weight[BitOf(s)] \in Nat \ {0} /\ v \in Int
  BY Weights, SlotIsOne, RefreshAssumption DEF Level
<1>2. v \div Weight[BitOf(s)] \in Int
  BY <1>1
<1> QED
  BY <1>2 DEF BitAt

-----------------------------------------------------------------------------
(* The invariant.                                                          *)

\* Nothing is on its way when the program starts.
LEMMA WayInit == RefreshInit => OnTheirWay
<1> SUFFICES ASSUME RefreshInit PROVE OnTheirWay
  OBVIOUS
<1>1. 0 \in Slot /\ 0 \in Level
  BY SlotIsOne, Weights, RefreshAssumption DEF Level
<1>2. Place
  BY <1>1, SizeIsPositive DEF RefreshInit, Place
<1>3. Shapes /\ InMatrix
  BY <1>1 DEF RefreshInit, Shapes, InMatrix, Off, Now, Empty
<1>4. OnPins /\ InShift /\ InLatch
  BY DEF RefreshInit, OnPins, InShift, InLatch
<1> QED
  BY <1>2, <1>3, <1>4 DEF OnTheirWay

\* A bit of a recent value stays one when a component is written.
LEMMA WritesAdd ==
  ASSUME OnTheirWay, Store, NEW q \in Pos, NEW ch \in Channel, NEW bit,
         Recent(bit, q, ch)
  PROVE  Recent(bit, q, ch)'
<1>1. recent[q][ch] \subseteq recent'[q][ch]
  BY DEF Store, OnTheirWay, Shapes
<1>2. slot' = slot
  BY DEF Store, place
<1>3. <<q, ch>> \notin touched' => <<q, ch>> \notin touched /\ cube'[q][ch] = cube[q][ch]
  BY DEF Store, OnTheirWay, Shapes
<1> QED
  BY <1>1, <1>2, <1>3 DEF Recent

\* Beside a writer the bits on their way stay recent.
LEMMA WayStore ==
  ASSUME OnTheirWay, Store
  PROVE  OnTheirWay'
<1> USE DEF OnTheirWay
<1>1. /\ UNCHANGED <<rpc, slot, taken, read, lit, data, shift, latched>>
  BY DEF Store, place, pins, registers
<1>2. Place'
  BY <1>1 DEF Place
<1>3. Shapes' /\ InMatrix'
  <2>1. PICK q \in Pos, ch \in Channel, v \in Level :
          /\ cube' = [cube EXCEPT ![q][ch] = v]
          /\ recent' = [recent EXCEPT ![q][ch] = @ \cup {v}]
    BY DEF Store
  <2>2. cube' \in [Pos -> [Channel -> Level]]
    BY <2>1 DEF Shapes
  <2>3. recent' \in [Pos -> [Channel -> SUBSET Level]]
    BY <2>1 DEF Shapes
  <2>4. InMatrix'
    BY <2>1 DEF InMatrix, Shapes
  <2> QED
    BY <1>1, <2>2, <2>3, <2>4 DEF Shapes
<1>4. \A k \in Cell : Current(k)' = Current(k) /\ Current(k) \in Pos
  BY <1>1, TurnIsOnCube DEF Current, Place
<1>5. OnPins'
  <2> SUFFICES ASSUME rpc = "load", NEW ch \in read
               PROVE  Recent(data[ch], Current(taken), ch)'
    BY <1>1 DEF OnPins
  <2>1. taken \in Cell /\ ch \in Channel
    BY SizeIsPositive DEF Place, Cell
  <2> QED
    BY <1>1, <1>4, <2>1, WritesAdd DEF OnPins
<1>6. InShift'
  <2> SUFFICES ASSUME rpc \in {"load", "latch"}, NEW ch \in Channel,
                      NEW i \in 0 .. taken - 1
               PROVE  Recent(shift[ch][i], Current(taken - 1 - i), ch)'
    BY <1>1 DEF InShift
  <2>1. taken - 1 - i \in Cell
    BY SizeIsPositive DEF Place, Cell
  <2> QED
    BY <1>1, <1>4, <2>1, WritesAdd DEF InShift
<1>7. InLatch'
  <2> SUFFICES ASSUME rpc \in {"on", "lit"}, NEW ch \in Channel, NEW i \in Cell
               PROVE  Recent(latched[ch][i], Current(Size - 1 - i), ch)'
    BY <1>1 DEF InLatch
  <2>1. Size - 1 - i \in Cell
    BY SizeIsPositive DEF Cell
  <2> QED
    BY <1>1, <1>4, <2>1, WritesAdd DEF InLatch
<1> QED
  BY <1>2, <1>3, <1>5, <1>6, <1>7

\* At the head of a pass the thread goes on to its first LED, or leaves.
LEMMA WayRefreshTop ==
  ASSUME OnTheirWay, RefreshTop
  PROVE  OnTheirWay'
<1> USE DEF OnTheirWay, RefreshTop
<1>1. /\ UNCHANGED <<cube, slot, taken, read, data, shift, latched, lit, recent>>
      /\ rpc = "top" /\ rpc' \in {"gone", "load"} /\ taken = 0 /\ read = {}
  BY DEF registers, Place
<1>2. Place'
  BY <1>1, SizeIsPositive DEF Place
<1>3. Shapes' /\ InMatrix'
  BY <1>1 DEF Shapes, InMatrix
<1>4. OnPins' /\ InLatch'
  BY <1>1 DEF OnPins, InLatch
<1>5. InShift'
  <2>1. 0 .. taken' - 1 = {}
    BY <1>1
  <2> QED
    BY <2>1 DEF InShift
<1> QED
  BY <1>2, <1>3, <1>4, <1>5

\* A component is read as it is in the matrix, which is as recent as can be.
LEMMA WayReadComponent ==
  ASSUME OnTheirWay, ReadComponent
  PROVE  OnTheirWay'
<1> USE DEF OnTheirWay
<1>1. PICK ch \in Channel \ read :
        /\ read' = read \cup {ch}
        /\ data' = [data EXCEPT ![ch] =
                      BitAt(cube[LEDOf(taken, LayerOf(slot))][ch], BitOf(slot))]
  BY DEF ReadComponent
<1>2. /\ UNCHANGED <<cube, rpc, slot, taken, shift, latched, lit, recent, touched>>
      /\ rpc = "load"
  BY DEF ReadComponent, registers, history
<1>3. Current(taken) \in Pos /\ Current(taken)' = Current(taken)
  <2>1. taken \in Cell /\ slot \in Slot
    BY <1>2, SizeIsPositive DEF Place, Cell
  <2> QED
    BY <1>2, <2>1, TurnIsOnCube DEF Current
<1>4. cube[Current(taken)][ch] \in Level /\ cube[Current(taken)][ch] \in recent[Current(taken)][ch]
  BY <1>3 DEF Shapes, InMatrix
<1>5. data'[ch] = BitAt(cube[Current(taken)][ch], BitOf(slot))
  BY <1>1 DEF Shapes, Current
<1>6. Place'
  BY <1>1, <1>2 DEF Place
<1>7. Shapes'
  <2>1. data'[ch] \in {0, 1}
    BY <1>4, <1>5, BitIsBit DEF Place
  <2>2. data' \in [Channel -> {0, 1}]
    BY <1>1, <1>5, <2>1 DEF Shapes
  <2> QED
    BY <1>2, <2>2 DEF Shapes
<1>8. InMatrix' /\ InLatch'
  BY <1>2 DEF InMatrix, InLatch
<1>9. OnPins'
  <2> SUFFICES ASSUME NEW d \in read'
               PROVE  Recent(data[d], Current(taken), d)'
    BY DEF OnPins
  <2>1. CASE d = ch
    BY <1>2, <1>3, <1>4, <1>5, <2>1 DEF Recent
  <2>2. CASE d # ch
    <3>1. d \in read /\ data'[d] = data[d]
      BY <1>1, <2>2 DEF Shapes, Place
    <3> QED
      BY <1>2, <1>3, <3>1 DEF OnPins, Recent
  <2> QED
    BY <2>1, <2>2
<1>10. InShift'
  BY <1>2 DEF InShift, Recent, Current
<1> QED
  BY <1>6, <1>7, <1>8, <1>9, <1>10

\* The bits on the pins become the first of the registers, the others move on.
LEMMA WayClockBits ==
  ASSUME OnTheirWay, ClockBits
  PROVE  OnTheirWay'
<1> USE DEF OnTheirWay
<1>1. /\ UNCHANGED <<cube, slot, data, latched, lit, recent, touched>>
      /\ rpc = "load" /\ read = Channel /\ read' = {}
      /\ taken' = taken + 1 /\ taken \in Nat /\ taken < Size /\ Size \in Nat
      /\ rpc' = (IF taken' = Size THEN "latch" ELSE "load")
  BY SizeIsPositive DEF ClockBits, Place, history
<1>2. \A ch \in Channel, i \in Cell :
        shift'[ch][i] = IF i = 0 THEN data[ch] ELSE shift[ch][i - 1]
  BY DEF ClockBits, Shifted
<1>3. Place'
  BY <1>1 DEF Place
<1>4. Shapes'
  <2>1. \A ch \in Channel, i \in Cell :
          (IF i = 0 THEN data[ch] ELSE shift[ch][i - 1]) \in {0, 1}
    BY <1>1 DEF Shapes, Cell
  <2>2. shift' \in [Channel -> [Cell -> {0, 1}]]
    BY <2>1 DEF ClockBits, Shifted
  <2> QED
    BY <1>1, <2>2 DEF Shapes
<1>5. InMatrix' /\ InLatch' /\ OnPins'
  BY <1>1 DEF InMatrix, InLatch, OnPins
<1>6. InShift'
  <2> SUFFICES ASSUME NEW ch \in Channel, NEW i \in 0 .. taken
               PROVE  Recent(shift[ch][i], Current(taken - 1 - i), ch)'
    BY <1>1 DEF InShift
  <2>1. i \in Cell /\ (taken - 1 - i)' = taken - i
    BY <1>1 DEF Cell
  <2>2. CASE i = 0
    <3>1. Recent(data[ch], Current(taken), ch)
      BY <1>1 DEF OnPins
    <3>2. shift'[ch][i] = data[ch] /\ taken' - 1 - i = taken
      BY <1>1, <1>2, <2>1, <2>2
    <3> QED
      BY <1>1, <3>1, <3>2 DEF Recent, Current
  <2>3. CASE i # 0
    <3>1. i - 1 \in 0 .. taken - 1 /\ taken - 1 - (i - 1) = taken - i
      BY <1>1, <2>3
    <3>2. Recent(shift[ch][i - 1], Current(taken - i), ch)
      BY <1>1, <3>1 DEF InShift
    <3>3. shift'[ch][i] = shift[ch][i - 1] /\ taken' - 1 - i = taken - i
      BY <1>1, <1>2, <2>1, <2>3
    <3> QED
      BY <1>1, <3>2, <3>3 DEF Recent, Current
  <2> QED
    BY <2>2, <2>3
<1> QED
  BY <1>3, <1>4, <1>5, <1>6

\* What the registers hold is a whole layer when it is latched.
LEMMA WayLatchData ==
  ASSUME OnTheirWay, LatchData
  PROVE  OnTheirWay'
<1> USE DEF OnTheirWay
<1>1. /\ UNCHANGED <<cube, slot, taken, read, data, shift, lit, recent, touched>>
      /\ rpc = "latch" /\ rpc' = "on" /\ latched' = shift /\ taken = Size
  BY DEF LatchData, Place, history
<1>2. Place'
  BY <1>1 DEF Place
<1>3. Shapes' /\ InMatrix'
  BY <1>1 DEF Shapes, InMatrix
<1>4. OnPins' /\ InShift'
  BY <1>1 DEF OnPins, InShift
<1>5. InLatch'
  <2> SUFFICES ASSUME NEW ch \in Channel, NEW i \in Cell
               PROVE  Recent(latched[ch][i], Current(Size - 1 - i), ch)'
    BY DEF InLatch
  <2>1. Recent(shift[ch][i], Current(Size - 1 - i), ch)
    BY <1>1 DEF InShift, Cell
  <2> QED
    BY <1>1, <2>1 DEF Recent, Current
<1> QED
  BY <1>2, <1>3, <1>4, <1>5

\* Nothing is on its way while the layer is lit.
LEMMA WayLayerOn ==
  ASSUME OnTheirWay, LayerOn
  PROVE  OnTheirWay'
<1> USE DEF OnTheirWay
<1>1. /\ UNCHANGED <<cube, slot, taken, read, data, shift, latched, recent, touched>>
      /\ rpc = "on" /\ rpc' = "lit" /\ lit' = lit \cup {LayerOf(slot)}
  BY DEF LayerOn, pins, registers, history
<1>2. Place'
  BY <1>1 DEF Place
<1>3. Shapes' /\ InMatrix'
  BY <1>1 DEF Shapes, InMatrix
<1>4. OnPins' /\ InShift' /\ InLatch'
  BY <1>1 DEF OnPins, InShift, InLatch, Recent, Current
<1> QED
  BY <1>2, <1>3, <1>4

\* When the layer is off the next exposure starts from the values of now.
LEMMA WayLayerOff ==
  ASSUME OnTheirWay, LayerOff
  PROVE  OnTheirWay'
<1> USE DEF OnTheirWay
<1>1. /\ UNCHANGED <<cube, read, data, shift, latched>>
      /\ rpc = "lit" /\ lit' = lit \ {LayerOf(slot)}
      /\ recent' = Now(cube) /\ taken' = 0
      /\ \/ slot + 1 \in Slot /\ rpc' = "load" /\ slot' = slot + 1
         \/ rpc' = "rest" /\ slot' = 0
  BY DEF LayerOff, registers
<1>2. Place'
  BY <1>1, SlotIsOne, SizeIsPositive DEF Place
<1>3. recent' \in [Pos -> [Channel -> SUBSET Level]]
  BY <1>1 DEF Now, Shapes
<1>4. Shapes'
  BY <1>1, <1>3 DEF Shapes
<1>5. InMatrix'
  BY <1>1 DEF InMatrix, Now
<1>6. OnPins' /\ InLatch'
  BY <1>1 DEF OnPins, InLatch, Place
<1>7. InShift'
  <2>1. 0 .. taken' - 1 = {}
    BY <1>1
  <2> QED
    BY <2>1 DEF InShift
<1> QED
  BY <1>2, <1>4, <1>5, <1>6, <1>7

\* Between passes, and while the thread is stopped or started, nothing moves.
LEMMA WayBetween ==
  ASSUME OnTheirWay, RefreshWake \/ cube_stop \/ cube_start
  PROVE  OnTheirWay'
<1> USE DEF OnTheirWay
<1>1. UNCHANGED <<cube, slot, taken, read, data, shift, latched, lit, recent, touched>>
  BY DEF RefreshWake, cube_stop, cube_start, place, pins, registers, history
<1>2. \/ rpc' = rpc
      \/ rpc \in {"rest", "gone"} /\ rpc' = "top"
  BY DEF RefreshWake, cube_stop, cube_start, place
<1>3. Place'
  BY <1>1, <1>2 DEF Place
<1>4. Shapes' /\ InMatrix'
  BY <1>1 DEF Shapes, InMatrix
<1>5. OnPins' /\ InShift' /\ InLatch'
  BY <1>1, <1>2 DEF OnPins, InShift, InLatch, Recent, Current
<1> QED
  BY <1>3, <1>4, <1>5

\* cube_load_layer fills the registers with bits of its own, between passes.
LEMMA WayLoadLayer ==
  ASSUME OnTheirWay, LoadLayer
  PROVE  OnTheirWay'
<1> USE DEF OnTheirWay
<1>1. PICK layer \in 0 .. Layers - 1 : cube_load_layer(layer)
  BY DEF LoadLayer
<1>2. UNCHANGED <<cube, rpc, slot, taken, read, lit, recent>> /\ rpc = "gone"
  BY <1>1 DEF cube_load_layer, place, history
<1>3. /\ shift' \in [Channel -> [Cell -> {0, 1}]]
      /\ data' \in [Channel -> {0, 1}]
  <2>1. Pulses \in {Size - 1, Size}
    BY DEF Pulses
  <2>2. \A i \in Cell : ~(i < Pulses) => i - Pulses \in Cell
    BY <2>1, SizeIsPositive DEF Cell
  <2>3. \A ch \in Channel, i \in Cell : HasColour(layer)[ch][i] \in {0, 1}
    BY DEF HasColour
  <2>4. \A ch \in Channel, i \in Cell :
          (IF i < Pulses THEN HasColour(layer)[ch][i] ELSE shift[ch][i - Pulses])
            \in {0, 1}
    BY <2>2, <2>3 DEF Shapes
  <2>5. shift' \in [Channel -> [Cell -> {0, 1}]]
    BY <1>1, <2>4 DEF cube_load_layer
  <2>6. 0 \in Cell
    BY SizeIsPositive DEF Cell
  <2>7. data' \in [Channel -> {0, 1}]
    BY <1>1, <2>3, <2>6 DEF cube_load_layer
  <2> QED
    BY <2>5, <2>7
<1>4. latched' = latched \/ latched' = shift'
  BY <1>1 DEF cube_load_layer
<1>5. Place' /\ Shapes' /\ InMatrix'
  BY <1>2, <1>3, <1>4 DEF Place, Shapes, InMatrix
<1>6. OnPins' /\ InShift' /\ InLatch'
  BY <1>2 DEF OnPins, InShift, InLatch
<1> QED
  BY <1>5, <1>6

\* Every step keeps the bits on their way recent.
LEMMA WayNext ==
  ASSUME OnTheirWay, [RefreshNext]_refreshVars
  PROVE  OnTheirWay'
<1>1. CASE cube_refresh
  BY <1>1, WayRefreshTop, WayReadComponent, WayClockBits, WayLatchData,
     WayLayerOn, WayLayerOff, WayBetween DEF cube_refresh
<1>2. CASE Store \/ cube_stop \/ cube_start \/ LoadLayer
  BY <1>2, WayStore, WayBetween, WayLoadLayer
<1>3. CASE UNCHANGED refreshVars
  <2>1. UNCHANGED <<cube, rpc, slot, taken, read, data, shift, latched, lit, recent,
                  touched>>
    BY <1>3 DEF refreshVars
  <2> QED
    BY <2>1 DEF OnTheirWay, Place, Shapes, InMatrix, OnPins, InShift, InLatch,
                Recent, Current
<1> QED
  BY <1>1, <1>2, <1>3 DEF RefreshNext

\* In every state, each bit on its way to the columns (on the pins, in the shift
\* registers, in the latches) is one its LED has had since the last exposure.
THEOREM BitsAreRecent == RefreshSpec => []OnTheirWay
<1>1. RefreshInit => OnTheirWay
  BY WayInit
<1>2. OnTheirWay /\ [RefreshNext]_refreshVars => OnTheirWay'
  BY WayNext
<1> QED
  BY <1>1, <1>2, PTL DEF RefreshSpec

-----------------------------------------------------------------------------
(* What glows.                                                             *)

\* The bits an LED has shown in the pass at hand, or in the one before.
Done(q) ==
  IF rpc \in {"load", "latch", "on", "lit"}
  THEN BitOf(slot) + (IF q[3] < LayerOf(slot) THEN 1 ELSE 0)
  ELSE Bits

\* What a component glows is less than the next bit weighs; and it is its value
\* up to there, if that has not been written in this pass.
GlowAddsUp ==
  /\ glow \in [Pos -> [Channel -> Nat]]
  /\ \A q \in Pos, ch \in Channel :
       /\ glow[q][ch] < Weight[Done(q)]
       /\ rpc \notin {"top", "gone"} /\ <<q, ch>> \notin touched =>
            glow[q][ch] = cube[q][ch] % Weight[Done(q)]

\* Nothing glows when the program starts.
LEMMA GlowInit == RefreshInit => GlowAddsUp
<1>1. Weight[Bits] \in Nat \ {0}
  BY Weights, RefreshAssumption
<1> QED
  BY <1>1 DEF RefreshInit, GlowAddsUp, Done, Off

\* An exposure adds its bit to the LEDs of its layer.
LEMMA DoneNext ==
  ASSUME OnTheirWay, LayerOff, NEW q \in Pos
  PROVE  /\ Done(q) \in 0 .. Bits
         /\ q[3] # LayerOf(slot) => Done(q)' = Done(q)
         /\ q[3] = LayerOf(slot) =>
              Done(q) = BitOf(slot) /\ Done(q)' = BitOf(slot) + 1
<1> DEFINE b == BitOf(slot)
           l == LayerOf(slot)
<1>1. /\ rpc = "lit" /\ slot \in Slot
      /\ \/ slot + 1 \in Slot /\ rpc' = "load" /\ slot' = slot + 1
         \/ slot + 1 \notin Slot /\ rpc' = "rest"
  BY DEF LayerOff, OnTheirWay, Place
<1>2. /\ b \in 0 .. Bits - 1 /\ l \in 0 .. Layers - 1 /\ slot = b * Layers + l
      /\ slot \in Int
  <2>1. slot \in 0 .. (Layers * Bits) - 1
    BY <1>1 DEF Slot
  <2>2. /\ slot \div Layers \in 0 .. Bits - 1 /\ slot % Layers \in 0 .. Layers - 1
        /\ slot = (slot \div Layers) * Layers + (slot % Layers)
    BY <2>1, InRows, RefreshAssumption
  <2> QED
    BY <2>1, <2>2 DEF BitOf, LayerOf
<1>3. q[3] \in 0 .. Layers - 1
  BY DEF Pos
<1>4. Layers \in Nat \ {0} /\ Bits \in Nat \ {0}
  BY RefreshAssumption
<1>5. Done(q) = b + (IF q[3] < l THEN 1 ELSE 0)
  BY <1>1 DEF Done
<1> HIDE DEF b, l
<1>6. CASE l < Layers - 1
  <2>1. l + 1 \in 0 .. Layers - 1 /\ b \in Int /\ slot + 1 = b * Layers + (l + 1)
    BY <1>2, <1>4, <1>6
  <2>2. BitOf(slot + 1) = b /\ LayerOf(slot + 1) = l + 1
    <3> DEFINE r == l + 1
               k == slot + 1
    <3>1. r \in 0 .. Layers - 1 /\ b \in Int /\ k = b * Layers + r
      BY <2>1
    <3> HIDE DEF r, k
    <3>2. k \div Layers = b /\ k % Layers = r
      BY <1>4, <3>1, RowAndPlace
    <3> QED
      BY <3>2 DEF r, k, BitOf, LayerOf
  <2>3. slot + 1 \in Slot
    <3>1. Layers * (Bits - 1 - b) \in Nat
      BY <1>2, <1>4
    <3>2. Layers * (Bits - 1 - b) = Layers * Bits - Layers - b * Layers
      BY <1>2, <1>4
    <3>3. Layers * Bits \in Nat /\ b * Layers \in Nat
      BY <1>2, <1>4
    <3> QED
      BY <1>4, <2>1, <3>1, <3>2, <3>3 DEF Slot
  <2>4. Done(q)' = b + (IF q[3] < l + 1 THEN 1 ELSE 0)
    BY <1>1, <2>2, <2>3 DEF Done
  <2> QED
    BY <1>2, <1>3, <1>4, <1>5, <2>4 DEF b, l
<1>7. CASE l = Layers - 1 /\ slot + 1 \in Slot
  <2>1. 0 \in 0 .. Layers - 1 /\ slot + 1 = (b + 1) * Layers + 0 /\ b + 1 \in Int
    BY <1>2, <1>4, <1>7
  <2>2. BitOf(slot + 1) = b + 1 /\ LayerOf(slot + 1) = 0
    BY <1>4, <2>1, RowAndPlace DEF BitOf, LayerOf
  <2>3. Done(q)' = b + 1
    BY <1>1, <1>2, <1>3, <1>7, <2>2 DEF Done
  <2> QED
    BY <1>2, <1>3, <1>4, <1>5, <1>7, <2>3 DEF b, l
<1>8. CASE l = Layers - 1 /\ slot + 1 \notin Slot
  <2>1. b = Bits - 1
    <3>1. SUFFICES ASSUME b < Bits - 1 PROVE FALSE
      BY <1>2, <1>4
    <3>2. Layers * (Bits - 1 - b) \in Nat /\ Layers * (Bits - 1 - b) >= Layers
      BY <1>2, <1>4, <3>1, ProductBound
    <3>3. slot + 1 = b * Layers + Layers
      BY <1>2, <1>4, <1>8
    <3>4. Layers * (Bits - 1 - b) = Layers * Bits - Layers - b * Layers
      BY <1>2, <1>4
    <3>5. Layers * Bits \in Nat /\ b * Layers \in Nat
      BY <1>2, <1>4
    <3> QED
      BY <1>4, <1>8, <3>2, <3>3, <3>4, <3>5 DEF Slot
  <2>2. Done(q)' = Bits
    BY <1>1, <1>8 DEF Done
  <2> QED
    BY <1>2, <1>3, <1>4, <1>5, <1>8, <2>1, <2>2 DEF b, l
<1> QED
  BY <1>2, <1>4, <1>6, <1>7, <1>8

\* What an exposure shows of an LED of its layer is the bit that is on its way.
LEMMA LitIsRecent ==
  ASSUME OnTheirWay, rpc = "lit", NEW q \in Pos, NEW ch \in Channel
  PROVE  /\ Lit(q, ch) \in {0, 1}
         /\ q[3] # LayerOf(slot) => Lit(q, ch) = 0
         /\ q[3] = LayerOf(slot) => Recent(Lit(q, ch), q, ch)
<1> DEFINE s == <<q[1], q[2]>>
<1>1. lit = {LayerOf(slot)}
  BY DEF OnTheirWay, Place
<1>2. s \in Site /\ q = <<q[1], q[2], q[3]>>
  BY DEF Site, Pos
<1>3. CellOf(s) \in Cell /\ SiteOf(Size - 1 - CellOf(s)) = s
  BY <1>2, SiteHasCell
<1>4. ASSUME q[3] = LayerOf(slot) PROVE Recent(latched[ch][CellOf(s)], q, ch)
  <2>1. Recent(latched[ch][CellOf(s)], Current(Size - 1 - CellOf(s)), ch)
    BY <1>3 DEF OnTheirWay, InLatch
  <2>2. Current(Size - 1 - CellOf(s)) = q
    BY <1>2, <1>3, <1>4 DEF Current, LEDOf
  <2> QED
    BY <2>1, <2>2
<1>5. latched[ch][CellOf(s)] \in {0, 1}
  BY <1>3 DEF OnTheirWay, Shapes
<1> QED
  BY <1>1, <1>4, <1>5 DEF Lit

\* At the end of an exposure the bit it has shown is added.
LEMMA GlowLayerOff ==
  ASSUME OnTheirWay, GlowAddsUp, LayerOff
  PROVE  GlowAddsUp'
<1>1. /\ glow' = Glowing /\ rpc = "lit" /\ slot \in Slot
      /\ UNCHANGED <<cube, touched>>
  BY DEF LayerOff, OnTheirWay, Place
<1>2. BitOf(slot) \in 0 .. Bits - 1 /\ BitOf(slot) \in 0 .. Bits
  BY <1>1, SlotIsOne, RefreshAssumption
<1> DEFINE b == BitOf(slot)
           w == Weight[b]
<1>3. w \in Nat \ {0} /\ Weight[b + 1] = 2 * w
  BY <1>2, Weights
<1>4. ASSUME NEW q \in Pos, NEW ch \in Channel
      PROVE  /\ glow'[q][ch] \in Nat /\ glow'[q][ch] < Weight[Done(q)]'
             /\ <<q, ch>> \notin touched =>
                  glow'[q][ch] = cube[q][ch] % Weight[Done(q)]'
  <2>1. glow'[q][ch] = glow[q][ch] + Lit(q, ch) * w
    BY <1>1 DEF Glowing
  <2>2. /\ glow[q][ch] \in Nat /\ glow[q][ch] < Weight[Done(q)]
        /\ <<q, ch>> \notin touched => glow[q][ch] = cube[q][ch] % Weight[Done(q)]
    BY <1>1 DEF GlowAddsUp
  <2>3. Lit(q, ch) \in {0, 1}
    BY <1>1, LitIsRecent
  <2>4. CASE q[3] # LayerOf(slot)
    <3>1. Lit(q, ch) = 0 /\ Done(q)' = Done(q)
      BY <1>1, <2>4, LitIsRecent, DoneNext
    <3>2. glow'[q][ch] = glow[q][ch]
      BY <1>3, <2>1, <2>2, <3>1
    <3> QED
      BY <1>1, <2>2, <3>1, <3>2
  <2>5. CASE q[3] = LayerOf(slot)
    <3>1. /\ Done(q) = b /\ Done(q)' = b + 1
          /\ <<q, ch>> \notin touched => Lit(q, ch) = BitAt(cube[q][ch], b)
      BY <1>1, <2>5, LitIsRecent, DoneNext DEF Recent
    <3>2. Weight[Done(q)] = w /\ Weight[Done(q)]' = 2 * w
      BY <1>3, <3>1
    <3>3. glow'[q][ch] \in Nat /\ glow'[q][ch] < 2 * w
      <4> HIDE DEF w, b
      <4>1. Lit(q, ch) * w = 0 \/ Lit(q, ch) * w = w
        BY <1>3, <2>3
      <4> QED
        BY <1>3, <2>1, <2>2, <3>2, <4>1
    <3>4. ASSUME <<q, ch>> \notin touched
          PROVE  glow'[q][ch] = cube[q][ch] % (2 * w)
      <4>1. cube[q][ch] \in Nat
        BY Weights, RefreshAssumption DEF OnTheirWay, Shapes, Level
      <4>2. cube[q][ch] % (2 * w) = (cube[q][ch] % w) + ((cube[q][ch] \div w) % 2) * w
        BY <1>3, <4>1, BitByBit
      <4>3. Lit(q, ch) = (cube[q][ch] \div w) % 2
        BY <3>1, <3>4 DEF BitAt
      <4> QED
        BY <2>1, <2>2, <3>2, <3>4, <4>2, <4>3
    <3> QED
      BY <3>2, <3>3, <3>4
  <2> QED
    BY <2>4, <2>5
<1>5. glow' \in [Pos -> [Channel -> Nat]]
  BY <1>1, <1>4 DEF Glowing
<1> QED
  BY <1>1, <1>4, <1>5 DEF GlowAddsUp

\* A pass begins with nothing glowing and nothing written.
LEMMA GlowRefreshTop ==
  ASSUME OnTheirWay, GlowAddsUp, RefreshTop
  PROVE  GlowAddsUp'
<1>1. CASE rpc' = "gone"
  BY <1>1 DEF RefreshTop, GlowAddsUp, Done
<1>2. CASE rpc' # "gone"
  <2>1. /\ rpc' = "load" /\ glow' = Off /\ slot' = slot /\ slot = 0 /\ cube' = cube
    BY <1>2 DEF RefreshTop, OnTheirWay, Place
  <2>2. BitOf(0) = 0 /\ LayerOf(0) = 0
    BY RefreshAssumption DEF BitOf, LayerOf
  <2>3. \A q \in Pos : Done(q)' = 0
    BY <2>1, <2>2 DEF Done, Pos
  <2>4. \A q \in Pos, ch \in Channel : cube[q][ch] % Weight[0] = 0
    BY Weights DEF OnTheirWay, Shapes, Level
  <2>5. Weight[0] = 1
    BY Weights
  <2> QED
    BY <2>1, <2>3, <2>4, <2>5 DEF GlowAddsUp, Off
<1> QED
  BY <1>1, <1>2

\* The end of a pass, and the writer, change nothing of what has glowed.
LEMMA GlowOthers ==
  ASSUME OnTheirWay, GlowAddsUp,
         \/ ReadComponent \/ ClockBits \/ LatchData \/ LayerOn \/ RefreshWake
         \/ cube_stop \/ cube_start \/ LoadLayer \/ UNCHANGED refreshVars
  PROVE  GlowAddsUp'
<1>1. UNCHANGED <<cube, slot, glow, touched>>
  BY DEF ReadComponent, ClockBits, LatchData, LayerOn, RefreshWake, cube_stop,
         cube_start, LoadLayer, cube_load_layer, refreshVars, place, history
<1>2. \/ rpc \in {"load", "latch", "on", "lit"} /\ rpc' \in {"load", "latch", "on", "lit"}
      \/ /\ rpc \in {"top", "rest", "gone"} /\ rpc' \in {"top", "rest", "gone"}
         /\ rpc' = "rest" => rpc = "rest"
  BY DEF ReadComponent, ClockBits, LatchData, LayerOn, RefreshWake, cube_stop,
         cube_start, LoadLayer, cube_load_layer, refreshVars, place, OnTheirWay, Place
<1>3. \A q \in Pos : Done(q)' = Done(q)
  BY <1>1, <1>2 DEF Done
<1> QED
  BY <1>1, <1>2, <1>3 DEF GlowAddsUp

\* A component that is written is one no more of which the glow is told.
LEMMA GlowStore ==
  ASSUME OnTheirWay, GlowAddsUp, Store
  PROVE  GlowAddsUp'
<1>1. UNCHANGED <<rpc, slot, glow>>
  BY DEF Store, place
<1>2. \A q \in Pos : Done(q)' = Done(q)
  BY <1>1 DEF Done
<1>3. ASSUME NEW q \in Pos, NEW ch \in Channel, <<q, ch>> \notin touched'
      PROVE  <<q, ch>> \notin touched /\ cube'[q][ch] = cube[q][ch]
  BY <1>3 DEF Store, OnTheirWay, Shapes
<1> QED
  BY <1>1, <1>2, <1>3 DEF GlowAddsUp

\* Every step keeps the sums.
LEMMA GlowNext ==
  ASSUME OnTheirWay, GlowAddsUp, [RefreshNext]_refreshVars
  PROVE  GlowAddsUp'
BY GlowRefreshTop, GlowLayerOff, GlowOthers, GlowStore DEF RefreshNext, cube_refresh

\* A component that is not written during a pass glows in it exactly as bright
\* as its value says, whatever happens to the others meanwhile.
THEOREM StillGlowsExactly == RefreshSpec => []StillIsExact
<1>1. OnTheirWay /\ GlowAddsUp => StillIsExact
  <2> SUFFICES ASSUME OnTheirWay, GlowAddsUp, rpc = "rest", NEW q \in Pos,
                      NEW ch \in Channel, <<q, ch>> \notin touched
               PROVE  glow[q][ch] = cube[q][ch]
    BY DEF StillIsExact
  <2>1. glow[q][ch] = cube[q][ch] % Weight[Bits]
    BY DEF GlowAddsUp, Done
  <2>2. Weight[Bits] \in Nat \ {0} /\ cube[q][ch] \in 0 .. Weight[Bits] - 1
    BY Weights, RefreshAssumption DEF OnTheirWay, Shapes, Level
  <2> QED
    BY <2>1, <2>2
<1> QED
  BY <1>1, BitsAreRecent, GlowInit, GlowNext, PTL DEF RefreshSpec

\* The flags, the pins and what the model counts.
Flags ==
  /\ exiting \in BOOLEAN /\ clock \in BOOLEAN /\ latch \in BOOLEAN
  /\ stores \in 0 .. MaxStores /\ touched \subseteq Pos \X Channel

\* Every step keeps the flags flags.
LEMMA FlagsNext == Flags /\ [RefreshNext]_refreshVars => Flags'
<1> SUFFICES ASSUME Flags, [RefreshNext]_refreshVars PROVE Flags'
  OBVIOUS
<1> USE DEF Flags, pins, place, history
<1>1. CASE RefreshTop
  BY <1>1 DEF RefreshTop
<1>2. CASE ReadComponent
  BY <1>2 DEF ReadComponent
<1>3. CASE ClockBits
  BY <1>3 DEF ClockBits
<1>4. CASE LatchData
  BY <1>4 DEF LatchData
<1>5. CASE LayerOn
  BY <1>5 DEF LayerOn
<1>6. CASE LayerOff
  BY <1>6 DEF LayerOff
<1>7. CASE RefreshWake
  BY <1>7 DEF RefreshWake
<1>8. CASE Store
  BY <1>8, RefreshAssumption DEF Store
<1>9. CASE cube_stop \/ cube_start
  BY <1>9 DEF cube_stop, cube_start
<1>10. CASE LoadLayer
  BY <1>10 DEF LoadLayer, cube_load_layer
<1>11. CASE UNCHANGED refreshVars
  BY <1>11 DEF refreshVars
<1> QED
  BY <1>1, <1>2, <1>3, <1>4, <1>5, <1>6, <1>7, <1>8, <1>9, <1>10, <1>11
  DEF RefreshNext, cube_refresh

\* Every variable keeps its type: the registers never leave a bit undefined,
\* and no LED glows brighter in a pass than a component can be.
THEOREM RefreshTypeCorrect == RefreshSpec => []RefreshTypeOK
<1>1. RefreshInit => Flags
  <2>1. 0 \in 0 .. MaxStores
    BY RefreshAssumption
  <2> QED
    BY <2>1 DEF RefreshInit, Flags
<1>2. OnTheirWay /\ GlowAddsUp /\ Flags => RefreshTypeOK
  <2> SUFFICES ASSUME OnTheirWay, GlowAddsUp, Flags PROVE RefreshTypeOK
    OBVIOUS
  <2>1. ASSUME NEW q \in Pos PROVE Done(q) \in 0 .. Bits
    <3>1. BitOf(slot) \in 0 .. Bits - 1
      BY SlotIsOne DEF OnTheirWay, Place
    <3> QED
      BY <3>1, RefreshAssumption DEF Done
  <2>2. ASSUME NEW q \in Pos, NEW ch \in Channel PROVE glow[q][ch] \in Level
    <3>1. glow[q][ch] \in Nat /\ glow[q][ch] < Weight[Done(q)]
      BY DEF GlowAddsUp
    <3>2. /\ Weight[Done(q)] \in Nat /\ Weight[Done(q)] <= Weight[Bits]
          /\ Weight[Bits] \in Nat
      BY <2>1, Weights, RefreshAssumption
    <3> QED
      BY <3>1, <3>2 DEF Level
  <2>3. glow \in [Pos -> [Channel -> Level]]
    BY <2>2 DEF GlowAddsUp
  <2>4. lit \subseteq 0 .. Layers - 1
    BY SlotIsOne DEF OnTheirWay, Place
  <2> QED
    BY <2>3, <2>4 DEF RefreshTypeOK, OnTheirWay, Place, Shapes, Flags
<1> QED
  BY <1>1, <1>2, BitsAreRecent, GlowInit, GlowNext, FlagsNext, PTL DEF RefreshSpec

-----------------------------------------------------------------------------
(* The refinement.                                                         *)

\* The program starts with an image of nothing, and shows none.
LEMMA DisplayStarts == RefreshInit => Display!DisplayInit
<1> SUFFICES ASSUME RefreshInit PROVE Display!DisplayInit
  OBVIOUS
<1>1. cube = [q \in Pos |-> [ch \in Channel |-> 0]] /\ recent = Now(cube)
  BY DEF RefreshInit, Off
<1>2. Shown = [s \in Site |-> [ch \in Channel |-> 0]]
  BY DEF RefreshInit, Shown
<1> QED
  BY <1>1, <1>2 DEF RefreshInit, Display!DisplayInit, Display!Nothing, Display!Now,
                    Display!Pos, Display!Site, Pos, Site, Now

\* A dark cube shows nothing, whatever its registers hold.
LEMMA DarkShowsNothing ==
  ASSUME lit = {}
  PROVE  Shown = Display!Nothing
BY DEF Shown, Display!Nothing, Display!Site, Site

\* Lighting a layer exposes bits of recent values.
LEMMA LayerOnExposes ==
  ASSUME OnTheirWay, LayerOn
  PROVE  Display!Expose
<1>1. /\ UNCHANGED <<cube, recent, slot, latched>> /\ slot \in Slot
      /\ rpc = "on" /\ lit = {} /\ lit' = {LayerOf(slot)}
  BY DEF LayerOn, registers, history, OnTheirWay, Place
<1>2. Shown' = [s \in Site |-> [ch \in Channel |-> latched[ch][CellOf(s)]]]
  BY <1>1 DEF Shown
<1>3. Shown' \in [Site -> [Channel -> {0, 1}]]
  BY <1>2, SiteHasCell DEF OnTheirWay, Shapes
<1>4. ASSUME NEW s \in Site, NEW ch \in Channel
      PROVE  \E v \in recent[<<s[1], s[2], LayerOf(slot)>>][ch] :
               Shown'[s][ch] = BitAt(v, BitOf(slot))
  <2>1. CellOf(s) \in Cell /\ SiteOf(Size - 1 - CellOf(s)) = s
    BY SiteHasCell
  <2>2. Recent(latched[ch][CellOf(s)], Current(Size - 1 - CellOf(s)), ch)
    BY <1>1, <2>1 DEF OnTheirWay, InLatch
  <2>3. Current(Size - 1 - CellOf(s)) = <<s[1], s[2], LayerOf(slot)>>
    BY <2>1 DEF Current, LEDOf
  <2>4. Shown'[s][ch] = latched[ch][CellOf(s)]
    BY <1>2
  <2> QED
    BY <2>2, <2>3, <2>4 DEF Recent
<1>5. Shown' \in Display!Exposures(slot)
  BY <1>3, <1>4 DEF Display!Exposures, Display!Site, Site, Display!LayerOf, LayerOf,
                    Display!BitAt, BitAt, Display!BitOf, BitOf, Display!Weight, Weight
<1> QED
  BY <1>1, <1>5 DEF Display!Expose, Display!LayerOf, LayerOf

\* Bringing the layer high again ends the exposure.
LEMMA LayerOffShades ==
  ASSUME OnTheirWay, LayerOff
  PROVE  Display!Shade
<1>1. /\ lit = {LayerOf(slot)} /\ lit' = {} /\ recent' = Now(cube)
      /\ UNCHANGED cube
      /\ slot' = IF slot + 1 \in Slot THEN slot + 1 ELSE 0
  BY DEF LayerOff, OnTheirWay, Place
<1>2. Shown' = Display!Nothing
  BY <1>1 DEF Shown, Display!Nothing, Display!Site, Site
<1> QED
  BY <1>1, <1>2 DEF Display!Shade, Display!Now, Now, Display!Pos, Pos, Display!Slot, Slot

\* A store is a write, and what is shown stays.
LEMMA StoreWrites ==
  ASSUME Store
  PROVE  Display!Write
<1>1. UNCHANGED <<slot, lit, latched>>
  BY DEF Store, place, registers
<1>2. Shown' = Shown
  BY <1>1 DEF Shown
<1>3. \E q \in Pos, ch \in Channel, v \in Level :
        /\ cube' = [cube EXCEPT ![q][ch] = v]
        /\ recent' = [recent EXCEPT ![q][ch] = @ \cup {v}]
  BY DEF Store
<1> QED
  BY <1>1, <1>2, <1>3 DEF Display!Write, Display!Pos, Pos, Display!Level, Level,
                          Display!Weight, Weight

\* The other steps are not to be seen: the registers only change in the dark.
LEMMA OthersAreUnseen ==
  ASSUME OnTheirWay,
         \/ RefreshTop \/ ReadComponent \/ ClockBits \/ LatchData \/ RefreshWake
         \/ cube_stop \/ cube_start \/ LoadLayer \/ UNCHANGED refreshVars
  PROVE  UNCHANGED <<cube, recent, slot, lit, Shown>>
<1>1. UNCHANGED <<cube, recent, slot, lit>>
  BY DEF RefreshTop, ReadComponent, ClockBits, LatchData, RefreshWake, cube_stop,
         cube_start, LoadLayer, cube_load_layer, refreshVars, place, registers,
         history, pins
<1>2. UNCHANGED latched \/ lit = {}
  BY DEF RefreshTop, ReadComponent, ClockBits, LatchData, RefreshWake, cube_stop,
         cube_start, LoadLayer, cube_load_layer, refreshVars, registers,
         OnTheirWay, Place
<1> QED
  BY <1>1, <1>2 DEF Shown

\* The refresh thread implements CubeDisplay beside a thread that writes at any
\* moment, and stops, starts and pre-loads it: an exposure lights one layer, in
\* the order of bits and layers, with bits of values as recent as the exposure
\* before, however wide the cube and however many its bits.
THEOREM RefreshImplements == RefreshSpec => ImplementsDisplay
<1>1. RefreshInit => Display!DisplayInit
  BY DisplayStarts
<1>2. ASSUME OnTheirWay, [RefreshNext]_refreshVars
      PROVE  [Display!DisplayNext]_<<cube, recent, slot, lit, Shown>>
  <2>1. CASE LayerOn
    BY <1>2, <2>1, LayerOnExposes DEF Display!DisplayNext
  <2>2. CASE LayerOff
    BY <1>2, <2>2, LayerOffShades DEF Display!DisplayNext
  <2>3. CASE Store
    BY <1>2, <2>3, StoreWrites DEF Display!DisplayNext
  <2>4. CASE ~LayerOn /\ ~LayerOff /\ ~Store
    BY <1>2, <2>4, OthersAreUnseen DEF RefreshNext, cube_refresh
  <2> QED
    BY <2>1, <2>2, <2>3, <2>4
<1>3. Display!displayVars = <<cube, recent, slot, lit, Shown>>
  BY DEF Display!displayVars
<1> QED
  BY <1>1, <1>2, <1>3, BitsAreRecent, PTL
     DEF RefreshSpec, ImplementsDisplay, Display!DisplaySpec, Display!displayVars
=============================================================================
