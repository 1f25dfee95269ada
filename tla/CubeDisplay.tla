----------------------------- MODULE CubeDisplay -----------------------------
(***************************************************************************)
(* What the refresh thread promises to whoever looks at the cube and to    *)
(* whoever writes the matrix: an exposure lights one layer, and every LED  *)
(* of it according to one bit of a value the LED has had since the         *)
(* exposure before.  The exposures of a pass go through the bits from the  *)
(* lowest, and for each bit through the layers from the bottom.            *)
(*                                                                         *)
(* It does not promise that the LEDs of an exposure, the components of an  *)
(* LED, or the bits of a component over a pass belong to one moment.       *)
(***************************************************************************)
EXTENDS Integers

CONSTANTS Cols, Panels, Layers, Channel, Bits

Site == (0 .. Cols - 1) \X (0 .. Panels - 1)     \* a place on a layer
Pos == (0 .. Cols - 1) \X (0 .. Panels - 1) \X (0 .. Layers - 1)
Weight == [b \in 0 .. Bits |-> 2^b]
Level == 0 .. Weight[Bits] - 1
Slot == 0 .. Layers * Bits - 1                   \* an exposure of a pass
LayerOf(s) == s % Layers
BitOf(s) == s \div Layers
BitAt(v, b) == (v \div Weight[b]) % 2

VARIABLES
  cube,    \* the matrix
  recent,  \* the values each component has had since the last exposure
  slot,    \* the exposure that is shown, or that comes next
  lit,     \* the layers that are lit
  shown    \* which LEDs of the lit layer are on

displayVars == <<cube, recent, slot, lit, shown>>

Nothing == [s \in Site |-> [ch \in Channel |-> 0]]
Now(img) == [q \in Pos |-> [ch \in Channel |-> {img[q][ch]}]]

\* What an exposure can show: of each component, the bit of a recent value.
Exposures(s) ==
  {e \in [Site -> [Channel -> {0, 1}]] :
     \A p \in Site, ch \in Channel :
       \E v \in recent[<<p[1], p[2], LayerOf(s)>>][ch] :
         e[p][ch] = BitAt(v, BitOf(s))}

DisplayInit ==
  /\ cube = [q \in Pos |-> [ch \in Channel |-> 0]]
  /\ recent = Now(cube)
  /\ slot = 0 /\ lit = {} /\ shown = Nothing

\* Somebody writes a component.
Write ==
  /\ \E q \in Pos, ch \in Channel, v \in Level :
       /\ cube' = [cube EXCEPT ![q][ch] = v]
       /\ recent' = [recent EXCEPT ![q][ch] = @ \cup {v}]
  /\ UNCHANGED <<slot, lit, shown>>

Expose ==
  /\ lit = {} /\ lit' = {LayerOf(slot)}
  /\ shown' \in Exposures(slot)
  /\ UNCHANGED <<cube, recent, slot>>

Shade ==
  /\ lit # {} /\ lit' = {}
  /\ shown' = Nothing
  /\ recent' = Now(cube)
  /\ slot' = (IF slot + 1 \in Slot THEN slot + 1 ELSE 0)
  /\ UNCHANGED cube

DisplayNext == Write \/ Expose \/ Shade

DisplaySpec == DisplayInit /\ [][DisplayNext]_displayVars
=============================================================================
