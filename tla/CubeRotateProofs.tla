-------------------------- MODULE CubeRotateProofs --------------------------
(***************************************************************************)
(* Proofs about the rotation by the real tables: a right angle takes every *)
(* LED to one of its own, and no angle takes an LED that is not at the     *)
(* outside far from its place.  Where an LED lands depends on its distance *)
(* and on the entry of the table of sines: for each distance the Ring      *)
(* lemmas say where each entry takes it, and the rest is arithmetic.       *)
(***************************************************************************)
EXTENDS CubeRotate, CubeDrawProofs

\* Four to the right or up, and truncated.
Edge(v) == Quotient(400000000 + v, 100000000)

\* The places of the table of sines.
Entry == 0 .. 125

\* Where the k-th sine and cosine take an LED at distance d.
Lands(d, k, c, p) ==
  /\ c = Edge(SinCosTable[k + 1][1] * d) /\ p = Edge(SinCosTable[k + 1][2] * d)
LandsInside(d, k, c, p) ==
  /\ c = (400000000 + SinCosTable[k + 1][1] * d) \div 100000000
  /\ p = (400000000 + SinCosTable[k + 1][2] * d) \div 100000000
Arc(k, first, last, c, x, p, y) ==
  first <= k /\ k <= last => c = x /\ p = y

\* The table has the sines and cosines in ten thousandths.
LEMMA Sines ==
  ASSUME NEW k \in Entry
  PROVE  \A i \in {1, 2} : /\ SinCosTable[k + 1][i] \in Int
                           /\ SinCosTable[k + 1][i] >= -10000
                           /\ SinCosTable[k + 1][i] <= 10000
  BY SMTT(30) DEF SinCosTable, Entry

\* No LED at most 4 cells from the centre leaves at the lower edges: the
\* truncation is the rounding down.
LEMMA LandsInsideIt ==
  ASSUME NEW d \in Nat, d <= 40000, NEW k \in Entry, NEW c, NEW p,
         Lands(d, k, c, p)
  PROVE  LandsInside(d, k, c, p)
<1>1. ASSUME NEW i \in {1, 2}
      PROVE  Edge(SinCosTable[k + 1][i] * d)
               = (400000000 + SinCosTable[k + 1][i] * d) \div 100000000
  <2> DEFINE f == SinCosTable[k + 1][i]
  <2>1. f \in Int /\ f >= -10000
    BY Sines
  <2> HIDE DEF f
  <2>2. f * d \in Int /\ (f + 10000) * d \in Nat
        /\ (f + 10000) * d = f * d + 10000 * d
    BY <2>1
  <2>3. Edge(f * d) = (400000000 + f * d) \div 100000000
    BY <2>2 DEF Edge, Quotient
  <2> QED
    BY <2>3 DEF f
<1>2. c = Edge(SinCosTable[k + 1][1] * d) /\ p = Edge(SinCosTable[k + 1][2] * d)
  BY DEF Lands
<1> QED
  BY <1>1, <1>2, SMT DEF LandsInside

\* Where the entries 0 to 125 take an LED at the distance 7071.
LEMMA Ring7071 ==
  ASSUME NEW k \in Entry, NEW c, NEW p, LandsInside(7071, k, c, p)
  PROVE  /\ Arc(k, 0, 31, c, 4, p, 4) /\ Arc(k, 32, 62, c, 4, p, 3)
         /\ Arc(k, 63, 94, c, 3, p, 3) /\ Arc(k, 95, 125, c, 3, p, 4)
  BY SMTT(30) DEF LandsInside, SinCosTable, Arc, Entry

\* Where the entries 0 to 62 take an LED at the distance 15811.
LEMMA Ring15811a ==
  ASSUME NEW k \in Entry, NEW c, NEW p, LandsInside(15811, k, c, p)
  PROVE  /\ Arc(k, 0, 13, c, 4, p, 5) /\ Arc(k, 14, 17, c, 5, p, 5)
         /\ Arc(k, 18, 31, c, 5, p, 4) /\ Arc(k, 32, 45, c, 5, p, 3)
         /\ Arc(k, 46, 49, c, 5, p, 2) /\ Arc(k, 50, 62, c, 4, p, 2)
  BY SMTT(30) DEF LandsInside, SinCosTable, Arc, Entry

\* Where the entries 63 to 125 take an LED at the distance 15811.
LEMMA Ring15811b ==
  ASSUME NEW k \in Entry, NEW c, NEW p, LandsInside(15811, k, c, p)
  PROVE  /\ Arc(k, 63, 76, c, 3, p, 2) /\ Arc(k, 77, 80, c, 2, p, 2)
         /\ Arc(k, 81, 94, c, 2, p, 3) /\ Arc(k, 95, 107, c, 2, p, 4)
         /\ Arc(k, 108, 111, c, 2, p, 5) /\ Arc(k, 112, 125, c, 3, p, 5)
  BY SMTT(30) DEF LandsInside, SinCosTable, Arc, Entry

\* Where the entries 0 to 53 take an LED at the distance 21213.
LEMMA Ring21213a ==
  ASSUME NEW k \in Entry, NEW c, NEW p, LandsInside(21213, k, c, p)
  PROVE  /\ Arc(k, 0, 6, c, 4, p, 6) /\ Arc(k, 7, 9, c, 4, p, 5)
         /\ Arc(k, 10, 21, c, 5, p, 5) /\ Arc(k, 22, 24, c, 5, p, 4)
         /\ Arc(k, 25, 31, c, 6, p, 4) /\ Arc(k, 32, 38, c, 6, p, 3)
         /\ Arc(k, 39, 41, c, 5, p, 3) /\ Arc(k, 42, 53, c, 5, p, 2)
  BY SMTT(30) DEF LandsInside, SinCosTable, Arc, Entry

\* Where the entries 54 to 101 take an LED at the distance 21213.
LEMMA Ring21213b ==
  ASSUME NEW k \in Entry, NEW c, NEW p, LandsInside(21213, k, c, p)
  PROVE  /\ Arc(k, 54, 56, c, 4, p, 2) /\ Arc(k, 57, 62, c, 4, p, 1)
         /\ Arc(k, 63, 69, c, 3, p, 1) /\ Arc(k, 70, 72, c, 3, p, 2)
         /\ Arc(k, 73, 84, c, 2, p, 2) /\ Arc(k, 85, 87, c, 2, p, 3)
         /\ Arc(k, 88, 94, c, 1, p, 3) /\ Arc(k, 95, 101, c, 1, p, 4)
  BY SMTT(30) DEF LandsInside, SinCosTable, Arc, Entry

\* Where the entries 102 to 125 take an LED at the distance 21213.
LEMMA Ring21213c ==
  ASSUME NEW k \in Entry, NEW c, NEW p, LandsInside(21213, k, c, p)
  PROVE  /\ Arc(k, 102, 104, c, 2, p, 4) /\ Arc(k, 105, 115, c, 2, p, 5)
         /\ Arc(k, 116, 118, c, 3, p, 5) /\ Arc(k, 119, 125, c, 3, p, 6)
  BY SMTT(30) DEF LandsInside, SinCosTable, Arc, Entry

\* Where the entries 0 to 49 take an LED at the distance 25495.
LEMMA Ring25495a ==
  ASSUME NEW k \in Entry, NEW c, NEW p, LandsInside(25495, k, c, p)
  PROVE  /\ Arc(k, 0, 8, c, 4, p, 6) /\ Arc(k, 9, 13, c, 5, p, 6)
         /\ Arc(k, 14, 18, c, 5, p, 5) /\ Arc(k, 19, 23, c, 6, p, 5)
         /\ Arc(k, 24, 31, c, 6, p, 4) /\ Arc(k, 32, 39, c, 6, p, 3)
         /\ Arc(k, 40, 44, c, 6, p, 2) /\ Arc(k, 45, 49, c, 5, p, 2)
  BY SMTT(30) DEF LandsInside, SinCosTable, Arc, Entry

\* Where the entries 50 to 102 take an LED at the distance 25495.
LEMMA Ring25495b ==
  ASSUME NEW k \in Entry, NEW c, NEW p, LandsInside(25495, k, c, p)
  PROVE  /\ Arc(k, 50, 54, c, 5, p, 1) /\ Arc(k, 55, 62, c, 4, p, 1)
         /\ Arc(k, 63, 70, c, 3, p, 1) /\ Arc(k, 71, 76, c, 2, p, 1)
         /\ Arc(k, 77, 80, c, 2, p, 2) /\ Arc(k, 81, 86, c, 1, p, 2)
         /\ Arc(k, 87, 94, c, 1, p, 3) /\ Arc(k, 95, 102, c, 1, p, 4)
  BY SMTT(30) DEF LandsInside, SinCosTable, Arc, Entry

\* Where the entries 103 to 125 take an LED at the distance 25495.
LEMMA Ring25495c ==
  ASSUME NEW k \in Entry, NEW c, NEW p, LandsInside(25495, k, c, p)
  PROVE  /\ Arc(k, 103, 107, c, 1, p, 5) /\ Arc(k, 108, 112, c, 2, p, 5)
         /\ Arc(k, 113, 117, c, 2, p, 6) /\ Arc(k, 118, 125, c, 3, p, 6)
  BY SMTT(30) DEF LandsInside, SinCosTable, Arc, Entry

\* Where the entries 0 to 47 take an LED at the distance 29155.
LEMMA Ring29155a ==
  ASSUME NEW k \in Entry, NEW c, NEW p, LandsInside(29155, k, c, p)
  PROVE  /\ Arc(k, 0, 7, c, 4, p, 6) /\ Arc(k, 8, 15, c, 5, p, 6)
         /\ Arc(k, 16, 16, c, 6, p, 6) /\ Arc(k, 17, 24, c, 6, p, 5)
         /\ Arc(k, 25, 31, c, 6, p, 4) /\ Arc(k, 32, 38, c, 6, p, 3)
         /\ Arc(k, 39, 46, c, 6, p, 2) /\ Arc(k, 47, 47, c, 6, p, 1)
  BY SMTT(30) DEF LandsInside, SinCosTable, Arc, Entry

\* Where the entries 48 to 101 take an LED at the distance 29155.
LEMMA Ring29155b ==
  ASSUME NEW k \in Entry, NEW c, NEW p, LandsInside(29155, k, c, p)
  PROVE  /\ Arc(k, 48, 55, c, 5, p, 1) /\ Arc(k, 56, 62, c, 4, p, 1)
         /\ Arc(k, 63, 69, c, 3, p, 1) /\ Arc(k, 70, 77, c, 2, p, 1)
         /\ Arc(k, 78, 79, c, 1, p, 1) /\ Arc(k, 80, 87, c, 1, p, 2)
         /\ Arc(k, 88, 94, c, 1, p, 3) /\ Arc(k, 95, 101, c, 1, p, 4)
  BY SMTT(30) DEF LandsInside, SinCosTable, Arc, Entry

\* Where the entries 102 to 125 take an LED at the distance 29155.
LEMMA Ring29155c ==
  ASSUME NEW k \in Entry, NEW c, NEW p, LandsInside(29155, k, c, p)
  PROVE  /\ Arc(k, 102, 109, c, 1, p, 5) /\ Arc(k, 110, 110, c, 1, p, 6)
         /\ Arc(k, 111, 118, c, 2, p, 6) /\ Arc(k, 119, 125, c, 3, p, 6)
  BY SMTT(30) DEF LandsInside, SinCosTable, Arc, Entry

\* Where the entries 0 to 37 take an LED at the distance 35355.
LEMMA Ring35355a ==
  ASSUME NEW k \in Entry, NEW c, NEW p, LandsInside(35355, k, c, p)
  PROVE  /\ Arc(k, 0, 5, c, 4, p, 7) /\ Arc(k, 6, 11, c, 5, p, 7)
         /\ Arc(k, 12, 12, c, 5, p, 6) /\ Arc(k, 13, 19, c, 6, p, 6)
         /\ Arc(k, 20, 20, c, 6, p, 5) /\ Arc(k, 21, 25, c, 7, p, 5)
         /\ Arc(k, 26, 31, c, 7, p, 4) /\ Arc(k, 32, 37, c, 7, p, 3)
  BY SMTT(30) DEF LandsInside, SinCosTable, Arc, Entry

\* Where the entries 38 to 73 take an LED at the distance 35355.
LEMMA Ring35355b ==
  ASSUME NEW k \in Entry, NEW c, NEW p, LandsInside(35355, k, c, p)
  PROVE  /\ Arc(k, 38, 42, c, 7, p, 2) /\ Arc(k, 43, 43, c, 6, p, 2)
         /\ Arc(k, 44, 50, c, 6, p, 1) /\ Arc(k, 51, 51, c, 5, p, 1)
         /\ Arc(k, 52, 57, c, 5, p, 0) /\ Arc(k, 58, 62, c, 4, p, 0)
         /\ Arc(k, 63, 68, c, 3, p, 0) /\ Arc(k, 69, 73, c, 2, p, 0)
  BY SMTT(30) DEF LandsInside, SinCosTable, Arc, Entry

\* Where the entries 74 to 106 take an LED at the distance 35355.
LEMMA Ring35355c ==
  ASSUME NEW k \in Entry, NEW c, NEW p, LandsInside(35355, k, c, p)
  PROVE  /\ Arc(k, 74, 74, c, 2, p, 1) /\ Arc(k, 75, 82, c, 1, p, 1)
         /\ Arc(k, 83, 83, c, 1, p, 2) /\ Arc(k, 84, 88, c, 0, p, 2)
         /\ Arc(k, 89, 94, c, 0, p, 3) /\ Arc(k, 95, 99, c, 0, p, 4)
         /\ Arc(k, 100, 105, c, 0, p, 5) /\ Arc(k, 106, 106, c, 1, p, 5)
  BY SMTT(30) DEF LandsInside, SinCosTable, Arc, Entry

\* Where the entries 107 to 125 take an LED at the distance 35355.
LEMMA Ring35355d ==
  ASSUME NEW k \in Entry, NEW c, NEW p, LandsInside(35355, k, c, p)
  PROVE  /\ Arc(k, 107, 113, c, 1, p, 6) /\ Arc(k, 114, 114, c, 2, p, 6)
         /\ Arc(k, 115, 119, c, 2, p, 7) /\ Arc(k, 120, 125, c, 3, p, 7)
  BY SMTT(30) DEF LandsInside, SinCosTable, Arc, Entry

\* Where the entries 8 to 55 take an LED at the distance 38079.
LEMMA Ring38079a ==
  ASSUME NEW k \in Entry, NEW c, NEW p, LandsInside(38079, k, c, p)
  PROVE  /\ Arc(k, 8, 8, c, 5, p, 7) /\ Arc(k, 23, 23, c, 7, p, 5)
         /\ Arc(k, 40, 40, c, 7, p, 2) /\ Arc(k, 55, 55, c, 5, p, 0)
  BY SMTT(30) DEF LandsInside, SinCosTable, Arc, Entry

\* Where the entries 71 to 118 take an LED at the distance 38079.
LEMMA Ring38079b ==
  ASSUME NEW k \in Entry, NEW c, NEW p, LandsInside(38079, k, c, p)
  PROVE  /\ Arc(k, 71, 71, c, 2, p, 0) /\ Arc(k, 86, 86, c, 0, p, 2)
         /\ Arc(k, 102, 102, c, 0, p, 5) /\ Arc(k, 118, 118, c, 2, p, 7)
  BY SMTT(30) DEF LandsInside, SinCosTable, Arc, Entry

\* Where the entries 12 to 50 take an LED at the distance 43012.
LEMMA Ring43012a ==
  ASSUME NEW k \in Entry, NEW c, NEW p, Lands(43012, k, c, p)
  PROVE  /\ Arc(k, 12, 12, c, 6, p, 7) /\ Arc(k, 19, 19, c, 7, p, 6)
         /\ Arc(k, 44, 44, c, 7, p, 1) /\ Arc(k, 50, 50, c, 6, p, 0)
  BY SMTT(30) DEF Lands, Edge, Quotient, SinCosTable, Arc, Entry

\* Where the entries 75 to 113 take an LED at the distance 43012.
LEMMA Ring43012b ==
  ASSUME NEW k \in Entry, NEW c, NEW p, Lands(43012, k, c, p)
  PROVE  /\ Arc(k, 75, 75, c, 1, p, 0) /\ Arc(k, 82, 82, c, 0, p, 1)
         /\ Arc(k, 107, 107, c, 0, p, 6) /\ Arc(k, 113, 113, c, 1, p, 7)
  BY SMTT(30) DEF Lands, Edge, Quotient, SinCosTable, Arc, Entry

\* Where the entries 16 to 110 take an LED at the distance 49497.
LEMMA Ring49497 ==
  ASSUME NEW k \in Entry, NEW c, NEW p, Lands(49497, k, c, p)
  PROVE  /\ Arc(k, 16, 16, c, 7, p, 7) /\ Arc(k, 47, 47, c, 7, p, 0)
         /\ Arc(k, 79, 79, c, 0, p, 0) /\ Arc(k, 110, 110, c, 0, p, 7)
  BY SMTT(30) DEF Lands, Edge, Quotient, SinCosTable, Arc, Entry
-----------------------------------------------------------------------------
(* Near and at home.                                                       *)

\* The angles that are rounded to the k-th entry.  Below the first one the
\* code rounds towards it.
RoundsTo(n, k) ==
  /\ n * 20 + 500000 < 1000000 * (k + 1)
  /\ IF k = 0 THEN -1000000 < n * 20 + 500000
     ELSE 1000000 * k <= n * 20 + 500000

\* What the angle of an LED is more than n and a quarter turn, but for turns.
Ahead(n, c, p, turns) ==
  AngleTable[c + 1][p + 1] - n - QuarterTurn + turns * FullTurn
Between(low, v, high) == low <= v /\ v <= high

\* The largest difference that is near, at the distance d.
FarAt(d) == 1000 * ((7500000 + 25 * d) \div d) + 999

\* Near, for the angle n and the distance d.
LandsNear(d, n, c, p) ==
  /\ c \in 0 .. 7 /\ p \in 0 .. 7
  /\ Between(-7072, DistanceTable[c + 1][p + 1] - d, 7072)
  /\ \E turns \in {-1, 0, 1} :
       Between(-FarAt(d), Ahead(n, c, p, turns), FarAt(d))

\* The distances of the LEDs that are not at the outside.
InnerDistance == {7071, 15811, 21213, 25495, 29155, 35355}

\* An LED that is not at the outside lands near the angle it is turned to: at
\* each distance, by the cells the table takes it to.
LEMMA InnerLandNear ==
  ASSUME NEW d \in InnerDistance,
         NEW k \in Entry, NEW n \in Int, RoundsTo(n, k),
         NEW c, NEW p, Lands(d, k, c, p)
  PROVE  LandsNear(d, n, c, p)
<1> DEFINE Turned(v) == AngleTable[c + 1][p + 1] - n - 1570796 + v * 6283180
<1>1. d \in {7071, 15811, 21213, 25495, 29155, 35355}
  BY DEF InnerDistance
<1>2. k \in Int /\ 0 <= k /\ k <= 125 /\ LandsInside(d, k, c, p)
  BY <1>1, LandsInsideIt DEF Entry
<1>3. \A v \in {-1, 0, 1} : Turned(v) = Ahead(n, c, p, v)
  BY DEF Ahead, QuarterTurn, FullTurn
<1>4. CASE d = 7071
  <2>1. \E v \in {-1, 0, 1} : Between(-1085999, Turned(v), 1085999)
    BY <1>4, <1>2, SMTT(30),
       Ring7071
       DEF Arc, Between, AngleTable, RoundsTo
  <2>2. /\ c \in 0 .. 7 /\ p \in 0 .. 7
        /\ Between(-7072, DistanceTable[c + 1][p + 1] - d, 7072)
    BY <1>4, <1>2, SMTT(30),
       Ring7071
       DEF Arc, Between, DistanceTable
  <2>3. FarAt(d) = 1085999
    BY <1>4 DEF FarAt
  <2> HIDE DEF Turned
  <2> QED
    BY <1>3, <2>1, <2>2, <2>3 DEF LandsNear
<1>5. CASE d = 15811
  <2>1. \E v \in {-1, 0, 1} : Between(-499999, Turned(v), 499999)
    BY <1>5, <1>2, SMTT(30),
       Ring15811a, Ring15811b
       DEF Arc, Between, AngleTable, RoundsTo
  <2>2. /\ c \in 0 .. 7 /\ p \in 0 .. 7
        /\ Between(-7072, DistanceTable[c + 1][p + 1] - d, 7072)
    BY <1>5, <1>2, SMTT(30),
       Ring15811a, Ring15811b
       DEF Arc, Between, DistanceTable
  <2>3. FarAt(d) = 499999
    BY <1>5 DEF FarAt
  <2> HIDE DEF Turned
  <2> QED
    BY <1>3, <2>1, <2>2, <2>3 DEF LandsNear
<1>6. CASE d = 21213
  <2>1. \E v \in {-1, 0, 1} : Between(-378999, Turned(v), 378999)
    BY <1>6, <1>2, SMTT(30),
       Ring21213a, Ring21213b, Ring21213c
       DEF Arc, Between, AngleTable, RoundsTo
  <2>2. /\ c \in 0 .. 7 /\ p \in 0 .. 7
        /\ Between(-7072, DistanceTable[c + 1][p + 1] - d, 7072)
    BY <1>6, <1>2, SMTT(30),
       Ring21213a, Ring21213b, Ring21213c
       DEF Arc, Between, DistanceTable
  <2>3. FarAt(d) = 378999
    BY <1>6 DEF FarAt
  <2> HIDE DEF Turned
  <2> QED
    BY <1>3, <2>1, <2>2, <2>3 DEF LandsNear
<1>7. CASE d = 25495
  <2>1. \E v \in {-1, 0, 1} : Between(-319999, Turned(v), 319999)
    BY <1>7, <1>2, SMTT(30),
       Ring25495a, Ring25495b, Ring25495c
       DEF Arc, Between, AngleTable, RoundsTo
  <2>2. /\ c \in 0 .. 7 /\ p \in 0 .. 7
        /\ Between(-7072, DistanceTable[c + 1][p + 1] - d, 7072)
    BY <1>7, <1>2, SMTT(30),
       Ring25495a, Ring25495b, Ring25495c
       DEF Arc, Between, DistanceTable
  <2>3. FarAt(d) = 319999
    BY <1>7 DEF FarAt
  <2> HIDE DEF Turned
  <2> QED
    BY <1>3, <2>1, <2>2, <2>3 DEF LandsNear
<1>8. CASE d = 29155
  <2>1. \E v \in {-1, 0, 1} : Between(-282999, Turned(v), 282999)
    BY <1>8, <1>2, SMTT(30),
       Ring29155a, Ring29155b, Ring29155c
       DEF Arc, Between, AngleTable, RoundsTo
  <2>2. /\ c \in 0 .. 7 /\ p \in 0 .. 7
        /\ Between(-7072, DistanceTable[c + 1][p + 1] - d, 7072)
    BY <1>8, <1>2, SMTT(30),
       Ring29155a, Ring29155b, Ring29155c
       DEF Arc, Between, DistanceTable
  <2>3. FarAt(d) = 282999
    BY <1>8 DEF FarAt
  <2> HIDE DEF Turned
  <2> QED
    BY <1>3, <2>1, <2>2, <2>3 DEF LandsNear
<1>9. CASE d = 35355
  <2>1. \E v \in {-1, 0, 1} : Between(-237999, Turned(v), 237999)
    BY <1>9, <1>2, SMTT(30),
       Ring35355a, Ring35355b, Ring35355c, Ring35355d
       DEF Arc, Between, AngleTable, RoundsTo
  <2>2. /\ c \in 0 .. 7 /\ p \in 0 .. 7
        /\ Between(-7072, DistanceTable[c + 1][p + 1] - d, 7072)
    BY <1>9, <1>2, SMTT(30),
       Ring35355a, Ring35355b, Ring35355c, Ring35355d
       DEF Arc, Between, DistanceTable
  <2>3. FarAt(d) = 237999
    BY <1>9 DEF FarAt
  <2> HIDE DEF Turned
  <2> QED
    BY <1>3, <2>1, <2>2, <2>3 DEF LandsNear
<1> QED
  BY <1>1, <1>4, <1>5, <1>6, <1>7, <1>8, <1>9

\* The distances of the LEDs from the centre.
LEMMA Distances ==
  ASSUME NEW x \in 0 .. 7, NEW y \in 0 .. 7
  PROVE  DistanceTable[x + 1][y + 1]
           \in {7071, 15811, 21213, 25495, 29155, 35355, 38079, 43012, 49497}
  BY SMT DEF DistanceTable

\* An LED turned to the angle of an LED at its distance lands at that LED: at
\* each distance, by the cells the table takes it to.
LEMMA LandsHome ==
  ASSUME NEW x \in 0 .. 7, NEW y \in 0 .. 7, NEW k \in Entry,
         NEW n \in Int, RoundsTo(n, k),
         NEW turns \in {-1, 0, 1}, Between(-60, Ahead(n, x, y, turns), 60),
         NEW c, NEW p, Lands(DistanceTable[x + 1][y + 1], k, c, p)
  PROVE  c = x /\ p = y
<1> DEFINE d == DistanceTable[x + 1][y + 1]
<1>1. k \in Int /\ 0 <= k /\ k <= 125
  BY DEF Entry
<1>2. d = 43012 \/ d = 49497 \/ LandsInside(d, k, c, p)
  <2>1. d \in {7071, 15811, 21213, 25495, 29155, 35355, 38079, 43012, 49497}
    BY Distances
  <2>2. d \in Nat /\ (d <= 40000 \/ d = 43012 \/ d = 49497)
    BY <2>1
  <2>3. Lands(d, k, c, p)
    OBVIOUS
  <2> HIDE DEF d
  <2>4. CASE d <= 40000
    BY <2>2, <2>3, <2>4, LandsInsideIt
  <2> QED
    BY <2>2, <2>4
<1>3. CASE d = 7071
  BY <1>3, <1>1, <1>2, SMTT(30), Ring7071
     DEF Arc, Between, Ahead, QuarterTurn, FullTurn, AngleTable, DistanceTable,
         RoundsTo
<1>4. CASE d = 15811
  BY <1>4, <1>1, <1>2, SMTT(30), Ring15811a, Ring15811b
     DEF Arc, Between, Ahead, QuarterTurn, FullTurn, AngleTable, DistanceTable,
         RoundsTo
<1>5. CASE d = 21213
  BY <1>5, <1>1, <1>2, SMTT(30), Ring21213a, Ring21213b, Ring21213c
     DEF Arc, Between, Ahead, QuarterTurn, FullTurn, AngleTable, DistanceTable,
         RoundsTo
<1>6. CASE d = 25495
  BY <1>6, <1>1, <1>2, SMTT(30), Ring25495a, Ring25495b, Ring25495c
     DEF Arc, Between, Ahead, QuarterTurn, FullTurn, AngleTable, DistanceTable,
         RoundsTo
<1>7. CASE d = 29155
  BY <1>7, <1>1, <1>2, SMTT(30), Ring29155a, Ring29155b, Ring29155c
     DEF Arc, Between, Ahead, QuarterTurn, FullTurn, AngleTable, DistanceTable,
         RoundsTo
<1>8. CASE d = 35355
  BY <1>8, <1>1, <1>2, SMTT(30), Ring35355a, Ring35355b, Ring35355c, Ring35355d
     DEF Arc, Between, Ahead, QuarterTurn, FullTurn, AngleTable, DistanceTable,
         RoundsTo
<1>9. CASE d = 38079
  BY <1>9, <1>1, <1>2, SMTT(30), Ring38079a, Ring38079b
     DEF Arc, Between, Ahead, QuarterTurn, FullTurn, AngleTable, DistanceTable,
         RoundsTo
<1>10. CASE d = 43012
  BY <1>10, <1>1, <1>2, SMTT(30), Ring43012a, Ring43012b
     DEF Arc, Between, Ahead, QuarterTurn, FullTurn, AngleTable, DistanceTable,
         RoundsTo
<1>11. CASE d = 49497
  BY <1>11, <1>1, <1>2, SMTT(30), Ring49497
     DEF Arc, Between, Ahead, QuarterTurn, FullTurn, AngleTable, DistanceTable,
         RoundsTo
<1>12. d \in {7071, 15811, 21213, 25495, 29155, 35355, 38079, 43012, 49497}
  BY Distances
<1> HIDE DEF d
<1> QED
  BY <1>12, <1>3, <1>4, <1>5, <1>6, <1>7, <1>8, <1>9, <1>10, <1>11

\* The angle of an LED, and a little more, is in the table.
LEMMA HomeInTable ==
  ASSUME NEW x \in 0 .. 7, NEW y \in 0 .. 7,
         NEW n \in Int, 0 <= n, n <= FullTurn,
         NEW turns \in {-1, 0, 1}, Between(-60, Ahead(n, x, y, turns), 60)
  PROVE  \E k \in Entry : RoundsTo(n, k)
<1> DEFINE k == (n * 20 + 500000) \div 1000000
<1>1. n * 20 + 500000 < 126000000
  BY SMTT(30) DEF Between, Ahead, QuarterTurn, FullTurn, AngleTable
<1>2. k \in Int /\ 0 <= k /\ k <= 125 /\ RoundsTo(n, k)
  BY <1>1, SMT DEF RoundsTo
<1>3. k \in Entry
  BY <1>2, SMT DEF Entry
<1> QED
  BY <1>2, <1>3, SMT

\* The entries of the table.
LEMMA TableLength == Len(SinCosTable) = 126
  BY SMT DEF SinCosTable

\* The angles of the LEDs are within a turn.
LEMMA SiteAngle ==
  ASSUME NEW x \in 0 .. 7, NEW y \in 0 .. 7
  PROVE  /\ AngleTable[x + 1][y + 1] \in Int
         /\ 0 <= AngleTable[x + 1][y + 1] /\ AngleTable[x + 1][y + 1] <= FullTurn
         /\ DistanceTable[x + 1][y + 1] \in Nat
  BY SMT DEF AngleTable, DistanceTable, FullTurn

\* The entry the code looks up is the one the angle is rounded to.
LEMMA LookupRounds ==
  ASSUME NEW n \in Int, NEW k \in Entry
  PROVE  Quotient(n * 20 + 500000, 1000000) = k <=> RoundsTo(n, k)
<1>1. k \in Int /\ 0 <= k
  BY DEF Entry
<1>2. CASE k = 0
  BY <1>2, SMT DEF Quotient, RoundsTo
<1>3. CASE k > 0
  BY <1>1, <1>3, SMT DEF Quotient, RoundsTo
<1> QED
  BY <1>1, <1>2, <1>3

\* The LEDs of a layer.
LEMMA SiteIs ==
  /\ Site = (0 .. 7) \X (0 .. 7)
  /\ \A s \in Site : s[1] \in 0 .. 7 /\ s[2] \in 0 .. 7 /\ s = <<s[1], s[2]>>
<1>1. Col = 0 .. 7 /\ Panel = 0 .. 7
  BY RotateAssumption DEF Col, Panel
<1> QED
  BY <1>1 DEF Site

\* A turn is taken off once: enough when the angle was within a turn.
LEMMA NewAngleIs ==
  ASSUME NEW a \in Int, NEW s \in Site
  PROVE  /\ NewAngle(a, s) \in Int
         /\ \E v \in {0, 1} :
              NewAngle(a, s) = AngleTable[s[1] + 1][s[2] + 1] + a - v * FullTurn
         /\ 0 <= a /\ a <= FullTurn => 0 <= NewAngle(a, s) /\ NewAngle(a, s) <= FullTurn
<1> DEFINE at == AngleTable[s[1] + 1][s[2] + 1]
<1>1. at \in Int /\ 0 <= at /\ at <= FullTurn
  BY SiteAngle, SiteIs
<1>2. FullTurn \in Int
  BY DEF FullTurn
<1>3. NewAngle(a, s) = IF at + a > FullTurn THEN at + a - FullTurn ELSE at + a
  BY <1>1, <1>2, SMT DEF NewAngle
<1> HIDE DEF at
<1>4. /\ NewAngle(a, s) \in Int
      /\ \E v \in {0, 1} : NewAngle(a, s) = at + a - v * FullTurn
      /\ 0 <= a /\ a <= FullTurn => 0 <= NewAngle(a, s) /\ NewAngle(a, s) <= FullTurn
  BY <1>1, <1>2, <1>3
<1> QED
  BY <1>4 DEF at

\* cube_rotate_layer takes an LED where the entry for its angle does.
LEMMA NewSiteLands ==
  ASSUME NEW a \in Int, NEW s \in Site, NEW k \in Entry,
         RoundsTo(NewAngle(a, s), k)
  PROVE  \E c, p : /\ NewSite(a, s) = <<c, p>>
                   /\ Lands(DistanceTable[s[1] + 1][s[2] + 1], k, c, p)
<1>1. AngleLookup(a, s) = k
  BY NewAngleIs, LookupRounds DEF AngleLookup
<1>2. InTable(a, s)
  BY <1>1, TableLength DEF InTable, Entry
<1> DEFINE d == DistanceTable[s[1] + 1][s[2] + 1]
           c == Edge(SinCosTable[k + 1][1] * d)
           p == Edge(SinCosTable[k + 1][2] * d)
<1>3. /\ d \in Nat /\ SinCosTable[k + 1][1] \in Int
      /\ SinCosTable[k + 1][2] \in Int
  <2>1. d \in Nat
    BY SiteAngle, SiteIs
  <2>2. \A i \in {1, 2} : SinCosTable[k + 1][i] \in Int
    BY Sines
  <2> QED
    BY <2>1, <2>2
<1>4. NewSite(a, s) = <<c, p>>
  BY <1>1, <1>2, <1>3, SMT DEF NewSite, Edge
<1>5. Lands(d, k, c, p)
  BY DEF Lands
<1> QED
  BY <1>5, <1>4, Zenon

\* An angle that is read inside the table is rounded to one of its entries.
LEMMA InTableRounds ==
  ASSUME NEW a \in Int, NEW s \in Site, InTable(a, s)
  PROVE  \E k \in Entry : RoundsTo(NewAngle(a, s), k)
<1>1. AngleLookup(a, s) \in Entry
  BY TableLength DEF InTable, Entry
<1> QED
  BY <1>1, NewAngleIs, LookupRounds DEF AngleLookup

-----------------------------------------------------------------------------
\* The LED a quarter turn further has the same distance, and an angle a quarter
\* turn further, in the tables.
LEMMA QuarterFurther ==
  ASSUME NEW x \in 0 .. 7, NEW y \in 0 .. 7
  PROVE  /\ DistanceTable[y + 1][7 - x + 1] = DistanceTable[x + 1][y + 1]
         /\ \E v \in {0, 1} :
              Between(-5, AngleTable[y + 1][7 - x + 1] - AngleTable[x + 1][y + 1]
                            - QuarterTurn + v * FullTurn, 5)
<1>1. DistanceTable[y + 1][7 - x + 1] = DistanceTable[x + 1][y + 1]
  BY SMT DEF DistanceTable
<1>2. \E v \in {0, 1} :
        Between(-5, AngleTable[y + 1][7 - x + 1] - AngleTable[x + 1][y + 1]
                      - QuarterTurn + v * FullTurn, 5)
  BY SMT DEF AngleTable, Between, QuarterTurn, FullTurn
<1> QED
  BY <1>1, <1>2

\* Whole turns added to an angle are whole turns in its differences.
LEMMA TurnsAdd ==
  ASSUME NEW at \in Int, NEW as \in Int, NEW a \in Int, NEW v \in Int, NEW w \in Int,
         NEW n \in Int, n = as + a - w * FullTurn
  PROVE  /\ v - w \in Int
         /\ at - as - a - QuarterTurn + v * FullTurn
              = at - n - QuarterTurn + (v - w) * FullTurn
  BY DEF QuarterTurn, FullTurn

\* An LED that is turned to the angle of another one at its distance lands there.
LEMMA TurnedHome ==
  ASSUME NEW s \in Site, NEW t \in Site,
         NEW a \in Int, 0 <= a, a <= FullTurn,
         DistanceTable[t[1] + 1][t[2] + 1] = DistanceTable[s[1] + 1][s[2] + 1],
         NEW v \in Int,
         Between(-50, AngleTable[t[1] + 1][t[2] + 1] - AngleTable[s[1] + 1][s[2] + 1]
                        - a - QuarterTurn + v * FullTurn, 50)
  PROVE  NewSite(a, s) = t
<1> DEFINE at == AngleTable[t[1] + 1][t[2] + 1]
           as == AngleTable[s[1] + 1][s[2] + 1]
           n == NewAngle(a, s)
<1>1. /\ at \in Int /\ 0 <= at /\ at <= FullTurn /\ as \in Int
      /\ FullTurn = 6283180 /\ QuarterTurn = 1570796
  BY SiteAngle, SiteIs DEF FullTurn, QuarterTurn
<1>2. n \in Int /\ 0 <= n /\ n <= FullTurn
  BY NewAngleIs
<1>3. PICK w \in {0, 1} : n = as + a - w * FullTurn
  BY NewAngleIs
<1> HIDE DEF at, as, n
<1>4. /\ v - w \in Int
      /\ at - as - a - QuarterTurn + v * FullTurn
           = at - n - QuarterTurn + (v - w) * FullTurn
  <2>1. w \in Int
    BY <1>3
  <2> QED
    BY <1>1, <1>2, <1>3, <2>1, TurnsAdd
<1>5. -50 <= at - n - QuarterTurn + (v - w) * FullTurn
      /\ at - n - QuarterTurn + (v - w) * FullTurn <= 50
  BY <1>4 DEF Between, at, as
<1>6. PICK turns \in {-1, 0, 1} : Between(-60, Ahead(n, t[1], t[2], turns), 60)
  <2> DEFINE turns == v - w
  <2> HIDE DEF turns
  <2>1. turns \in Int /\ -50 <= at - n - QuarterTurn + turns * FullTurn
        /\ at - n - QuarterTurn + turns * FullTurn <= 50
    BY <1>4, <1>5 DEF turns
  <2>2. /\ turns \in {-1, 0, 1}
        /\ -60 <= at - n - QuarterTurn + turns * FullTurn
        /\ at - n - QuarterTurn + turns * FullTurn <= 60
    BY <1>1, <1>2, <2>1, SMT DEF QuarterTurn, FullTurn
  <2> QED
    BY <2>2 DEF Between, Ahead, at
<1>7. PICK k \in Entry : RoundsTo(n, k)
  BY <1>2, <1>6, SiteIs, HomeInTable
<1>8. PICK c, p : /\ NewSite(a, s) = <<c, p>>
                  /\ Lands(DistanceTable[s[1] + 1][s[2] + 1], k, c, p)
  <2>1. RoundsTo(NewAngle(a, s), k)
    BY <1>7 DEF n
  <2> QED
    BY <2>1, NewSiteLands
<1>9. t[1] \in 0 .. 7 /\ t[2] \in 0 .. 7 /\ t = <<t[1], t[2]>>
  BY SiteIs
<1>10. c = t[1] /\ p = t[2]
  <2>1. Lands(DistanceTable[t[1] + 1][t[2] + 1], k, c, p)
    BY <1>8
  <2> QED
    BY <1>2, <1>6, <1>7, <1>9, <2>1, LandsHome
<1> QED
  BY <1>8, <1>9, <1>10

\* A quarter turn of the columns and panels of a layer.
Quarter(s) == <<s[2], 7 - s[1]>>

\* The same of an LED of a layer.
LEMMA QuarterSite ==
  ASSUME NEW s \in Site
  PROVE  /\ Quarter(s) \in Site
         /\ DistanceTable[Quarter(s)[1] + 1][Quarter(s)[2] + 1]
              = DistanceTable[s[1] + 1][s[2] + 1]
         /\ \E v \in {0, 1} :
              Between(-5, AngleTable[Quarter(s)[1] + 1][Quarter(s)[2] + 1]
                            - AngleTable[s[1] + 1][s[2] + 1]
                            - QuarterTurn + v * FullTurn, 5)
<1>1. s[1] \in 0 .. 7 /\ s[2] \in 0 .. 7
  BY SiteIs
<1>2. 7 - s[1] \in 0 .. 7 /\ Quarter(s)[1] = s[2] /\ Quarter(s)[2] = 7 - s[1]
  BY <1>1 DEF Quarter
<1>3. Quarter(s) \in Site
  BY <1>1, <1>2, SiteIs DEF Quarter
<1>4. /\ DistanceTable[s[2] + 1][7 - s[1] + 1] = DistanceTable[s[1] + 1][s[2] + 1]
      /\ \E v \in {0, 1} :
           Between(-5, AngleTable[s[2] + 1][7 - s[1] + 1] - AngleTable[s[1] + 1][s[2] + 1]
                         - QuarterTurn + v * FullTurn, 5)
  BY <1>1, QuarterFurther
<1> QED
  BY <1>2, <1>3, <1>4

\* The same for several of them.
Angled(s, t, m) ==
  /\ t \in Site
  /\ DistanceTable[t[1] + 1][t[2] + 1] = DistanceTable[s[1] + 1][s[2] + 1]
  /\ \E v \in Int :
       Between(-5 * m, AngleTable[t[1] + 1][t[2] + 1] - AngleTable[s[1] + 1][s[2] + 1]
                         - m * QuarterTurn + v * FullTurn, 5 * m)

\* One quarter turn more.
LEMMA AngledFurther ==
  ASSUME NEW s \in Site, NEW t, NEW m \in {0, 1, 2, 3}, Angled(s, t, m)
  PROVE  Angled(s, Quarter(t), m + 1)
<1> DEFINE u == Quarter(t)
           as == AngleTable[s[1] + 1][s[2] + 1]
           at == AngleTable[t[1] + 1][t[2] + 1]
           au == AngleTable[u[1] + 1][u[2] + 1]
<1>1. t \in Site /\ u \in Site
      /\ DistanceTable[u[1] + 1][u[2] + 1] = DistanceTable[s[1] + 1][s[2] + 1]
  BY QuarterSite DEF Angled
<1>2. as \in Int /\ at \in Int /\ au \in Int
      /\ FullTurn = 6283180 /\ QuarterTurn = 1570796
  BY <1>1, SiteAngle, SiteIs DEF FullTurn, QuarterTurn
<1>3. PICK v \in Int : Between(-5 * m, at - as - m * QuarterTurn + v * FullTurn, 5 * m)
  BY DEF Angled
<1>4. PICK w \in {0, 1} : Between(-5, au - at - QuarterTurn + w * FullTurn, 5)
  BY <1>1, QuarterSite
<1> HIDE DEF as, at, au
<1>5. v + w \in Int /\ v \in Int /\ w \in Int /\ m \in Int
  BY <1>4
<1> DEFINE far == at - as - m * QuarterTurn + v * FullTurn
           near == au - at - QuarterTurn + w * FullTurn
<1>6. /\ far \in Int /\ near \in Int
      /\ au - as - (m + 1) * QuarterTurn + (v + w) * FullTurn = far + near
  BY <1>2, <1>5, SMT DEF FullTurn, QuarterTurn
<1>7. Between(-5 * m, far, 5 * m) /\ Between(-5, near, 5)
  BY <1>3, <1>4
<1> HIDE DEF far, near
<1>8. Between(-5 * (m + 1), far + near, 5 * (m + 1))
  BY <1>5, <1>6, <1>7 DEF Between
<1> QED
  BY <1>1, <1>5, <1>6, <1>8, Zenon DEF Angled, as, au

\* The right angles, in millionths of a radian.
LEMMA RightAngles ==
  /\ Radians(90 * 0) = 0 /\ Radians(90 * 1) = 1570788
  /\ Radians(90 * 2) = 3141576 /\ Radians(90 * 3) = 4712364
  /\ Radians(90 * 4) = 6283152
  BY SMT DEF Radians

\* The right angles take each LED a quarter turn further than they say.
LEMMA RightLands ==
  ASSUME NEW s \in Site
  PROVE  /\ NewSite(Radians(90 * 0), s) = Quarter(s)
         /\ NewSite(Radians(90 * 1), s) = Quarter(Quarter(s))
         /\ NewSite(Radians(90 * 2), s) = Quarter(Quarter(Quarter(s)))
         /\ NewSite(Radians(90 * 3), s) = s
         /\ NewSite(Radians(90 * 4), s) = Quarter(s)
<1> DEFINE q1 == Quarter(s)
           q2 == Quarter(q1)
           q3 == Quarter(q2)
<1>1. FullTurn = 6283180 /\ QuarterTurn = 1570796
  BY DEF FullTurn, QuarterTurn
<1>2. Angled(s, s, 0)
  <2>1. 0 \in Int /\ AngleTable[s[1] + 1][s[2] + 1] \in Int
    BY SiteAngle, SiteIs
  <2>2. Between(-5 * 0, AngleTable[s[1] + 1][s[2] + 1] - AngleTable[s[1] + 1][s[2] + 1]
                          - 0 * QuarterTurn + 0 * FullTurn, 5 * 0)
    BY <2>1, SMT DEF Between, QuarterTurn, FullTurn
  <2> QED
    BY <2>1, <2>2 DEF Angled
<1>3. Angled(s, q1, 1) /\ Angled(s, q2, 2) /\ Angled(s, q3, 3)
  <2>1. Angled(s, q1, 0 + 1)
    BY <1>2, AngledFurther
  <2>2. Angled(s, q2, 1 + 1)
    BY <2>1, AngledFurther
  <2>3. Angled(s, q3, 2 + 1)
    BY <2>2, AngledFurther
  <2> QED
    BY <2>1, <2>2, <2>3
<1>4. ASSUME NEW m \in 0 .. 3, NEW t, Angled(s, t, m),
             NEW a \in Int, 0 <= a, a <= FullTurn, NEW v \in Int,
             Between(-30, m * QuarterTurn - a - QuarterTurn + v * FullTurn, 30)
      PROVE  NewSite(a, s) = t
  <2> DEFINE at == AngleTable[t[1] + 1][t[2] + 1]
             as == AngleTable[s[1] + 1][s[2] + 1]
  <2>1. PICK w \in Int : Between(-5 * m, at - as - m * QuarterTurn + w * FullTurn, 5 * m)
    BY <1>4 DEF Angled
  <2>2. t \in Site /\ at \in Int /\ as \in Int /\ m \in Int /\ 0 <= m /\ m <= 3
    BY <1>4, SiteAngle, SiteIs DEF Angled
  <2> HIDE DEF at, as
  <2> DEFINE far == at - as - m * QuarterTurn + w * FullTurn
             near == m * QuarterTurn - a - QuarterTurn + v * FullTurn
  <2>3. /\ far \in Int /\ near \in Int /\ v + w \in Int
        /\ at - as - a - QuarterTurn + (v + w) * FullTurn = far + near
    BY <2>2, <1>1, SMT DEF FullTurn, QuarterTurn
  <2>4. Between(-5 * m, far, 5 * m) /\ Between(-30, near, 30)
    BY <1>4, <2>1
  <2> HIDE DEF far, near
  <2>5. Between(-50, far + near, 50)
    BY <2>2, <2>3, <2>4 DEF Between
  <2>6. Between(-50, at - as - a - QuarterTurn + (v + w) * FullTurn, 50)
    BY <2>3, <2>5
  <2>7. DistanceTable[t[1] + 1][t[2] + 1] = DistanceTable[s[1] + 1][s[2] + 1]
    BY <1>4 DEF Angled
  <2> QED
    BY <1>4, <2>2, <2>3, <2>6, <2>7, TurnedHome DEF at, as
<1>5. NewSite(0, s) = q1
  <2>1. Between(-30, 1 * QuarterTurn - 0 - QuarterTurn + 0 * FullTurn, 30)
        /\ 0 <= FullTurn
    BY SMT DEF Between, QuarterTurn, FullTurn
  <2> QED
    BY <1>3, <1>4, <2>1
<1>6. NewSite(1570788, s) = q2
  <2>1. Between(-30, 2 * QuarterTurn - 1570788 - QuarterTurn + 0 * FullTurn, 30)
        /\ 1570788 <= FullTurn
    BY SMT DEF Between, QuarterTurn, FullTurn
  <2> QED
    BY <1>3, <1>4, <2>1
<1>7. NewSite(3141576, s) = q3
  <2>1. Between(-30, 3 * QuarterTurn - 3141576 - QuarterTurn + 0 * FullTurn, 30)
        /\ 3141576 <= FullTurn
    BY SMT DEF Between, QuarterTurn, FullTurn
  <2> QED
    BY <1>3, <1>4, <2>1
<1>8. NewSite(4712364, s) = s
  <2>1. Between(-30, 0 * QuarterTurn - 4712364 - QuarterTurn + 1 * FullTurn, 30)
        /\ 4712364 <= FullTurn
    BY SMT DEF Between, QuarterTurn, FullTurn
  <2> QED
    BY <1>2, <1>4, <2>1
<1>9. NewSite(6283152, s) = q1
  <2>1. Between(-30, 1 * QuarterTurn - 6283152 - QuarterTurn + 1 * FullTurn, 30)
        /\ 6283152 <= FullTurn
    BY SMT DEF Between, QuarterTurn, FullTurn
  <2> QED
    BY <1>3, <1>4, <2>1
<1> QED
  BY <1>5, <1>6, <1>7, <1>8, <1>9, RightAngles

-----------------------------------------------------------------------------
\* The distances of the LEDs that are not at the outside are those of the rings.
LEMMA InnerDistances ==
  ASSUME NEW s \in Inner
  PROVE  /\ s \in Site
         /\ DistanceTable[s[1] + 1][s[2] + 1]
              \in InnerDistance
<1>1. s \in Site /\ s[1] \in 1 .. 6 /\ s[2] \in 1 .. 6
  BY DEF Inner
<1>2. \A x \in 1 .. 6, y \in 1 .. 6 :
        DistanceTable[x + 1][y + 1] \in InnerDistance
  BY SMT DEF DistanceTable, InnerDistance
<1> QED
  BY <1>1, <1>2

\* The remainder of a difference is the difference that is less than half a turn.
LEMMA WithinHalf ==
  ASSUME NEW z \in Int, NEW v \in Int, NEW far \in Int, 2 * far < FullTurn,
         Between(-far, z + v * FullTurn, far)
  PROVE  Size(IF 2 * (z % FullTurn) > FullTurn THEN (z % FullTurn) - FullTurn
              ELSE z % FullTurn) \in 0 .. far
<1> DEFINE e == z % FullTurn
           y == z + v * FullTurn
<1>1. PICK u \in Int : z = e + u * FullTurn
  <2>1. z = e + (z \div FullTurn) * FullTurn /\ z \div FullTurn \in Int
    BY SMT DEF FullTurn
  <2> QED
    BY <2>1
<1>2. e \in Int /\ 0 <= e /\ e < FullTurn
  BY SMT DEF FullTurn
<1> HIDE DEF e
<1>3. y = e + (u + v) * FullTurn /\ y \in Int
  BY <1>1, <1>2, SMT DEF FullTurn
<1>4. -far <= y /\ y <= far
  BY DEF Between
<1> HIDE DEF y
<1>5. PICK w \in Int : y = e + w * FullTurn
  BY <1>3
<1>6. IF 2 * e > FullTurn THEN y = e - FullTurn ELSE y = e
  BY <1>2, <1>3, <1>4, <1>5, SMT DEF FullTurn
<1>7. Size(IF 2 * e > FullTurn THEN e - FullTurn ELSE e) \in 0 .. far
  BY <1>3, <1>4, <1>6, SMT DEF Size
<1> QED
  BY <1>7 DEF e

\* What FarAt bounds is what Near allows.
LEMMA FarIsNear ==
  ASSUME NEW d \in InnerDistance,
         NEW y \in 0 .. FarAt(d)
  PROVE  (y \div 1000) * d <= 7500000 + 25 * d
  BY SMT DEF FarAt, InnerDistance

\* FarAt is less than half a turn.
LEMMA FarIsLess ==
  ASSUME NEW d \in InnerDistance
  PROVE  FarAt(d) \in Int /\ 2 * FarAt(d) < FullTurn
  BY SMT DEF FarAt, FullTurn, InnerDistance

\* Whatever the angle, an LED that is not at the outside lands on the grid, near
\* the place that the angle, and a right angle more, takes it to.
LEMMA InnerStaysNear ==
  ASSUME NEW a \in Int, NEW s \in Inner, InTable(a, s)
  PROVE  /\ NewSite(a, s) \in Site
         /\ Near(QuarterTurn + a, s, NewSite(a, s))
         /\ Size(DistanceTable[NewSite(a, s)[1] + 1][NewSite(a, s)[2] + 1]
                   - DistanceTable[s[1] + 1][s[2] + 1]) <= 7072
<1> DEFINE d == DistanceTable[s[1] + 1][s[2] + 1]
           as == AngleTable[s[1] + 1][s[2] + 1]
           n == NewAngle(a, s)
<1>1. s \in Site /\ d \in InnerDistance
  BY InnerDistances
<1>2. PICK k \in Entry : RoundsTo(n, k)
  BY <1>1, InTableRounds
<1>3. PICK c, p : NewSite(a, s) = <<c, p>> /\ Lands(d, k, c, p)
  <2>1. \E c, p : NewSite(a, s) = <<c, p>> /\ Lands(d, k, c, p)
    BY <1>1, <1>2, NewSiteLands, Zenon
  <2> QED
    BY <2>1
<1>4. n \in Int /\ as \in Int
  BY <1>1, NewAngleIs, SiteAngle, SiteIs
<1>5. LandsNear(d, n, c, p)
  <2>1. Lands(d, k, c, p)
    BY <1>3
  <2> HIDE DEF d, n
  <2> QED
    BY <1>1, <1>2, <1>4, <2>1, InnerLandNear
<1> DEFINE t == <<c, p>>
           at == AngleTable[c + 1][p + 1]
<1>6. c \in 0 .. 7 /\ p \in 0 .. 7 /\ t \in Site
  BY <1>5, SiteIs DEF LandsNear
<1>7. PICK turns \in {-1, 0, 1} :
        Between(-FarAt(d), Ahead(n, c, p, turns), FarAt(d))
  BY <1>5 DEF LandsNear
<1>8. PICK w \in {0, 1} : n = as + a - w * FullTurn
  BY <1>1, NewAngleIs
<1>9. at \in Int /\ turns \in Int /\ w \in Int
  BY <1>6, <1>7, <1>8, SiteAngle
<1> DEFINE z == at - as - (QuarterTurn + a)
<1> HIDE DEF at, as, n, d
<1>10. z \in Int /\ z + (turns + w) * FullTurn = at - n - QuarterTurn + turns * FullTurn
  BY <1>4, <1>8, <1>9, SMT DEF FullTurn, QuarterTurn
<1>11. Between(-FarAt(d), z + (turns + w) * FullTurn, FarAt(d))
  BY <1>7, <1>10 DEF Ahead, at
<1>12. Size(Apart(QuarterTurn + a, s, t)) \in 0 .. FarAt(d)
  <2> HIDE DEF z
  <2>1. Size(IF 2 * (z % FullTurn) > FullTurn THEN (z % FullTurn) - FullTurn
             ELSE z % FullTurn) \in 0 .. FarAt(d)
    BY <1>1, <1>9, <1>10, <1>11, WithinHalf, FarIsLess
  <2> QED
    BY <2>1 DEF Apart, z, at, as
<1>13. (Size(Apart(QuarterTurn + a, s, t)) \div 1000) * d <= 7500000 + 25 * d
  BY <1>1, <1>12, FarIsNear
<1>14. Size(DistanceTable[c + 1][p + 1] - d) <= 7072
  <2> DEFINE dt == DistanceTable[c + 1][p + 1]
  <2>1. dt \in Int /\ d \in Int
    BY <1>1, <1>6, SiteAngle, SiteIs, SMT DEF d
  <2>2. -7072 <= dt - d /\ dt - d <= 7072
    BY <1>5 DEF LandsNear, Between
  <2> HIDE DEF dt
  <2>3. Size(dt - d) <= 7072
    BY <2>1, <2>2, SMT DEF Size
  <2> QED
    BY <2>3 DEF dt
<1> QED
  BY <1>3, <1>6, <1>13, <1>14 DEF Near, d

-----------------------------------------------------------------------------
(* The angle the cube shows is one of the table, and the cube is the buffer  *)
(* turned by it.                                                             *)

\* What the arithmetic makes of an angle is what Turn has for it.
LEMMA TurnIsNewSite ==
  ASSUME NEW a \in Turns, NEW s \in Site
  PROVE  Turn[a][s] = NewSite(a, s)
  BY RotateAssumption

\* rotateCube is never called with a step of no degrees: the steps of a turn
\* are a number.
LEMMA LoopSteps ==
  ASSUME NEW l \in Loops
  PROVE  l[2] # 0 /\ StepsOf(l[1], l[2]) \in Nat \ {0}
<1>1. l[1] \in Nat /\ l[2] \in Int /\ l[2] # 0
  BY RotateAssumption
<1> DEFINE r == Radians(l[2])
           size == IF r < 0 THEN -r ELSE r
<1>2. size \in Nat /\ size > 0
  <2> DEFINE step == l[2]
  <2>1. step \in Int /\ r = (step * 174532 + 5) \div 10
    BY <1>1 DEF Radians
  <2>2. step > 0 \/ step < 0
    BY <1>1
  <2> HIDE DEF step, r
  <2>3. r \in Int /\ (r > 0 \/ r < 0)
    BY <2>1, <2>2
  <2> QED
    BY <2>3
<1> HIDE DEF size
<1>3. FullTurn \div size \in Nat
  BY <1>2, SMT DEF FullTurn
<1>4. (FullTurn \div size) * l[1] \in Nat
  BY <1>1, <1>3
<1>5. StepsOf(l[1], l[2]) = (FullTurn \div size) * l[1] + 1
  BY DEF StepsOf, size
<1> QED
  BY <1>1, <1>4, <1>5

\* The loop that runs and the frames it has shown.
Running(l) ==
  /\ loop[1] = l[2] /\ loop[2] \in 0 .. StepsOf(l[1], l[2])
  /\ myangle = LoopAngles[l][StepsOf(l[1], l[2]) - loop[2]]

\* The inductive invariant: the frames of a loop go through its angles, so that
\* what is shown is one of Turns, and every rotation is of the buffer.
RotateInv ==
  /\ shown = NoAngle \/ shown \in Turns
  /\ shown # NoAngle => cube = Rotated(buffer_cube, shown)
  /\ loop = NoLoop \/ \E l \in Loops : Running(l)

\* A frame of a loop takes the next of its angles.
LEMMA FrameRuns ==
  ASSUME RotateInv, Frame
  PROVE  myangle' \in Turns /\ \E l \in Loops : Running(l)'
<1>1. loop # NoLoop
  BY DEF Frame, NoLoop
<1>2. PICK l \in Loops : Running(l)
  BY <1>1 DEF RotateInv
<1> DEFINE steps == StepsOf(l[1], l[2])
           i == steps - loop[2]
<1>3. steps \in Nat /\ loop[2] \in 0 .. steps /\ loop[2] > 0
  BY <1>2, LoopSteps DEF Running, Frame
<1> HIDE DEF steps
<1>4. i \in Int /\ i + 1 \in 1 .. steps /\ i + 1 - 1 = i
      /\ loop[2] - 1 \in 0 .. steps /\ steps - (loop[2] - 1) = i + 1
  BY <1>3
<1>5. myangle = LoopAngles[l][i] /\ loop[1] = l[2]
  BY <1>2 DEF Running, steps
<1>6. /\ LoopAngles[l][i + 1] = NextAngle(LoopAngles[l][i], Radians(l[2]))
      /\ LoopAngles[l][i + 1] \in Turns
  BY <1>4, LoopAssumption DEF steps
<1>7. myangle' = LoopAngles[l][i + 1] /\ loop' = <<loop[1], loop[2] - 1>>
  BY <1>5, <1>6 DEF Frame
<1>8. Running(l)'
  BY <1>4, <1>5, <1>7 DEF Running, steps
<1> QED
  BY <1>6, <1>7, <1>8

\* Every step keeps the inductive invariant.
LEMMA RotateInvStep ==
  ASSUME RotateInv, [RotateNext]_rotateVars
  PROVE  RotateInv'
<1>1. CASE Show
  BY <1>1 DEF Show, RotateInv
<1>2. ASSUME NEW degrees \in Degrees, NEW buffer \in BOOLEAN,
             jim_cube_rotate(degrees, buffer)
      PROVE  RotateInv'
  <2>1. Radians(degrees) \in Turns
    BY RotateAssumption
  <2>2. cube' = Rotated(buffer_cube', Radians(degrees))
    BY <1>2 DEF jim_cube_rotate, cube_rotate
  <2>3. shown' = Radians(degrees) /\ loop = NoLoop /\ loop' = loop
    BY <1>2 DEF jim_cube_rotate
  <2> QED
    BY <2>1, <2>2, <2>3 DEF RotateInv
<1>3. ASSUME NEW l \in Loops, rotateCube(l[1], l[2])
      PROVE  RotateInv'
  <2> DEFINE steps == StepsOf(l[1], l[2])
  <2>1. steps \in Nat
    BY LoopSteps
  <2>2. loop' = <<l[2], steps>> /\ myangle' = 0
    BY <1>3 DEF rotateCube
  <2>3. LoopAngles[l][0] = 0
    BY LoopAssumption
  <2>4. loop'[1] = l[2] /\ loop'[2] = steps
    BY <2>2
  <2> HIDE DEF steps
  <2>5. steps \in 0 .. steps /\ steps - steps = 0
    BY <2>1
  <2>6. Running(l)'
    BY <2>2, <2>3, <2>4, <2>5 DEF Running, steps
  <2>7. UNCHANGED <<cube, buffer_cube, shown>>
    BY <1>3 DEF rotateCube, drawVars
  <2> QED
    BY <2>6, <2>7 DEF RotateInv
<1>4. CASE Frame
  <2>1. myangle' \in Turns /\ \E l \in Loops : Running(l)'
    BY <1>4, FrameRuns
  <2>2. cube' = Rotated(buffer_cube', shown') /\ shown' = myangle'
    BY <1>4 DEF Frame, cube_rotate
  <2> QED
    BY <2>1, <2>2 DEF RotateInv
<1>5. CASE LoopEnds
  BY <1>5 DEF LoopEnds, RotateInv
<1>6. CASE UNCHANGED rotateVars
  BY <1>6 DEF rotateVars, drawVars, RotateInv, Running
<1> QED
  BY <1>1, <1>2, <1>3, <1>4, <1>5, <1>6 DEF RotateNext

\* In every reachable state the cube is the buffer turned by the angle shown.
LEMMA RotateInvCorrect == RotateSpec => []RotateInv
<1>1. RotateInit => RotateInv
  BY DEF RotateInit, RotateInv
<1>2. RotateInv /\ [RotateNext]_rotateVars => RotateInv'
  BY RotateInvStep
<1> QED
  BY <1>1, <1>2, PTL DEF RotateSpec

\* What Rotated takes from an image: the LED drawn last on a position.
LEMMA RotatedFrom ==
  ASSUME NEW a \in Turns, NEW img, NEW q \in Pos, Landing(a, q) # {}
  PROVE  \E s \in Landing(a, q) : Rotated(img, a)[q] = img[<<s[1], s[2], q[3]>>]
<1> DEFINE s == CHOOSE s \in Landing(a, q) :
                  \A r \in Landing(a, q) : DrawnAfter(s, r)
<1>1. \E r \in Landing(a, q) : \A t \in Landing(a, q) : DrawnAfter(r, t)
  BY LastLandingExists DEF Landing
<1>2. s \in Landing(a, q)
  BY <1>1
<1>3. Rotated(img, a)[q] = img[<<s[1], s[2], q[3]>>]
  BY DEF Rotated
<1> HIDE DEF s
<1> QED
  BY <1>2, <1>3

\* The LEDs that land on a position, by the arithmetic.
LEMMA LandingIs ==
  ASSUME NEW a \in Turns, NEW q
  PROVE  Landing(a, q) = {s \in Site : NewSite(a, s) = <<q[1], q[2]>>}
  BY TurnIsNewSite DEF Landing, Site

\* An LED that lands where no other one does is shown there.
LEMMA OneLands ==
  ASSUME NEW a \in Turns, NEW img, NEW q \in Pos, NEW t \in Site,
         \A s \in Site : NewSite(a, s) = t <=> s = <<q[1], q[2]>>
  PROVE  Rotated(img, a)[<<t[1], t[2], q[3]>>] = img[q]
<1> DEFINE to == <<t[1], t[2], q[3]>>
           from == <<q[1], q[2]>>
<1>1. /\ q = <<q[1], q[2], q[3]>> /\ from \in Site /\ to \in Pos
      /\ t = <<t[1], t[2]>> /\ to[1] = t[1] /\ to[2] = t[2] /\ to[3] = q[3]
      /\ from[1] = q[1] /\ from[2] = q[2]
  BY DEF Pos, Site
<1>2. Landing(a, to) = {from}
  BY <1>1, LandingIs
<1>3. \E s \in Landing(a, to) : Rotated(img, a)[to] = img[<<s[1], s[2], to[3]>>]
  BY <1>1, <1>2, RotatedFrom
<1> QED
  BY <1>1, <1>2, <1>3

\* A quarter turn of the grid takes no two of its LEDs to one.
LEMMA QuarterOneToOne ==
  ASSUME NEW s \in Site, NEW r \in Site, Quarter(s) = Quarter(r)
  PROVE  s = r
<1>1. /\ s[1] \in 0 .. 7 /\ s = <<s[1], s[2]>>
      /\ r[1] \in 0 .. 7 /\ r = <<r[1], r[2]>>
  BY SiteIs
<1>2. s[2] = r[2] /\ 7 - s[1] = 7 - r[1]
  BY DEF Quarter
<1>3. s[1] = r[1]
  BY <1>1, <1>2
<1> QED
  BY <1>1, <1>2, <1>3

\* Where the right angles take an LED is where RightTurn says, and nothing else
\* gets there.
LEMMA RightTurns ==
  ASSUME NEW n \in 0 .. 4, NEW q \in Pos
  PROVE  \E t \in Site :
           /\ RightTurn(n + 1, q) = <<t[1], t[2], q[3]>>
           /\ \A s \in Site : NewSite(Radians(90 * n), s) = t <=> s = <<q[1], q[2]>>
<1> DEFINE s0 == <<q[1], q[2]>>
           s1 == Quarter(s0)
           s2 == Quarter(s1)
           s3 == Quarter(s2)
<1>1. s0 \in Site /\ q = <<q[1], q[2], q[3]>> /\ s0[1] = q[1] /\ s0[2] = q[2]
  BY DEF Pos, Site
<1>2. \A s \in Site : Quarter(s) \in Site
  BY QuarterSite
<1>3. \A s \in Site :
        /\ Quarter(s) = s1 <=> s = s0
        /\ Quarter(Quarter(s)) = s2 <=> s = s0
        /\ Quarter(Quarter(Quarter(s))) = s3 <=> s = s0
  BY <1>1, <1>2, QuarterOneToOne
<1>4. /\ s1 = <<q[2], 7 - q[1]>>
      /\ s2 = <<7 - q[1], 7 - q[2]>>
      /\ s3 = <<7 - q[2], q[1]>>
  <2>1. q[1] \in 0 .. 7 /\ q[2] \in 0 .. 7
    BY <1>1, SiteIs
  <2>2. 7 - (7 - q[1]) = q[1]
    BY <2>1
  <2> QED
    BY <2>2 DEF Quarter
<1>5. /\ RightTurn(0 + 1, q) = <<s1[1], s1[2], q[3]>>
      /\ RightTurn(1 + 1, q) = <<s2[1], s2[2], q[3]>>
      /\ RightTurn(2 + 1, q) = <<s3[1], s3[2], q[3]>>
      /\ RightTurn(3 + 1, q) = <<s0[1], s0[2], q[3]>>
      /\ RightTurn(4 + 1, q) = <<s1[1], s1[2], q[3]>>
  <2> HIDE DEF s0, s1, s2, s3
  <2>1. (0 + 1) % 4 = 1 /\ (1 + 1) % 4 = 2 /\ (2 + 1) % 4 = 3 /\ (3 + 1) % 4 = 0
        /\ (4 + 1) % 4 = 1
    OBVIOUS
  <2> QED
    BY <1>1, <1>4, <2>1 DEF RightTurn
<1> HIDE DEF s1, s2, s3
<1>6. \A s \in Site :
        /\ NewSite(Radians(90 * 0), s) = s1 <=> s = s0
        /\ NewSite(Radians(90 * 1), s) = s2 <=> s = s0
        /\ NewSite(Radians(90 * 2), s) = s3 <=> s = s0
        /\ NewSite(Radians(90 * 3), s) = s0 <=> s = s0
        /\ NewSite(Radians(90 * 4), s) = s1 <=> s = s0
  BY <1>3, RightLands
<1>7. s1 \in Site /\ s2 \in Site /\ s3 \in Site
  BY <1>1, <1>2 DEF s1, s2, s3
<1>8. n = 0 \/ n = 1 \/ n = 2 \/ n = 3 \/ n = 4
  OBVIOUS
<1> QED
  BY <1>1, <1>5, <1>6, <1>7, <1>8

-----------------------------------------------------------------------------
\* Right angles add up.
LEMMA RightTurnsAdd ==
  ASSUME NEW q \in Pos, NEW k \in Int, NEW j \in Int
  PROVE  RightTurn(j, q) \in Pos /\ RightTurn(k, RightTurn(j, q)) = RightTurn(k + j, q)
<1>1. q[1] \in 0 .. 7 /\ q[2] \in 0 .. 7 /\ q = <<q[1], q[2], q[3]>>
  BY RotateAssumption DEF Pos, Col, Panel
<1> DEFINE Turned(n) ==
      CASE n = 0 -> q
        [] n = 1 -> <<q[2], 7 - q[1], q[3]>>
        [] n = 2 -> <<7 - q[1], 7 - q[2], q[3]>>
        [] n = 3 -> <<7 - q[2], q[1], q[3]>>
<1>2. \A n \in Int : n % 4 \in {0, 1, 2, 3} /\ RightTurn(n, q) = Turned(n % 4)
  BY DEF RightTurn
<1>3. \A n \in {0, 1, 2, 3} : Turned(n) \in Pos
  BY <1>1, RotateAssumption DEF Pos, Col, Panel
<1>4. 7 - (7 - q[1]) = q[1] /\ 7 - (7 - q[2]) = q[2]
  BY <1>1
<1>5. /\ RightTurn(k, Turned(0)) = Turned(k % 4)
      /\ RightTurn(k, Turned(1)) = Turned((k + 1) % 4)
      /\ RightTurn(k, Turned(2)) = Turned((k + 2) % 4)
      /\ RightTurn(k, Turned(3)) = Turned((k + 3) % 4)
  <2>1. k % 4 = 0 \/ k % 4 = 1 \/ k % 4 = 2 \/ k % 4 = 3
    OBVIOUS
  <2>2. CASE k % 4 = 0
    <3>1. (k + 1) % 4 = 1 /\ (k + 2) % 4 = 2 /\ (k + 3) % 4 = 3
      BY <2>2
    <3> QED
      BY <1>4, <2>2, <3>1 DEF RightTurn
  <2>3. CASE k % 4 = 1
    <3>1. (k + 1) % 4 = 2 /\ (k + 2) % 4 = 3 /\ (k + 3) % 4 = 0
      BY <2>3
    <3> QED
      BY <1>1, <1>4, <2>3, <3>1 DEF RightTurn
  <2>4. CASE k % 4 = 2
    <3>1. (k + 1) % 4 = 3 /\ (k + 2) % 4 = 0 /\ (k + 3) % 4 = 1
      BY <2>4
    <3> QED
      BY <1>1, <1>4, <2>4, <3>1 DEF RightTurn
  <2>5. CASE k % 4 = 3
    <3>1. (k + 1) % 4 = 0 /\ (k + 2) % 4 = 1 /\ (k + 3) % 4 = 2
      BY <2>5
    <3> QED
      BY <1>1, <1>4, <2>5, <3>1 DEF RightTurn
  <2> QED
    BY <2>1, <2>2, <2>3, <2>4, <2>5
<1>6. (k + j) % 4 = (k + (j % 4)) % 4 /\ k + 0 = k
  OBVIOUS
<1>7. j % 4 = 0 \/ j % 4 = 1 \/ j % 4 = 2 \/ j % 4 = 3
  OBVIOUS
<1>8. k + j \in Int /\ RightTurn(k + j, q) = Turned((k + j) % 4)
      /\ RightTurn(j, q) = Turned(j % 4)
  BY <1>2
<1> HIDE DEF Turned
<1>9. RightTurn(k, Turned(j % 4)) = Turned((k + (j % 4)) % 4)
  BY <1>5, <1>6, <1>7
<1> QED
  BY <1>2, <1>3, <1>6, <1>8, <1>9

\* A rotation by a right angle takes each LED of an image to the place that angle
\* and one more right angle take it to.
LEMMA RightAngleRotates ==
  ASSUME NEW a \in Turns, NEW n \in 0 .. 4, a = Radians(90 * n), NEW img, NEW q \in Pos
  PROVE  Rotated(img, a)[RightTurn(n + 1, q)] = img[q]
<1>1. PICK t \in Site :
        /\ RightTurn(n + 1, q) = <<t[1], t[2], q[3]>>
        /\ \A s \in Site : NewSite(a, s) = t <=> s = <<q[1], q[2]>>
  BY RightTurns
<1> QED
  BY <1>1, OneLands

\* An angle that is shown is no mark for none.
LEMMA RightAngleIsShown ==
  ASSUME NEW n \in 0 .. 4
  PROVE  Radians(90 * n) # NoAngle
<1>1. n = 0 \/ n = 1 \/ n = 2 \/ n = 3 \/ n = 4
  OBVIOUS
<1> QED
  BY <1>1, RightAngles, SMT DEF NoAngle, FullTurn

\* A rotation by a right angle shows the whole buffer, turned by some right angle,
\* and turns what an earlier one of the same buffer has shown by the difference.
THEOREM RightAnglesCorrect == RotateSpec => RightAnglesExact
<1>1. ASSUME RotateInv, RotateInv', NEW m \in 0 .. 4, shown' = Radians(90 * m)
      PROVE  /\ \E k \in 0 .. 3 :
                  \A q \in Pos : cube'[RightTurn(k, q)] = buffer_cube'[q]
             /\ \A n \in 0 .. 4 :
                  shown = Radians(90 * n) /\ UNCHANGED buffer_cube =>
                    \A q \in Pos : cube'[RightTurn(m - n, q)] = cube[q]
  <2>1. \A q \in Pos : cube'[RightTurn(m + 1, q)] = buffer_cube'[q]
    <3>1. shown' \in Turns /\ cube' = Rotated(buffer_cube', shown')
      BY <1>1, RightAngleIsShown DEF RotateInv
    <3> QED
      BY <1>1, <3>1, RightAngleRotates
  <2>2. (m + 1) % 4 \in 0 .. 3
        /\ \A q \in Pos : RightTurn((m + 1) % 4, q) = RightTurn(m + 1, q)
    <3>1. ((m + 1) % 4) % 4 = (m + 1) % 4 /\ (m + 1) % 4 \in 0 .. 3
      OBVIOUS
    <3> QED
      BY <3>1 DEF RightTurn
  <2>3. ASSUME NEW n \in 0 .. 4, shown = Radians(90 * n), UNCHANGED buffer_cube,
               NEW q \in Pos
        PROVE  cube'[RightTurn(m - n, q)] = cube[q]
    <3> DEFINE from == RightTurn(3 - n, q)
    <3>1. from \in Pos /\ RightTurn(n + 1, from) = RightTurn((n + 1) + (3 - n), q)
          /\ RightTurn(m + 1, from) = RightTurn((m + 1) + (3 - n), q)
      <4>1. n + 1 \in Int /\ m + 1 \in Int /\ 3 - n \in Int
        OBVIOUS
      <4> QED
        BY <4>1, RightTurnsAdd
    <3>2. RightTurn((n + 1) + (3 - n), q) = q
      <4>1. ((n + 1) + (3 - n)) % 4 = 0
        OBVIOUS
      <4> QED
        BY <4>1 DEF RightTurn
    <3>3. RightTurn((m + 1) + (3 - n), q) = RightTurn(m - n, q)
      <4>1. ((m + 1) + (3 - n)) % 4 = (m - n) % 4
        OBVIOUS
      <4> QED
        BY <4>1 DEF RightTurn
    <3> HIDE DEF from
    <3>4. cube[q] = buffer_cube[from]
      <4>1. shown \in Turns /\ cube = Rotated(buffer_cube, shown)
        BY <1>1, <2>3, RightAngleIsShown DEF RotateInv
      <4> QED
        BY <2>3, <3>1, <3>2, <4>1, RightAngleRotates
    <3>5. cube'[RightTurn(m - n, q)] = buffer_cube'[from]
      BY <2>1, <3>1, <3>3
    <3> QED
      BY <2>3, <3>4, <3>5
  <2> QED
    BY <2>1, <2>2, <2>3
<1>2. RotateInv /\ RotateInv' =>
        [\A m \in 0 .. 4 : shown' = Radians(90 * m) =>
          /\ \E k \in 0 .. 3 :
               \A q \in Pos : cube'[RightTurn(k, q)] = buffer_cube'[q]
          /\ \A n \in 0 .. 4 :
               shown = Radians(90 * n) /\ UNCHANGED buffer_cube =>
                 \A q \in Pos : cube'[RightTurn(m - n, q)] = cube[q]]_rotateVars
  BY <1>1
<1> QED
  BY <1>2, RotateInvCorrect, PTL DEF RightAnglesExact

\* In every reachable state, whatever angles the rotations were asked for, an LED
\* that is not at the outside is on the grid, at its distance from the axis, and
\* nothing shines but what an LED that lands there has.
THEOREM ShownCorrect == RotateSpec => []ShownTurned
<1>1. ASSUME RotateInv, shown # NoAngle
      PROVE  /\ \A s \in Inner : InTable(shown, s) =>
                  /\ NewSite(shown, s) \in Site
                  /\ Size(DistanceTable[NewSite(shown, s)[1] + 1]
                                       [NewSite(shown, s)[2] + 1]
                            - DistanceTable[s[1] + 1][s[2] + 1]) <= 7072
             /\ \A q \in Pos : cube[q] # Black =>
                  \E s \in Site : /\ NewSite(shown, s) = <<q[1], q[2]>>
                                  /\ buffer_cube[<<s[1], s[2], q[3]>>] = cube[q]
  <2>1. shown \in Turns /\ cube = Rotated(buffer_cube, shown)
    BY <1>1 DEF RotateInv
  <2>2. shown \in Int
    BY <2>1, RotateAssumption
  <2>3. ASSUME NEW q \in Pos, cube[q] # Black
        PROVE  \E s \in Site : /\ NewSite(shown, s) = <<q[1], q[2]>>
                               /\ buffer_cube[<<s[1], s[2], q[3]>>] = cube[q]
    <3>1. Landing(shown, q) # {}
      BY <2>1, <2>3 DEF Rotated
    <3>2. \E s \in Landing(shown, q) :
            Rotated(buffer_cube, shown)[q] = buffer_cube[<<s[1], s[2], q[3]>>]
      BY <2>1, <3>1, RotatedFrom
    <3> QED
      BY <2>1, <3>2, LandingIs
  <2> QED
    BY <2>2, <2>3, InnerStaysNear
<1>2. RotateInv => ShownTurned
  BY <1>1 DEF ShownTurned
<1> QED
  BY <1>2, RotateInvCorrect, PTL

\* From one rotation to the next every LED that is not at the outside goes on by
\* the difference of their angles: both are counted from one zero.
THEOREM TurnsCorrect == RotateSpec => TurnsFromOneZero
<1>1. ASSUME RotateInv, RotateInv', shown # NoAngle, shown' # NoAngle
      PROVE  \E zero \in RightAngle : \A a \in {shown, shown'}, s \in Inner :
               InTable(a, s) => Near(zero + a, s, NewSite(a, s))
  <2>1. shown \in Int /\ shown' \in Int
    BY <1>1, RotateAssumption DEF RotateInv
  <2>2. \A a \in {shown, shown'}, s \in Inner :
          InTable(a, s) => Near(QuarterTurn + a, s, NewSite(a, s))
    BY <2>1, InnerStaysNear
  <2>3. QuarterTurn \in RightAngle
    BY DEF RightAngle
  <2> QED
    BY <2>2, <2>3
<1>2. RotateInv /\ RotateInv' =>
        [shown # NoAngle /\ shown' # NoAngle =>
           \E zero \in RightAngle : \A a \in {shown, shown'}, s \in Inner :
             InTable(a, s) => Near(zero + a, s, NewSite(a, s))]_rotateVars
  BY <1>1
<1> QED
  BY <1>2, RotateInvCorrect, PTL DEF TurnsFromOneZero
=============================================================================
