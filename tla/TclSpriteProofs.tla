--------------------------- MODULE TclSpriteProofs ---------------------------
(***************************************************************************)
(* Proofs about the sprite in Tcl, for a cube, sprites, pictures, places   *)
(* and motions of any size, and lines of any length that follow.           *)
(*                                                                         *)
(* Of what is lit: a line is put together so that every cube.begin is      *)
(* followed by a whole block (a command for every cell, then cube.commit)  *)
(* and every movement by nothing but movements since a block that hides    *)
(* the sprite; and each command keeps what the part of the line still to   *)
(* be done says of the cube and of its buffer.                             *)
(*                                                                         *)
(* Of what bounce, roll and rotate do: such a line follows a plan, which   *)
(* says what may be at each place of it; how many commands have been done  *)
(* says what has become of the sprite so far.                              *)
(***************************************************************************)
EXTENDS TclSprite, CubeDrawProofs, SequenceTheorems

-----------------------------------------------------------------------------
(* What is said of the lines.                                              *)

Beginnings == {"begin", "begin -copy"}
\* The commands there are, S being the cells of the sprite.
LineCommand(S) ==
  [do : Beginnings \cup {"open", "commit", "clear"}, args : {<<>>}]
  \cup [do : {"led", "hide"}, args : S]
  \cup [do : {"incr", "turnlow", "turnhigh"}, args : {<<1>>, <<2>>, <<3>>}]
  \cup [do : {"steer"}, args : Axis \X {0, 1}]
  \cup [do : {"lset"}, args : Int \X Int \X Int \X Colour]

\* Commands low to high of a line: all of one name; one for every cell.
AllOf(s, names, low, high) == \A j \in low .. high : s[j].do \in names
Covers(s, S, name, low, high) ==
  \A c \in S : \E j \in low .. high : s[j] = [do |-> name, args |-> c]
\* A block: commands low to k do one thing to every cell, and commit it.
Whole(s, S, name, low, k) ==
  /\ k \in low .. Len(s) /\ s[k].do = "commit"
  /\ AllOf(s, {name}, low, k - 1) /\ Covers(s, S, name, low, k - 1)

\* A block follows every cube.begin that is not the last command; nothing but
\* commands of a block are before those of a block; cube.begin is never half
\* done but at the start of what is left of a line.
Formed(s, S) ==
  /\ \A n \in 2 .. Len(s) : s[n].do # "open"
  /\ \A n \in 2 .. Len(s) : s[n].do \in {"led", "hide", "commit"} =>
       s[n-1].do \in Beginnings \cup {"open", "led", "hide"}
  /\ \A n \in 1 .. Len(s) - 1 : s[n].do \in Beginnings =>
       \E name \in {"led", "hide"} : \E k \in 1 .. Len(s) : Whole(s, S, name, n + 1, k)

\* Between command n, which moves the sprite, and the block that hides it are
\* movements only; what is before that block steers.
HiddenBefore(s, S, n) ==
  \E b \in 1 .. n : \E k \in b + 1 .. n - 1 :
    /\ AllOf(s, {"steer"}, 1, b - 1) /\ s[b].do = "begin -copy"
    /\ Whole(s, S, "hide", b + 1, k)
    /\ AllOf(s, {"incr"}, k + 1, n)
AllHidden(s, S) ==
  \A n \in 1 .. Len(s) : s[n].do = "incr" => HiddenBefore(s, S, n)
Without(s, names) == \A n \in 1 .. Len(s) : s[n].do \notin names

\* What lines are joined of.
Line(s, S) ==
  /\ s \in Seq(LineCommand(S)) /\ Len(s) \in Nat \ {0}
  /\ s[1].do \notin {"open", "led", "hide", "commit"}
  /\ s[Len(s)].do \notin Beginnings
  /\ Formed(s, S)

\* The cells, in the order they are drawn in.
N == Cardinality(Cells(size))
CellNo(n) == SetToSeq(Cells(size))[n]

-----------------------------------------------------------------------------
(* The lines.                                                              *)

\* A sprite has finitely many cells.
LEMMA CellsAreFinite ==
  ASSUME size \in Sizes
  PROVE  IsFiniteSet(Cells(size))
<1> DEFINE A == 0 .. size[1] - 1
           B == 0 .. size[2] - 1
           C == 0 .. size[3] - 1
           f == [p \in (A \X B) \X C |-> <<p[1][1], p[1][2], p[2]>>]
<1>1. size[1] \in Int /\ size[2] \in Int /\ size[3] \in Int
  BY TclAssumption DEF Axis
<1>2. IsFiniteSet(A) /\ IsFiniteSet(B) /\ IsFiniteSet(C)
  BY <1>1, FS_Interval
<1>3. IsFiniteSet((A \X B) \X C)
  BY <1>2, FS_Product
<1>4. f \in Surjection((A \X B) \X C, A \X B \X C)
  <2>1. f \in [(A \X B) \X C -> A \X B \X C]
    OBVIOUS
  <2>2. ASSUME NEW c \in A \X B \X C
        PROVE  \E p \in (A \X B) \X C : f[p] = c
    <3>1. <<<<c[1], c[2]>>, c[3]>> \in (A \X B) \X C
      OBVIOUS
    <3>2. f[<<<<c[1], c[2]>>, c[3]>>] = c
      BY <3>1
    <3> QED
      BY <3>1, <3>2
  <2> QED
    BY <2>1, <2>2 DEF Surjection
<1> HIDE DEF f
<1>5. IsFiniteSet(A \X B \X C)
  BY <1>3, <1>4, FS_Surjection
<1> QED
  BY <1>5 DEF Cells

\* The cells are numbered: foreach over them does each of them once.
LEMMA CellsInOrder ==
  ASSUME size \in Sizes
  PROVE  /\ N \in Nat \ {0}
         /\ \A n \in 1 .. N : CellNo(n) \in Cells(size)
         /\ \A c \in Cells(size) : \E n \in 1 .. N : CellNo(n) = c
         /\ \A m, n \in 1 .. N : CellNo(m) = CellNo(n) => m = n
<1> DEFINE S == Cells(size)
           F == SetToSeq(S)
<1>1. IsFiniteSet(S)
  BY CellsAreFinite
<1>2. N \in Nat /\ ExistsBijection(1 .. N, S)
  BY <1>1, FS_CardinalityType DEF N
<1>3. \E f \in [1 .. N -> S] : IsInjective(f)
  BY <1>2 DEF ExistsBijection, Bijection, Injection
<1>4. F \in [1 .. N -> S] /\ IsInjective(F)
  BY <1>3 DEF SetToSeq, N
<1>5. F \in Injection(1 .. N, S)
  BY <1>4 DEF Injection
<1>6. Cardinality(1 .. N) = N
  BY <1>2, FS_Interval
<1>7. F \in Surjection(1 .. N, S)
  BY <1>1, <1>5, <1>6, FS_Injection DEF N
<1>8. \A n \in 1 .. N : CellNo(n) = F[n] /\ F[n] \in S
  BY <1>4 DEF CellNo
<1>9. \A c \in S : \E n \in 1 .. N : F[n] = c
  BY <1>7 DEF Surjection
<1>10. \A m, n \in 1 .. N : F[m] = F[n] => m = n
  BY <1>4 DEF IsInjective
<1>11. N # 0
  <2>1. size[1] \in 1 .. Side /\ size[2] \in 1 .. Side /\ size[3] \in 1 .. Side /\ Side \in Nat
    BY TclAssumption DEF Axis
  <2>2. <<0, 0, 0>> \in S
    BY <2>1 DEF Cells
  <2> QED
    BY <1>9, <2>2
<1> QED
  BY <1>2, <1>8, <1>9, <1>10, <1>11

\* Two sequences joined, command by command.
LEMMA Joined ==
  ASSUME NEW L, NEW s \in Seq(L), NEW t \in Seq(L)
  PROVE  /\ s \o t \in Seq(L)
         /\ Len(s \o t) = Len(s) + Len(t)
         /\ \A n \in 1 .. Len(s) : (s \o t)[n] = s[n]
         /\ \A n \in 1 .. Len(t) : (s \o t)[Len(s) + n] = t[n]
<1>1. Len(s) \in Nat /\ Len(t) \in Nat
  OBVIOUS
<1>2. /\ s \o t \in Seq(L)
      /\ Len(s \o t) = Len(s) + Len(t)
      /\ \A i \in 1 .. Len(s) + Len(t) :
           (s \o t)[i] = IF i <= Len(s) THEN s[i] ELSE t[i - Len(s)]
  BY ConcatProperties
<1> QED
  BY <1>1, <1>2

\* A line after a line is a line.
LEMMA LineJoin ==
  ASSUME NEW S, NEW s, NEW t, Line(s, S), Line(t, S)
  PROVE  Line(s \o t, S)
<1> DEFINE L == LineCommand(S)
           u == s \o t
<1>1. /\ s \in Seq(L) /\ Len(s) \in Nat \ {0} /\ t \in Seq(L) /\ Len(t) \in Nat \ {0}
      /\ s[1].do \notin {"open", "led", "hide", "commit"}
      /\ t[1].do \notin {"open", "led", "hide", "commit"}
      /\ s[Len(s)].do \notin Beginnings /\ t[Len(t)].do \notin Beginnings
  BY DEF Line
<1>2. /\ u \in Seq(L) /\ Len(u) = Len(s) + Len(t)
      /\ \A n \in 1 .. Len(s) : u[n] = s[n]
      /\ \A n \in 1 .. Len(t) : u[Len(s) + n] = t[n]
  BY <1>1, Joined DEF Line
<1> HIDE DEF u
<1>3. \A n \in 2 .. Len(u) : \/ n \in 2 .. Len(s)
                             \/ n = Len(s) + 1
                             \/ \E m \in 2 .. Len(t) : n = Len(s) + m
  <2> TAKE n \in 2 .. Len(u)
  <2>1. CASE n <= Len(s) + 1
    BY <1>1, <1>2, <2>1
  <2>2. CASE n > Len(s) + 1
    <3>1. n - Len(s) \in 2 .. Len(t) /\ n = Len(s) + (n - Len(s))
      BY <1>1, <1>2, <2>2
    <3> QED
      BY <3>1
  <2> QED
    BY <1>1, <1>2, <2>1, <2>2
<1>4. ASSUME NEW n \in 2 .. Len(u)
      PROVE  /\ u[n].do # "open"
             /\ u[n].do \in {"led", "hide", "commit"} =>
                  u[n-1].do \in Beginnings \cup {"open", "led", "hide"}
  <2>1. CASE n \in 2 .. Len(s)
    <3>1. u[n] = s[n] /\ u[n-1] = s[n-1]
      BY <1>1, <1>2, <2>1
    <3> QED
      BY <2>1, <3>1 DEF Line, Formed
  <2>2. CASE n = Len(s) + 1
    BY <1>1, <1>2, <2>2
  <2>3. ASSUME NEW m \in 2 .. Len(t), n = Len(s) + m
        PROVE  /\ u[n].do # "open"
               /\ u[n].do \in {"led", "hide", "commit"} =>
                    u[n-1].do \in Beginnings \cup {"open", "led", "hide"}
    <3>1. m \in 1 .. Len(t) /\ m - 1 \in 1 .. Len(t) /\ n - 1 = Len(s) + (m - 1)
      BY <1>1, <2>3
    <3>2. u[n] = t[m] /\ u[n-1] = t[m-1]
      BY <1>2, <2>3, <3>1
    <3> QED
      BY <3>2 DEF Line, Formed
  <2> QED
    BY <1>3, <2>1, <2>2, <2>3
<1>5. ASSUME NEW n \in 1 .. Len(u) - 1, u[n].do \in Beginnings
      PROVE  \E name \in {"led", "hide"} : \E k \in 1 .. Len(u) :
               Whole(u, S, name, n + 1, k)
  <2>1. CASE n \in 1 .. Len(s)
    <3>1. n \in 1 .. Len(s) - 1 /\ s[n].do \in Beginnings
      BY <1>1, <1>2, <1>5, <2>1
    <3>2. PICK name \in {"led", "hide"}, k \in 1 .. Len(s) : Whole(s, S, name, n + 1, k)
      BY <3>1 DEF Line, Formed
    <3>3. \A j \in n + 1 .. k : j \in 1 .. Len(s) /\ u[j] = s[j]
      BY <1>1, <1>2, <2>1
    <3>4. k \in n + 1 .. Len(u) /\ k \in 1 .. Len(u) /\ k \in n + 1 .. k
      BY <1>1, <1>2, <2>1, <3>2 DEF Whole
    <3>5. \A j \in n + 1 .. k - 1 : j \in n + 1 .. k
      BY <3>4
    <3>6. Whole(u, S, name, n + 1, k)
      BY <3>2, <3>3, <3>4, <3>5 DEF Whole, AllOf, Covers
    <3> QED
      BY <3>4, <3>6
  <2>2. CASE n \notin 1 .. Len(s)
    <3> DEFINE m == n - Len(s)
    <3>1. m \in 1 .. Len(t) - 1 /\ n = Len(s) + m
      BY <1>1, <1>2, <2>2
    <3>2. t[m].do \in Beginnings
      BY <1>1, <1>2, <1>5, <3>1
    <3>3. PICK name \in {"led", "hide"}, k \in 1 .. Len(t) : Whole(t, S, name, m + 1, k)
      BY <3>1, <3>2 DEF Line, Formed
    <3>4. /\ Len(s) + k \in n + 1 .. Len(u) /\ Len(s) + k \in 1 .. Len(u)
          /\ u[Len(s) + k] = t[k]
      BY <1>1, <1>2, <3>1, <3>3 DEF Whole
    <3>5. \A j \in n + 1 .. Len(s) + k - 1 :
            j - Len(s) \in m + 1 .. k - 1 /\ u[j] = t[j - Len(s)]
      <4> TAKE j \in n + 1 .. Len(s) + k - 1
      <4>1. j - Len(s) \in m + 1 .. k - 1 /\ j - Len(s) \in 1 .. Len(t)
        BY <1>1, <3>1
      <4>2. j = Len(s) + (j - Len(s))
        BY <1>1
      <4> QED
        BY <1>2, <4>1, <4>2
    <3>6. \A j \in m + 1 .. k - 1 :
            Len(s) + j \in n + 1 .. Len(s) + k - 1 /\ u[Len(s) + j] = t[j]
      <4> TAKE j \in m + 1 .. k - 1
      <4>1. Len(s) + j \in n + 1 .. Len(s) + k - 1 /\ j \in 1 .. Len(t)
        BY <1>1, <3>1
      <4> QED
        BY <1>2, <4>1
    <3>7. Whole(u, S, name, n + 1, Len(s) + k)
      BY <3>3, <3>4, <3>5, <3>6 DEF Whole, AllOf, Covers
    <3> QED
      BY <3>4, <3>7
  <2> QED
    BY <2>1, <2>2
<1>6. u[1].do = s[1].do /\ u[Len(u)].do = t[Len(t)].do
  <2>1. 1 \in 1 .. Len(s) /\ Len(t) \in 1 .. Len(t) /\ Len(u) = Len(s) + Len(t)
    BY <1>1, <1>2
  <2> QED
    BY <1>2, <2>1
<1>7. Formed(u, S)
  BY <1>4, <1>5 DEF Formed
<1> QED
  BY <1>1, <1>2, <1>6, <1>7 DEF Line, u

\* What follows a movement does not change that the sprite was hidden.
LEMMA HiddenJoin ==
  ASSUME NEW S, NEW s, NEW t, Line(s, S), Line(t, S),
         AllHidden(s, S), Without(t, {"incr"})
  PROVE  AllHidden(s \o t, S)
<1> DEFINE u == s \o t
<1>1. /\ Len(s) \in Nat /\ Len(t) \in Nat /\ Len(u) = Len(s) + Len(t)
      /\ \A n \in 1 .. Len(s) : u[n] = s[n]
      /\ \A n \in 1 .. Len(t) : u[Len(s) + n] = t[n]
  BY Joined DEF Line
<1> HIDE DEF u
<1>2. ASSUME NEW n \in 1 .. Len(u), u[n].do = "incr"
      PROVE  HiddenBefore(u, S, n)
  <2>1. n \in 1 .. Len(s)
    <3>1. CASE n > Len(s)
      <4>1. n - Len(s) \in 1 .. Len(t) /\ n = Len(s) + (n - Len(s))
        BY <1>1, <3>1
      <4> QED
        BY <1>1, <1>2, <4>1 DEF Without
    <3> QED
      BY <1>1, <3>1
  <2>2. HiddenBefore(s, S, n)
    BY <1>1, <1>2, <2>1 DEF AllHidden
  <2>9. PICK b \in 1 .. n : \E k \in b + 1 .. n - 1 :
          /\ AllOf(s, {"steer"}, 1, b - 1) /\ s[b].do = "begin -copy"
          /\ Whole(s, S, "hide", b + 1, k)
          /\ AllOf(s, {"incr"}, k + 1, n)
    BY <2>2 DEF HiddenBefore
  <2>3. PICK k \in b + 1 .. n - 1 :
          /\ AllOf(s, {"steer"}, 1, b - 1) /\ s[b].do = "begin -copy"
          /\ Whole(s, S, "hide", b + 1, k)
          /\ AllOf(s, {"incr"}, k + 1, n)
    BY <2>9
  <2>4. \A j \in 1 .. n : j \in 1 .. Len(s) /\ u[j] = s[j]
    BY <1>1, <2>1
  <2>5. /\ \A j \in 1 .. b - 1 : j \in 1 .. n
        /\ \A j \in b + 1 .. k - 1 : j \in 1 .. n
        /\ \A j \in k + 1 .. n : j \in 1 .. n
        /\ k \in b + 1 .. Len(u) /\ k \in 1 .. n
    BY <1>1, <2>1
  <2>6. AllOf(u, {"steer"}, 1, b - 1) /\ u[b].do = "begin -copy"
    BY <2>3, <2>4, <2>5 DEF AllOf
  <2>7. Whole(u, S, "hide", b + 1, k)
    <3>1. k \in b + 1 .. Len(u) /\ u[k].do = "commit"
      BY <2>3, <2>4, <2>5 DEF Whole
    <3>2. AllOf(u, {"hide"}, b + 1, k - 1)
      BY <2>3, <2>4, <2>5 DEF Whole, AllOf
    <3>3. Covers(u, S, "hide", b + 1, k - 1)
      BY <2>3, <2>4, <2>5 DEF Whole, Covers
    <3> QED
      BY <3>1, <3>2, <3>3 DEF Whole
  <2>8. AllOf(u, {"incr"}, k + 1, n)
    BY <2>3, <2>4, <2>5 DEF AllOf
  <2> QED
    BY <2>6, <2>7, <2>8 DEF HiddenBefore
<1> QED
  BY <1>2 DEF AllHidden, u

\* What cube.begin, a command for every cell and cube.commit make up.
LEMMA BlockLine ==
  ASSUME size \in Sizes, NEW begin \in Beginnings, NEW name \in {"led", "hide"}
  PROVE  LET s == Do(begin, <<>>) \o ForEach(name) \o Do("commit", <<>>)
         IN  /\ Line(s, Cells(size)) /\ Len(s) = N + 2
             /\ s[1] = [do |-> begin, args |-> <<>>]
             /\ \A n \in 1 .. N : s[n + 1] = [do |-> name, args |-> CellNo(n)]
             /\ s[N + 2] = [do |-> "commit", args |-> <<>>]
             /\ Whole(s, Cells(size), name, 2, N + 2)
             /\ \A n \in 1 .. Len(s) : s[n].do \in {begin, name, "commit"}
<1> DEFINE S == Cells(size)
           L == LineCommand(S)
           x == Do(begin, <<>>)
           y == ForEach(name)
           z == Do("commit", <<>>)
           s == x \o y \o z
<1>1. N \in Nat /\ \A n \in 1 .. N : CellNo(n) \in Cells(size)
  BY CellsInOrder
<1>2. /\ x \in Seq(L) /\ Len(x) = 1 /\ x[1] = [do |-> begin, args |-> <<>>]
      /\ z \in Seq(L) /\ Len(z) = 1 /\ z[1] = [do |-> "commit", args |-> <<>>]
  <2>1. /\ [do |-> begin, args |-> <<>>] \in L
        /\ [do |-> "commit", args |-> <<>>] \in L
    BY DEF LineCommand
  <2> HIDE DEF L
  <2> QED
    BY <2>1 DEF Do
<1>3. /\ y \in Seq(L) /\ Len(y) = N
      /\ \A n \in 1 .. N : y[n] = [do |-> name, args |-> CellNo(n)]
  BY <1>1 DEF ForEach, LineCommand, N, CellNo
<1> HIDE DEF x, y, z, L
<1>4. /\ x \o y \in Seq(L) /\ Len(x \o y) = N + 1
      /\ (x \o y)[1] = x[1] /\ \A n \in 1 .. N : (x \o y)[1 + n] = y[n]
  <2>1. /\ x \o y \in Seq(L) /\ Len(x \o y) = Len(x) + Len(y)
        /\ \A n \in 1 .. Len(x) : (x \o y)[n] = x[n]
        /\ \A n \in 1 .. Len(y) : (x \o y)[Len(x) + n] = y[n]
    BY <1>2, <1>3, Joined
  <2>2. 1 \in 1 .. Len(x)
    BY <1>2
  <2>3. (x \o y)[1] = x[1]
    BY <2>1, <2>2
  <2>4. Len(x \o y) = N + 1
    BY <1>1, <1>2, <1>3, <2>1
  <2> QED
    BY <1>2, <1>3, <2>1, <2>3, <2>4
<1>5. /\ s \in Seq(L) /\ Len(s) = N + 2
      /\ \A n \in 1 .. N + 1 : s[n] = (x \o y)[n]
      /\ s[N + 2] = z[1]
  <2>1. /\ s \in Seq(L) /\ Len(s) = Len(x \o y) + Len(z)
        /\ \A n \in 1 .. Len(x \o y) : s[n] = (x \o y)[n]
        /\ \A n \in 1 .. Len(z) : s[Len(x \o y) + n] = z[n]
    BY <1>2, <1>4, Joined
  <2>2. 1 \in 1 .. Len(z) /\ N + 1 + 1 = N + 2
    BY <1>1, <1>2
  <2> QED
    BY <1>1, <1>2, <1>4, <2>1, <2>2
<1> HIDE DEF s
<1>6. /\ s[1] = [do |-> begin, args |-> <<>>]
      /\ \A n \in 1 .. N : s[n + 1] = [do |-> name, args |-> CellNo(n)]
      /\ s[N + 2] = [do |-> "commit", args |-> <<>>]
  <2>1. 1 \in 1 .. N + 1 /\ \A n \in 1 .. N : n + 1 \in 1 .. N + 1 /\ n + 1 = 1 + n
    BY <1>1
  <2> QED
    BY <1>2, <1>3, <1>4, <1>5, <2>1
<1>7. \A n \in 1 .. Len(s) : n = 1 \/ n = N + 2 \/ (n - 1 \in 1 .. N /\ s[n].do = name)
  <2> TAKE n \in 1 .. Len(s)
  <2>1. n = 1 \/ n = N + 2 \/ (n - 1 \in 1 .. N /\ n = (n - 1) + 1)
    BY <1>1, <1>5
  <2>2. ASSUME n - 1 \in 1 .. N, n = (n - 1) + 1
        PROVE  s[n].do = name
    <3>1. s[(n - 1) + 1] = [do |-> name, args |-> CellNo(n - 1)]
      BY <1>6, <2>2
    <3>2. s[n] = s[(n - 1) + 1]
      BY <2>2
    <3> QED
      BY <3>1, <3>2
  <2> QED
    BY <2>1, <2>2
<1>8. Whole(s, S, name, 2, N + 2)
  <2>1. AllOf(s, {name}, 2, N + 1)
    BY <1>1, <1>5, <1>7 DEF AllOf
  <2>2. Covers(s, S, name, 2, N + 1)
    <3> SUFFICES ASSUME NEW c \in S
                 PROVE  \E j \in 2 .. N + 1 : s[j] = [do |-> name, args |-> c]
      BY DEF Covers
    <3>1. PICK n \in 1 .. N : CellNo(n) = c
      BY CellsInOrder
    <3> QED
      BY <1>1, <1>6, <3>1
  <2> QED
    BY <1>1, <1>5, <1>6, <2>1, <2>2 DEF Whole
<1>9. Formed(s, S)
  <2>1. \A n \in 2 .. Len(s) : s[n].do # "open"
    <3> TAKE n \in 2 .. Len(s)
    <3>1. n \in 1 .. Len(s) /\ n # 1
      BY <1>1, <1>5
    <3>2. s[n].do \in {"commit", "led", "hide"}
      BY <1>6, <1>7, <3>1
    <3> QED
      BY <3>2
  <2>2. \A n \in 2 .. Len(s) : s[n-1].do \in Beginnings \cup {"led", "hide"}
    <3> TAKE n \in 2 .. Len(s)
    <3>1. n - 1 \in 1 .. Len(s) /\ n - 1 # N + 2
      BY <1>1, <1>5
    <3>2. n - 1 = 1 \/ s[n-1].do = name
      BY <1>7, <3>1
    <3> QED
      BY <1>6, <3>2
  <2>3. ASSUME NEW n \in 1 .. Len(s) - 1, s[n].do \in Beginnings
        PROVE  Whole(s, S, name, n + 1, N + 2)
    <3>1. n \in 1 .. Len(s) /\ n # N + 2
      BY <1>1, <1>5
    <3>2. n = 1
      BY <1>7, <2>3, <3>1 DEF Beginnings
    <3> QED
      BY <1>8, <3>2
  <2>4. N + 2 \in 1 .. Len(s)
    BY <1>1, <1>5
  <2> QED
    BY <2>1, <2>2, <2>3, <2>4 DEF Formed
<1>10. Line(s, S)
  <2>1. Len(s) \in Nat \ {0}
    BY <1>1, <1>5
  <2>2. s[1].do \in Beginnings /\ s[Len(s)].do = "commit"
    BY <1>5, <1>6
  <2> QED
    BY <1>5, <1>9, <2>1, <2>2 DEF Line, L, Beginnings
<1>11. \A n \in 1 .. Len(s) : s[n].do \in {begin, name, "commit"}
  BY <1>6, <1>7
<1> QED
  BY <1>5, <1>6, <1>8, <1>10, <1>11 DEF s, x, y, z

\* Two lines joined, command by command.
LEMMA LinesJoined ==
  ASSUME NEW S, NEW s, NEW t, Line(s, S), Line(t, S)
  PROVE  /\ Line(s \o t, S)
         /\ Len(s) \in Nat \ {0} /\ Len(t) \in Nat \ {0}
         /\ Len(s \o t) = Len(s) + Len(t)
         /\ \A n \in 1 .. Len(s) : (s \o t)[n] = s[n]
         /\ \A n \in 1 .. Len(t) : (s \o t)[Len(s) + n] = t[n]
<1>1. /\ s \in Seq(LineCommand(S)) /\ Len(s) \in Nat \ {0}
      /\ t \in Seq(LineCommand(S)) /\ Len(t) \in Nat \ {0}
  BY DEF Line
<1> QED
  BY <1>1, Joined, LineJoin

\* A line of other commands than those of a transaction.
LEMMA SimpleLine ==
  ASSUME NEW S, NEW s \in Seq(LineCommand(S)), Len(s) \in Nat \ {0},
         NEW names, names \cap (Beginnings \cup {"open", "led", "hide", "commit"}) = {},
         \A n \in 1 .. Len(s) : s[n].do \in names
  PROVE  Line(s, S)
<1>1. \A n \in 1 .. Len(s) : s[n].do \notin Beginnings \cup {"open", "led", "hide", "commit"}
  OBVIOUS
<1>2. 1 \in 1 .. Len(s) /\ Len(s) \in 1 .. Len(s)
  OBVIOUS
<1>3. Formed(s, S)
  BY <1>1 DEF Formed
<1> QED
  BY <1>1, <1>2, <1>3 DEF Line

\* One command.
LEMMA OneLine ==
  ASSUME NEW S, NEW c \in LineCommand(S),
         c.do \notin Beginnings \cup {"open", "led", "hide", "commit"}
  PROVE  Line(<<c>>, S) /\ Len(<<c>>) = 1
<1>1. <<c>> \in Seq(LineCommand(S)) /\ Len(<<c>>) = 1 /\ <<c>>[1] = c
  OBVIOUS
<1>2. /\ \A n \in 1 .. Len(<<c>>) : <<c>>[n].do \in {c.do}
      /\ {c.do} \cap (Beginnings \cup {"open", "led", "hide", "commit"}) = {}
  BY <1>1
<1>3. Len(<<c>>) \in Nat \ {0}
  BY <1>1
<1> HIDE DEF Beginnings
<1> QED
  BY <1>1, <1>2, <1>3, SimpleLine

\* A command for each of the axes.
LEMMA AxesLine ==
  ASSUME NEW S, NEW name \in {"incr", "turnlow", "turnhigh"}
  PROVE  /\ Line(ForAxes(name), S) /\ Len(ForAxes(name)) = 3
         /\ \A a \in Axis : ForAxes(name)[a] = [do |-> name, args |-> <<a>>]
<1> DEFINE L == LineCommand(S)
           c(a) == [do |-> name, args |-> <<a>>]
<1>1. c(1) \in L /\ c(2) \in L /\ c(3) \in L
  BY DEF LineCommand
<1>2. ForAxes(name) = <<c(1)>> \o <<c(2)>> \o <<c(3)>>
  BY DEF ForAxes, Do
<1> HIDE DEF c
<1>3. /\ Line(<<c(1)>>, S) /\ Line(<<c(2)>>, S) /\ Line(<<c(3)>>, S)
      /\ Len(<<c(1)>>) = 1 /\ Len(<<c(2)>>) = 1 /\ Len(<<c(3)>>) = 1
  <2>1. \A a : c(a).do \notin Beginnings \cup {"open", "led", "hide", "commit"}
    BY DEF c, Beginnings
  <2> HIDE DEF L
  <2> QED
    BY <1>1, <2>1, OneLine DEF L
<1> HIDE DEF L
<1>4. /\ Line(<<c(1)>> \o <<c(2)>>, S) /\ Len(<<c(1)>> \o <<c(2)>>) = 2
      /\ (<<c(1)>> \o <<c(2)>>)[1] = c(1) /\ (<<c(1)>> \o <<c(2)>>)[2] = c(2)
  <2>1. /\ Len(<<c(1)>> \o <<c(2)>>) = Len(<<c(1)>>) + Len(<<c(2)>>)
        /\ \A n \in 1 .. Len(<<c(1)>>) : (<<c(1)>> \o <<c(2)>>)[n] = <<c(1)>>[n]
        /\ \A n \in 1 .. Len(<<c(2)>>) :
             (<<c(1)>> \o <<c(2)>>)[Len(<<c(1)>>) + n] = <<c(2)>>[n]
    BY <1>3, LinesJoined
  <2>2. 1 \in 1 .. 1 /\ 1 + 1 = 2
    OBVIOUS
  <2> QED
    BY <1>3, <2>1, <2>2, LineJoin
<1> DEFINE s == <<c(1)>> \o <<c(2)>>
           t == <<c(3)>>
<1>5. /\ Line(s \o t, S) /\ Len(s \o t) = 3
      /\ (s \o t)[1] = c(1) /\ (s \o t)[2] = c(2) /\ (s \o t)[3] = c(3)
  <2>1. Line(s, S) /\ Len(s) = 2 /\ s[1] = c(1) /\ s[2] = c(2)
    BY <1>4
  <2>2. Line(t, S) /\ Len(t) = 1 /\ t[1] = c(3)
    BY <1>3
  <2> HIDE DEF s, t
  <2>3. /\ Line(s \o t, S) /\ Len(s \o t) = Len(s) + Len(t)
        /\ \A n \in 1 .. Len(s) : (s \o t)[n] = s[n]
        /\ \A n \in 1 .. Len(t) : (s \o t)[Len(s) + n] = t[n]
    <3>1. Line(s, S) /\ Line(t, S)
      BY <2>1, <2>2
    <3> QED
      BY <3>1, LinesJoined
  <2>4. 1 \in 1 .. 1 /\ 1 \in 1 .. 2 /\ 2 \in 1 .. 2 /\ 2 + 1 = 3
    OBVIOUS
  <2> QED
    BY <2>1, <2>2, <2>3, <2>4
<1> HIDE DEF s, t
<1>6. \A a \in Axis : a = 1 \/ a = 2 \/ a = 3
  BY DEF Axis
<1> QED
  BY <1>2, <1>5, <1>6 DEF s, t, c

\* Where a cell is taken by a rotation are three numbers, and the colour to be
\* set follows them.
LEMMA LandingIsTriple ==
  ASSUME NEW axis \in Axis, NEW dir \in {0, 1}, size \in Sizes, NEW c \in Cells(size),
         NEW d
  PROVE  /\ RotatedCell(axis, dir, c) \in Int \X Int \X Int
         /\ RotatedCell(axis, dir, c) \o <<d>> =
              <<RotatedCell(axis, dir, c)[1], RotatedCell(axis, dir, c)[2],
                RotatedCell(axis, dir, c)[3], d>>
<1> DEFINE r == RotatedCell(axis, dir, c)
<1>1. size[1] \in Int /\ size[2] \in Int /\ size[3] \in Int
  BY TclAssumption DEF Axis
<1>2. c[1] \in Int /\ c[2] \in Int /\ c[3] \in Int
  BY <1>1 DEF Cells
<1>3. r \in Int \X Int \X Int
  <2>1. axis \in {1, 2, 3}
    BY DEF Axis
  <2>2. CASE axis = 1 /\ dir = 0
    BY <1>1, <1>2, <2>2 DEF RotatedCell
  <2>3. CASE axis = 1 /\ dir = 1
    BY <1>1, <1>2, <2>3 DEF RotatedCell
  <2>4. CASE axis = 2 /\ dir = 0
    BY <1>1, <1>2, <2>4 DEF RotatedCell
  <2>5. CASE axis = 2 /\ dir = 1
    BY <1>1, <1>2, <2>5 DEF RotatedCell
  <2>6. CASE axis = 3 /\ dir = 0
    BY <1>1, <1>2, <2>6 DEF RotatedCell
  <2>7. CASE axis = 3 /\ dir = 1
    BY <1>1, <1>2, <2>7 DEF RotatedCell
  <2> QED
    BY <2>1, <2>2, <2>3, <2>4, <2>5, <2>6, <2>7
<1> HIDE DEF r
<1>4. r \o <<d>> = <<r[1], r[2], r[3], d>>
  <2> DEFINE D == Int \cup {d}
             t == <<r[1], r[2], r[3], d>>
  <2>1. r \in Seq(D) /\ Len(r) = 3 /\ <<d>> \in Seq(D) /\ Len(<<d>>) = 1
    BY <1>3
  <2>2. t \in Seq(D) /\ Len(t) = 4 /\ t[1] = r[1] /\ t[2] = r[2] /\ t[3] = r[3] /\ t[4] = d
    BY <1>3
  <2> HIDE DEF D, t
  <2>3. /\ r \o <<d>> \in Seq(D) /\ Len(r \o <<d>>) = 4
        /\ \A n \in 1 .. Len(r) : (r \o <<d>>)[n] = r[n]
        /\ \A n \in 1 .. Len(<<d>>) : (r \o <<d>>)[Len(r) + n] = <<d>>[n]
    <3>1. Len(r \o <<d>>) = Len(r) + Len(<<d>>)
      BY <2>1, Joined
    <3> QED
      BY <2>1, <3>1, Joined
  <2>4. /\ (r \o <<d>>)[1] = r[1] /\ (r \o <<d>>)[2] = r[2] /\ (r \o <<d>>)[3] = r[3]
        /\ (r \o <<d>>)[4] = d
    <3>1. 1 \in 1 .. 3 /\ 2 \in 1 .. 3 /\ 3 \in 1 .. 3 /\ 1 \in 1 .. 1 /\ 3 + 1 = 4
      OBVIOUS
    <3> QED
      BY <2>1, <2>3, <3>1
  <2>5. \A n \in 1 .. 4 : n = 1 \/ n = 2 \/ n = 3 \/ n = 4
    OBVIOUS
  <2>6. \A n \in 1 .. 4 : (r \o <<d>>)[n] = t[n]
    BY <2>2, <2>4, <2>5
  <2>7. r \o <<d>> = t
    BY <2>2, <2>3, <2>6, SeqEqual
  <2> QED
    BY <2>7 DEF t
<1> QED
  BY <1>3, <1>4 DEF r

\* The colours that are set in a rotation.
SetLine(axis, dir) ==
  [n \in 1 .. Cardinality(Cells(size)) |->
     LET c == SetToSeq(Cells(size))[n]
     IN  [do |-> "lset", args |-> RotatedCell(axis, dir, c) \o <<data[c]>>]]

\* A rotation sets the colour of every cell once.
LEMMA SetsLine ==
  ASSUME NEW axis \in Axis, NEW dir \in {0, 1}, size \in Sizes,
         data \in [Cells(size) -> Colour]
  PROVE  /\ Line(SetLine(axis, dir), Cells(size)) /\ Len(SetLine(axis, dir)) = N
         /\ \A n \in 1 .. N : SetLine(axis, dir)[n] =
              [do |-> "lset",
               args |-> RotatedCell(axis, dir, CellNo(n)) \o <<data[CellNo(n)]>>]
<1> DEFINE L == LineCommand(Cells(size))
           s == SetLine(axis, dir)
           e(n) == [do |-> "lset",
                    args |-> RotatedCell(axis, dir, CellNo(n)) \o <<data[CellNo(n)]>>]
<1>1. N \in Nat \ {0} /\ \A n \in 1 .. N : CellNo(n) \in Cells(size)
  BY CellsInOrder
<1>2. s = [n \in 1 .. N |-> e(n)]
  BY DEF SetLine, N, CellNo
<1>3. ASSUME NEW n \in 1 .. N
      PROVE  e(n) \in L
  <2>1. CellNo(n) \in Cells(size) /\ data[CellNo(n)] \in Colour
    BY <1>1
  <2> DEFINE r == RotatedCell(axis, dir, CellNo(n))
  <2>2. /\ r \in Int \X Int \X Int
        /\ r \o <<data[CellNo(n)]>> = <<r[1], r[2], r[3], data[CellNo(n)]>>
    BY <2>1, LandingIsTriple
  <2> HIDE DEF r
  <2>3. r[1] \in Int /\ r[2] \in Int /\ r[3] \in Int
    BY <2>2
  <2>4. <<r[1], r[2], r[3], data[CellNo(n)]>> \in Int \X Int \X Int \X Colour
    BY <2>1, <2>3
  <2>5. r \o <<data[CellNo(n)]>> \in Int \X Int \X Int \X Colour
    BY <2>2, <2>4
  <2> QED
    BY <2>5 DEF r, LineCommand
<1> HIDE DEF e, L, s
<1>4. s \in Seq(L) /\ Len(s) = N /\ \A n \in 1 .. N : s[n] = e(n)
  <2>1. s \in [1 .. N -> L] /\ \A n \in 1 .. N : s[n] = e(n)
    BY <1>2, <1>3
  <2>2. s \in Seq(L)
    BY <1>1, <2>1
  <2>3. Len(s) = N
    BY <1>1, <1>2, <2>2
  <2> QED
    BY <2>1, <2>2, <2>3
<1>5. \A n \in 1 .. Len(s) : s[n].do \in {"lset"}
  <2> TAKE n \in 1 .. Len(s)
  <2>1. s[n] = e(n)
    BY <1>4
  <2> QED
    BY <2>1 DEF e
<1>6. Line(s, Cells(size))
  <2>1. {"lset"} \cap (Beginnings \cup {"open", "led", "hide", "commit"}) = {}
    BY DEF Beginnings
  <2> QED
    BY <1>1, <1>4, <1>5, <2>1, SimpleLine DEF L
<1> QED
  BY <1>4, <1>6 DEF e, s

\* A command has its name and its arguments.
LEMMA CommandParts ==
  ASSUME NEW c, NEW name, NEW args, c = [do |-> name, args |-> args]
  PROVE  c.do = name /\ c.args = args
  OBVIOUS

\* The block of a line is the block of a longer one.
LEMMA WholeJoin ==
  ASSUME NEW S, NEW s, NEW t, Line(s, S), Line(t, S),
         NEW name, NEW low \in Nat \ {0}, NEW k, Whole(s, S, name, low, k)
  PROVE  Whole(s \o t, S, name, low, k)
<1> DEFINE u == s \o t
<1>1. /\ Len(s) \in Nat /\ Len(t) \in Nat /\ Len(u) = Len(s) + Len(t)
      /\ \A n \in 1 .. Len(s) : u[n] = s[n]
  BY LinesJoined
<1> HIDE DEF u
<1>2. k \in low .. Len(s) /\ k \in low .. Len(u) /\ k \in 1 .. Len(s)
  BY <1>1 DEF Whole
<1>3. \A j \in low .. k - 1 : u[j] = s[j]
  BY <1>1, <1>2
<1>4. u[k].do = "commit"
  BY <1>1, <1>2 DEF Whole
<1>5. AllOf(u, {name}, low, k - 1)
  BY <1>3 DEF Whole, AllOf
<1>6. Covers(u, S, name, low, k - 1)
  BY <1>3 DEF Whole, Covers
<1> QED
  BY <1>2, <1>4, <1>5, <1>6 DEF Whole, u

\* hide: one block, of cube.led with the colour black.
LEMMA HideLine ==
  ASSUME size \in Sizes
  PROVE  /\ Line(Hide, Cells(size)) /\ Len(Hide) = N + 2
         /\ Hide[1] = [do |-> "begin -copy", args |-> <<>>]
         /\ \A n \in 1 .. N : Hide[n + 1] = [do |-> "hide", args |-> CellNo(n)]
         /\ Hide[N + 2] = [do |-> "commit", args |-> <<>>]
         /\ Whole(Hide, Cells(size), "hide", 2, N + 2)
         /\ \A n \in 1 .. Len(Hide) : Hide[n].do \in {"begin -copy", "hide", "commit"}
<1>1. "begin -copy" \in Beginnings /\ "hide" \in {"led", "hide"}
  BY DEF Beginnings
<1> QED
  BY <1>1, BlockLine DEF Hide

\* draw: one block, of cube.led with the colour of the cell.
LEMMA DrawLine ==
  ASSUME size \in Sizes, NEW begin \in Beginnings
  PROVE  /\ Line(Drawing(begin), Cells(size)) /\ Len(Drawing(begin)) = N + 2
         /\ Drawing(begin)[1] = [do |-> begin, args |-> <<>>]
         /\ \A n \in 1 .. N :
              Drawing(begin)[n + 1] = [do |-> "led", args |-> CellNo(n)]
         /\ Drawing(begin)[N + 2] = [do |-> "commit", args |-> <<>>]
         /\ \A n \in 1 .. Len(Drawing(begin)) :
              Drawing(begin)[n].do \in {begin, "led", "commit"}
<1>1. "led" \in {"led", "hide"}
  OBVIOUS
<1> QED
  BY <1>1, BlockLine DEF Drawing

\* move: the sprite is hidden, moved along each axis and drawn.
LEMMA MoveLine ==
  ASSUME size \in Sizes
  PROVE  /\ Line(Move, Cells(size)) /\ Len(Move) = 2*N + 7
         /\ \A n \in 1 .. N + 2 : Move[n] = Hide[n]
         /\ \A a \in Axis : Move[N + 2 + a] = [do |-> "incr", args |-> <<a>>]
         /\ \A n \in 1 .. N + 2 : Move[N + 5 + n] = DrawOver[n]
         /\ AllHidden(Move, Cells(size))
<1> DEFINE S == Cells(size)
           x == Hide
           y == ForAxes("incr")
           z == DrawOver
           u == x \o y
<1>1. N \in Nat \ {0}
  BY CellsInOrder
<1>2. /\ Line(x, S) /\ Len(x) = N + 2 /\ Whole(x, S, "hide", 2, N + 2)
      /\ x[1].do = "begin -copy" /\ Without(x, {"incr"})
  <2>1. Without(x, {"incr"})
    <3>1. \A n \in 1 .. Len(x) : x[n].do \in {"begin -copy", "hide", "commit"}
      BY HideLine
    <3> QED
      BY <3>1 DEF Without
  <2>2. x[1] = [do |-> "begin -copy", args |-> <<>>]
    BY HideLine
  <2>3. Line(x, S) /\ Len(x) = N + 2 /\ Whole(x, S, "hide", 2, N + 2)
    BY HideLine
  <2> HIDE DEF x
  <2>4. x[1].do = "begin -copy"
    BY <2>2, CommandParts
  <2> QED
    BY <2>1, <2>3, <2>4
<1>3. /\ Line(y, S) /\ Len(y) = 3
      /\ \A a \in Axis : y[a] = [do |-> "incr", args |-> <<a>>]
  BY AxesLine
<1>4. /\ Line(z, S) /\ Len(z) = N + 2 /\ Without(z, {"incr"})
  <2>1. "begin -copy" \in Beginnings
    BY DEF Beginnings
  <2>2. Without(z, {"incr"})
    BY <2>1, DrawLine DEF DrawOver, Without
  <2> QED
    BY <2>1, <2>2, DrawLine DEF DrawOver
<1>5. Move = u \o z
  BY DEF Move
<1> HIDE DEF x, y, z
<1>6. /\ Line(u, S) /\ Len(u) = N + 5
      /\ \A n \in 1 .. N + 2 : u[n] = x[n]
      /\ \A n \in 1 .. 3 : u[N + 2 + n] = y[n]
      /\ Whole(u, S, "hide", 2, N + 2)
  <2>1. /\ Line(u, S) /\ Len(u) = Len(x) + Len(y)
        /\ \A n \in 1 .. Len(x) : u[n] = x[n]
        /\ \A n \in 1 .. Len(y) : u[Len(x) + n] = y[n]
    <3>1. Line(x, S) /\ Line(y, S)
      BY <1>2, <1>3
    <3> QED
      BY <3>1, LinesJoined
  <2>2. Whole(u, S, "hide", 2, N + 2)
    <3>1. Line(x, S) /\ Line(y, S) /\ Whole(x, S, "hide", 2, N + 2)
      BY <1>2, <1>3
    <3>2. 2 \in Nat \ {0}
      OBVIOUS
    <3> QED
      BY <3>1, <3>2, WholeJoin
  <2> HIDE DEF u
  <2>3. Len(x) = N + 2 /\ Len(y) = 3
    BY <1>2, <1>3
  <2>4. Len(u) = N + 5
    BY <1>1, <2>1, <2>3
  <2> QED
    BY <2>1, <2>2, <2>3, <2>4
<1> HIDE DEF u
<1>7. \A n \in N + 3 .. N + 5 : u[n].do = "incr"
  <2> TAKE n \in N + 3 .. N + 5
  <2>1. n - (N + 2) \in 1 .. 3 /\ n = N + 2 + (n - (N + 2))
    BY <1>1
  <2>2. u[n] = y[n - (N + 2)]
    BY <1>6, <2>1
  <2> QED
    BY <1>3, <2>1, <2>2 DEF Axis
<1>8. AllHidden(u, S)
  <2> SUFFICES ASSUME NEW n \in 1 .. Len(u), u[n].do = "incr"
               PROVE  HiddenBefore(u, S, n)
    BY DEF AllHidden
  <2>1. n \in N + 3 .. N + 5
    <3>1. CASE n \in 1 .. N + 2
      <4>1. x[n].do # "incr"
        BY <1>2, <3>1 DEF Without
      <4> QED
        BY <1>6, <3>1, <4>1
    <3> QED
      BY <1>1, <1>6, <3>1
  <2>2. 1 \in 1 .. n /\ N + 2 \in 2 .. n - 1
    BY <1>1, <2>1
  <2>3. AllOf(u, {"incr"}, N + 3, n)
    BY <1>1, <1>7, <2>1 DEF AllOf
  <2>4. AllOf(u, {"steer"}, 1, 0)
    BY DEF AllOf
  <2>5. u[1].do = "begin -copy"
    <3>1. 1 \in 1 .. N + 2
      BY <1>1
    <3>2. u[1] = x[1]
      BY <1>6, <3>1
    <3> QED
      BY <1>2, <3>2
  <2>6. N + 2 + 1 = N + 3 /\ 1 + 1 = 2 /\ 1 - 1 = 0
    BY <1>1
  <2> QED
    BY <1>6, <2>2, <2>3, <2>4, <2>5, <2>6 DEF HiddenBefore
<1>9. /\ Line(u \o z, S) /\ Len(u \o z) = Len(u) + Len(z)
      /\ \A n \in 1 .. Len(u) : (u \o z)[n] = u[n]
      /\ \A n \in 1 .. Len(z) : (u \o z)[Len(u) + n] = z[n]
  <2>1. Line(u, S) /\ Line(z, S)
    BY <1>4, <1>6
  <2> QED
    BY <2>1, LinesJoined
<1>10. AllHidden(u \o z, S)
  BY <1>4, <1>6, <1>8, HiddenJoin
<1>11. /\ Len(u \o z) = 2*N + 7
       /\ \A n \in 1 .. N + 2 : (u \o z)[n] = x[n]
       /\ \A a \in Axis : (u \o z)[N + 2 + a] = y[a]
       /\ \A n \in 1 .. N + 2 : (u \o z)[N + 5 + n] = z[n]
  <2>1. Len(u \o z) = 2*N + 7
    BY <1>1, <1>4, <1>6, <1>9
  <2>2. \A n \in 1 .. N + 2 : n \in 1 .. N + 5
    BY <1>1
  <2>3. \A a \in Axis : N + 2 + a \in 1 .. N + 5 /\ a \in 1 .. 3
    BY <1>1 DEF Axis
  <2> QED
    BY <1>4, <1>6, <1>9, <2>1, <2>2, <2>3
<1> QED
  BY <1>3, <1>5, <1>9, <1>10, <1>11 DEF x, z

\* A line that only steers.
Steers(s, S) == Line(s, S) /\ Len(s) = 1 /\ s[1].do = "steer"

\* Nothing that is commanded before a movement moves the sprite.
LEMMA SteerJoin ==
  ASSUME NEW S, NEW x, NEW t, Steers(x, S),
         Line(t, S), AllHidden(t, S)
  PROVE  AllHidden(x \o t, S)
<1> DEFINE u == x \o t
<1>1. /\ Len(t) \in Nat \ {0} /\ Len(u) = 1 + Len(t) /\ u[1].do = "steer"
      /\ \A n \in 1 .. Len(t) : u[1 + n] = t[n]
  <2>2. /\ Len(t) \in Nat \ {0} /\ Len(u) = Len(x) + Len(t)
        /\ \A n \in 1 .. Len(x) : u[n] = x[n]
        /\ \A n \in 1 .. Len(t) : u[Len(x) + n] = t[n]
    <3>1. Line(x, S) /\ Line(t, S)
      BY DEF Steers
    <3>2. Len(t) \in Nat \ {0} /\ Len(x \o t) = Len(x) + Len(t)
      BY <3>1, LinesJoined
    <3>3. \A n \in 1 .. Len(x) : (x \o t)[n] = x[n]
      BY <3>1, LinesJoined
    <3>4. \A n \in 1 .. Len(t) : (x \o t)[Len(x) + n] = t[n]
      BY <3>1, LinesJoined
    <3> QED
      BY <3>2, <3>3, <3>4
  <2>3. 1 \in 1 .. 1
    OBVIOUS
  <2> HIDE DEF u
  <2>4. u[1] = x[1]
    BY <2>2, <2>3 DEF Steers
  <2>5. x[1].do = "steer"
    BY DEF Steers
  <2> QED
    BY <2>2, <2>4, <2>5 DEF Steers
<1> HIDE DEF u
<1> SUFFICES ASSUME NEW m \in 1 .. Len(u), u[m].do = "incr"
             PROVE  HiddenBefore(u, S, m)
  BY DEF AllHidden, u
<1> DEFINE n == m - 1
<1>2. n \in 1 .. Len(t) /\ m = 1 + n
  BY <1>1
<1>3. t[n].do = "incr"
  BY <1>1, <1>2
<1>4. HiddenBefore(t, S, n)
  BY <1>2, <1>3 DEF AllHidden
<1>5. PICK b \in 1 .. n : \E k \in b + 1 .. n - 1 :
        /\ AllOf(t, {"steer"}, 1, b - 1) /\ t[b].do = "begin -copy"
        /\ Whole(t, S, "hide", b + 1, k)
        /\ AllOf(t, {"incr"}, k + 1, n)
  BY <1>4 DEF HiddenBefore
<1>6. PICK k \in b + 1 .. n - 1 :
        /\ AllOf(t, {"steer"}, 1, b - 1) /\ t[b].do = "begin -copy"
        /\ Whole(t, S, "hide", b + 1, k)
        /\ AllOf(t, {"incr"}, k + 1, n)
  BY <1>5
<1> HIDE DEF n
<1>7. \A j \in 2 .. m : j - 1 \in 1 .. n /\ u[j] = t[j - 1]
  <2> TAKE j \in 2 .. m
  <2>1. j - 1 \in 1 .. n /\ j - 1 \in 1 .. Len(t) /\ j = 1 + (j - 1)
    BY <1>1, <1>2
  <2>2. u[1 + (j - 1)] = t[j - 1]
    BY <1>1, <2>1
  <2> QED
    BY <2>1, <2>2
<1>8. /\ b + 1 \in 1 .. m /\ k + 1 \in (b + 1) + 1 .. m - 1 /\ k + 1 \in b + 2 .. Len(u)
      /\ b + 1 \in 2 .. m /\ k + 1 \in 2 .. m
  BY <1>1, <1>2
<1>9. AllOf(u, {"steer"}, 1, b)
  <2> SUFFICES ASSUME NEW j \in 1 .. b
               PROVE  u[j].do = "steer"
    BY DEF AllOf
  <2>1. CASE j = 1
    BY <1>1, <2>1
  <2>2. CASE j # 1
    <3>1. j - 1 \in 1 .. b - 1 /\ j \in 2 .. m
      BY <1>2, <2>2
    <3>2. u[j] = t[j - 1]
      BY <1>7, <3>1
    <3> QED
      BY <1>6, <3>1, <3>2 DEF AllOf
  <2> QED
    BY <2>1, <2>2
<1>10. u[b + 1] = t[b] /\ u[k + 1] = t[k]
  <2>1. b + 1 - 1 = b /\ k + 1 - 1 = k
    BY <1>2
  <2> QED
    BY <1>7, <1>8, <2>1
<1>11. \A j \in b + 2 .. k : j - 1 \in b + 1 .. k - 1 /\ u[j] = t[j - 1]
  <2> TAKE j \in b + 2 .. k
  <2>1. j - 1 \in b + 1 .. k - 1 /\ j \in 2 .. m
    BY <1>2
  <2> QED
    BY <1>7, <2>1
<1>12. \A j \in b + 1 .. k - 1 : j + 1 \in b + 2 .. k /\ u[j + 1] = t[j]
  <2> TAKE j \in b + 1 .. k - 1
  <2>1. j + 1 \in b + 2 .. k /\ (j + 1) - 1 = j
    BY <1>2
  <2> QED
    BY <1>11, <2>1
<1>13. Whole(u, S, "hide", b + 2, k + 1)
  <2>1. AllOf(u, {"hide"}, b + 2, k)
    BY <1>6, <1>11 DEF Whole, AllOf
  <2>2. Covers(u, S, "hide", b + 2, k)
    BY <1>6, <1>12 DEF Whole, Covers
  <2>3. (k + 1) - 1 = k
    BY <1>2
  <2> QED
    BY <1>6, <1>8, <1>10, <2>1, <2>2, <2>3 DEF Whole
<1>14. AllOf(u, {"incr"}, k + 2, m)
  <2> SUFFICES ASSUME NEW j \in k + 2 .. m
               PROVE  u[j].do = "incr"
    BY DEF AllOf
  <2>1. j - 1 \in k + 1 .. n /\ j \in 2 .. m
    BY <1>2
  <2>2. u[j] = t[j - 1]
    BY <1>7, <2>1
  <2> QED
    BY <1>6, <2>1, <2>2 DEF AllOf
<1>15. (b + 1) - 1 = b /\ (b + 1) + 1 = b + 2 /\ (k + 1) + 1 = k + 2
  BY <1>2
<1>16. u[b + 1].do = "begin -copy"
  BY <1>6, <1>10
<1> QED
  BY <1>8, <1>9, <1>13, <1>14, <1>15, <1>16 DEF HiddenBefore

\* Lines without a movement.
LEMMA StillLine ==
  ASSUME NEW S, NEW s, Without(s, {"incr"})
  PROVE  AllHidden(s, S)
  BY DEF Without, AllHidden

\* Whatever line is entered, it is made of lines, and hides the sprite before it
\* is moved.
LEMMA EnteredLines ==
  ASSUME size \in Sizes, data \in [Cells(size) -> Colour],
         NEW s,
         \/ s = DrawOver \/ s = Drawing("begin") \/ s = Hide \/ s = Move
         \/ s = Bounce
         \/ \E way \in Rolls : s = Roll(way[1], way[2])
         \/ \E way \in Rotations : s = Rotate(way[1], way[2])
  PROVE  Line(s, Cells(size)) /\ AllHidden(s, Cells(size))
<1> DEFINE S == Cells(size)
<1>1. \A begin \in Beginnings : Line(Drawing(begin), S) /\ Without(Drawing(begin), {"incr"})
  BY DrawLine DEF Without, Beginnings
<1>2. "begin -copy" \in Beginnings /\ "begin" \in Beginnings
  BY DEF Beginnings
<1>3. CASE s = DrawOver \/ s = Drawing("begin")
  BY <1>1, <1>2, <1>3, StillLine DEF DrawOver
<1>4. Line(Hide, S) /\ Without(Hide, {"incr"})
  <2>1. \A n \in 1 .. Len(Hide) : Hide[n].do \in {"begin -copy", "hide", "commit"}
    BY HideLine
  <2> QED
    BY <2>1, HideLine DEF Without
<1>5. CASE s = Hide
  BY <1>4, <1>5, StillLine
<1>6. Line(Move, S) /\ AllHidden(Move, S)
  BY MoveLine
<1>7. CASE s = Move
  BY <1>6, <1>7
<1>8. CASE s = Bounce
  <2> DEFINE x == ForAxes("turnlow")
             y == ForAxes("turnhigh")
  <2>1. Line(x, S) /\ Without(x, {"incr"})
    <3>1. Line(x, S) /\ Len(x) = 3 /\ \A a \in Axis : x[a] = [do |-> "turnlow", args |-> <<a>>]
      BY AxesLine
    <3> HIDE DEF x
    <3> QED
      BY <3>1 DEF Without, Axis
  <2>2. Line(y, S) /\ Without(y, {"incr"})
    <3>1. Line(y, S) /\ Len(y) = 3 /\ \A a \in Axis : y[a] = [do |-> "turnhigh", args |-> <<a>>]
      BY AxesLine
    <3> HIDE DEF y
    <3> QED
      BY <3>1 DEF Without, Axis
  <2> HIDE DEF x, y
  <2>3. Line(Move \o x, S) /\ AllHidden(Move \o x, S)
    BY <1>6, <2>1, LineJoin, HiddenJoin
  <2>4. Line((Move \o x) \o y, S) /\ AllHidden((Move \o x) \o y, S)
    BY <2>2, <2>3, LineJoin, HiddenJoin
  <2> QED
    BY <1>8, <2>4 DEF Bounce, x, y
<1>9. ASSUME NEW way \in Rolls, s = Roll(way[1], way[2])
      PROVE  Line(s, S) /\ AllHidden(s, S)
  <2> DEFINE c == [do |-> "steer", args |-> <<way[1], way[2]>>]
  <2>1. way[1] \in Axis /\ way[2] \in {0, 1}
    BY TclAssumption
  <2>2. c \in LineCommand(S) /\ c.do = "steer"
    BY <2>1 DEF LineCommand
  <2>3. s = <<c>> \o Move
    BY <1>9 DEF Roll, Do
  <2> HIDE DEF c
  <2>4. Steers(<<c>>, S)
    <3>1. c.do \notin Beginnings \cup {"open", "led", "hide", "commit"}
      BY <2>2 DEF Beginnings
    <3>2. Line(<<c>>, S) /\ Len(<<c>>) = 1
      BY <2>2, <3>1, OneLine
    <3> QED
      BY <2>2, <3>2 DEF Steers
  <2>5. Line(<<c>> \o Move, S)
    BY <1>6, <2>4, LineJoin DEF Steers
  <2>6. AllHidden(<<c>> \o Move, S)
    BY <1>6, <2>4, SteerJoin
  <2> QED
    BY <2>3, <2>5, <2>6
<1>10. ASSUME NEW way \in Rotations, s = Rotate(way[1], way[2])
       PROVE  Line(s, S) /\ AllHidden(s, S)
  <2> DEFINE c == [do |-> "clear", args |-> <<>>]
             x == <<c>>
             y == SetLine(way[1], way[2])
  <2>1. way[1] \in Axis /\ way[2] \in {0, 1}
    BY TclAssumption
  <2>2. c \in LineCommand(S) /\ c.do = "clear"
    BY DEF LineCommand
  <2>3. s = ((Hide \o x) \o y) \o DrawOver
    BY <1>10 DEF Rotate, Do, SetLine
  <2>4. Line(x, S) /\ Without(x, {"incr"})
    <3>1. c.do \notin Beginnings \cup {"open", "led", "hide", "commit"}
      BY <2>2 DEF Beginnings
    <3> HIDE DEF c
    <3>2. Line(<<c>>, S) /\ Len(<<c>>) = 1
      BY <2>2, <3>1, OneLine
    <3> QED
      BY <2>2, <3>2 DEF Without
  <2>5. Line(y, S) /\ Without(y, {"incr"})
    <3>1. /\ Line(y, S) /\ Len(y) = N
          /\ \A n \in 1 .. N : y[n] = [do |-> "lset",
               args |-> RotatedCell(way[1], way[2], CellNo(n)) \o <<data[CellNo(n)]>>]
      BY <2>1, SetsLine
    <3> HIDE DEF y
    <3>2. \A n \in 1 .. N : y[n].do = "lset"
      <4> TAKE n \in 1 .. N
      <4>1. y[n] = [do |-> "lset",
               args |-> RotatedCell(way[1], way[2], CellNo(n)) \o <<data[CellNo(n)]>>]
        BY <3>1
      <4> QED
        BY <4>1, CommandParts
    <3> QED
      BY <3>1, <3>2 DEF Without
  <2>6. Line(DrawOver, S) /\ Without(DrawOver, {"incr"})
    BY <1>1, <1>2 DEF DrawOver
  <2> HIDE DEF x, y
  <2>7. AllHidden(Hide, S)
    BY <1>4, StillLine
  <2>8. Line(Hide \o x, S) /\ AllHidden(Hide \o x, S)
    BY <1>4, <2>4, <2>7, LineJoin, HiddenJoin
  <2>9. Line((Hide \o x) \o y, S) /\ AllHidden((Hide \o x) \o y, S)
    BY <2>5, <2>8, LineJoin, HiddenJoin
  <2>10. /\ Line(((Hide \o x) \o y) \o DrawOver, S)
         /\ AllHidden(((Hide \o x) \o y) \o DrawOver, S)
    BY <2>6, <2>9, LineJoin, HiddenJoin
  <2> QED
    BY <2>3, <2>10
<1> QED
  BY <1>3, <1>5, <1>7, <1>8, <1>9, <1>10

-----------------------------------------------------------------------------
(* What is left of a line.                                                 *)

\* The commands after the first one.
LEMMA TailParts ==
  ASSUME NEW L, NEW s \in Seq(L), s # <<>>
  PROVE  /\ Len(s) \in Nat \ {0} /\ Head(s) = s[1] /\ Head(s) \in L
         /\ Tail(s) \in Seq(L) /\ Len(Tail(s)) = Len(s) - 1
         /\ \A n \in 1 .. Len(s) - 1 : Tail(s)[n] = s[n + 1]
<1>1. Len(s) \in Nat /\ Len(s) # 0 /\ Head(s) = s[1]
  OBVIOUS
<1> QED
  BY <1>1, HeadTailProperties

\* What is said of some commands, once the first of all has been done.
LEMMA AllOfTail ==
  ASSUME NEW L, NEW s \in Seq(L), s # <<>>, NEW names,
         NEW low \in Nat \ {0}, NEW high \in Int, high <= Len(s),
         AllOf(s, names, low, high), low > 1
  PROVE  AllOf(Tail(s), names, low - 1, high - 1)
<1>1. /\ Len(s) \in Nat \ {0}
      /\ \A n \in 1 .. Len(s) - 1 : Tail(s)[n] = s[n + 1]
  BY TailParts
<1> SUFFICES ASSUME NEW j \in low - 1 .. high - 1
             PROVE  Tail(s)[j].do \in names
  BY DEF AllOf
<1>2. j + 1 \in low .. high /\ j \in 1 .. Len(s) - 1
  BY <1>1
<1> QED
  BY <1>1, <1>2 DEF AllOf

\* A block is a block still when the command before it has been done.
LEMMA WholeTail ==
  ASSUME NEW L, NEW s \in Seq(L), s # <<>>, NEW S, NEW name,
         NEW low \in Nat, low > 1, NEW k, Whole(s, S, name, low, k)
  PROVE  Whole(Tail(s), S, name, low - 1, k - 1)
<1> DEFINE t == Tail(s)
<1>1. /\ Len(s) \in Nat \ {0} /\ Len(t) = Len(s) - 1
      /\ \A n \in 1 .. Len(s) - 1 : t[n] = s[n + 1]
  BY TailParts
<1> HIDE DEF t
<1>2. /\ k \in low .. Len(s) /\ k \in Int /\ k - 1 \in low - 1 .. Len(t)
      /\ k - 1 \in 1 .. Len(s) - 1 /\ (k - 1) + 1 = k
  BY <1>1 DEF Whole
<1>3. t[k - 1].do = "commit"
  <2>1. t[k - 1] = s[(k - 1) + 1]
    BY <1>1, <1>2
  <2>2. t[k - 1] = s[k]
    BY <1>2, <2>1
  <2> QED
    BY <2>2 DEF Whole
<1>4. AllOf(t, {name}, low - 1, (k - 1) - 1)
  <2>1. AllOf(s, {name}, low, k - 1)
    BY DEF Whole
  <2>2. low \in Nat \ {0} /\ k - 1 \in Int /\ k - 1 <= Len(s)
    BY <1>1, <1>2
  <2> QED
    BY <2>1, <2>2, AllOfTail DEF t
<1>5. Covers(t, S, name, low - 1, (k - 1) - 1)
  <2> SUFFICES ASSUME NEW c \in S
               PROVE  \E j \in low - 1 .. (k - 1) - 1 : t[j] = [do |-> name, args |-> c]
    BY DEF Covers
  <2>1. PICK j \in low .. k - 1 : s[j] = [do |-> name, args |-> c]
    BY DEF Whole, Covers
  <2>2. j - 1 \in low - 1 .. (k - 1) - 1 /\ j - 1 \in 1 .. Len(s) - 1 /\ (j - 1) + 1 = j
    BY <1>1, <1>2
  <2>3. t[j - 1] = s[(j - 1) + 1]
    BY <1>1, <2>2
  <2>4. t[j - 1] = s[j]
    BY <2>2, <2>3
  <2> QED
    BY <2>1, <2>2, <2>4
<1> QED
  BY <1>2, <1>3, <1>4, <1>5 DEF Whole, t

\* What is left of a line is well formed.
LEMMA FormedTail ==
  ASSUME NEW L, NEW s \in Seq(L), s # <<>>, NEW S, Formed(s, S)
  PROVE  Formed(Tail(s), S)
<1> DEFINE t == Tail(s)
<1>1. /\ Len(s) \in Nat \ {0} /\ Len(t) = Len(s) - 1
      /\ \A n \in 1 .. Len(s) - 1 : t[n] = s[n + 1]
  BY TailParts
<1> HIDE DEF t
<1>2. ASSUME NEW n \in 2 .. Len(t)
      PROVE  /\ t[n].do # "open"
             /\ t[n].do \in {"led", "hide", "commit"} =>
                  t[n-1].do \in Beginnings \cup {"open", "led", "hide"}
  <2>1. /\ n \in 1 .. Len(s) - 1 /\ n - 1 \in 1 .. Len(s) - 1 /\ n + 1 \in 2 .. Len(s)
        /\ (n - 1) + 1 = n /\ (n + 1) - 1 = n
    BY <1>1
  <2>2. t[n] = s[n + 1] /\ t[n - 1] = s[(n - 1) + 1]
    BY <1>1, <2>1
  <2>3. t[n - 1] = s[(n + 1) - 1]
    BY <2>1, <2>2
  <2>4. /\ s[n + 1].do # "open"
        /\ s[n + 1].do \in {"led", "hide", "commit"} =>
             s[(n + 1) - 1].do \in Beginnings \cup {"open", "led", "hide"}
    BY <2>1 DEF Formed
  <2> QED
    BY <2>2, <2>3, <2>4
<1>3. ASSUME NEW n \in 1 .. Len(t) - 1, t[n].do \in Beginnings
      PROVE  \E name \in {"led", "hide"} : \E k \in 1 .. Len(t) : Whole(t, S, name, n + 1, k)
  <2>1. /\ n \in 1 .. Len(s) - 1 /\ n + 1 \in 1 .. Len(s) - 1
        /\ ((n + 1) + 1) - 1 = n + 1 /\ (n + 1) + 1 \in Nat /\ (n + 1) + 1 > 1
    BY <1>1
  <2>2. s[n + 1].do \in Beginnings
    BY <1>1, <1>3, <2>1
  <2>3. PICK name \in {"led", "hide"}, k \in 1 .. Len(s) : Whole(s, S, name, (n + 1) + 1, k)
    BY <2>1, <2>2 DEF Formed
  <2>4. Whole(t, S, name, ((n + 1) + 1) - 1, k - 1)
    BY <2>1, <2>3, WholeTail DEF t
  <2>5. Whole(t, S, name, n + 1, k - 1)
    BY <2>1, <2>4
  <2>6. k - 1 \in 1 .. Len(t)
    BY <1>1, <2>1, <2>5 DEF Whole
  <2> QED
    BY <2>5, <2>6
<1> QED
  BY <1>2, <1>3 DEF Formed, t

\* The sprite is hidden before a movement still, when a command that steers it
\* is done.
LEMMA HiddenTail ==
  ASSUME NEW L, NEW s \in Seq(L), s # <<>>, NEW S, NEW n \in 1 .. Len(s),
         HiddenBefore(s, S, n)
  PROVE  \/ Head(s).do = "begin -copy"
         \/ Head(s).do = "steer" /\ n > 1 /\ HiddenBefore(Tail(s), S, n - 1)
<1> DEFINE t == Tail(s)
<1>1. /\ Len(s) \in Nat \ {0} /\ Head(s) = s[1] /\ Len(t) = Len(s) - 1
      /\ \A m \in 1 .. Len(s) - 1 : t[m] = s[m + 1]
  BY TailParts
<1>2. PICK b \in 1 .. n : \E k \in b + 1 .. n - 1 :
        /\ AllOf(s, {"steer"}, 1, b - 1) /\ s[b].do = "begin -copy"
        /\ Whole(s, S, "hide", b + 1, k)
        /\ AllOf(s, {"incr"}, k + 1, n)
  BY DEF HiddenBefore
<1>3. PICK k \in b + 1 .. n - 1 :
        /\ AllOf(s, {"steer"}, 1, b - 1) /\ s[b].do = "begin -copy"
        /\ Whole(s, S, "hide", b + 1, k)
        /\ AllOf(s, {"incr"}, k + 1, n)
  BY <1>2
<1>4. CASE b = 1
  BY <1>1, <1>3, <1>4
<1>5. CASE b # 1
  <2> HIDE DEF t
  <2>1. /\ b \in Int /\ k \in Int /\ n \in Int /\ Len(s) \in Int
        /\ 1 < b /\ b < k /\ k < n /\ n <= Len(s)
    BY <1>1, <1>5
  <2>2. /\ 1 \in 1 .. b - 1 /\ b - 1 \in 1 .. n - 1 /\ b - 1 \in 1 .. Len(s) - 1
         /\ k - 1 \in (b - 1) + 1 .. (n - 1) - 1
    BY <2>1
  <2>3. /\ (b - 1) + 1 = b /\ (b + 1) - 1 = b /\ (k - 1) + 1 = k /\ (k + 1) - 1 = k
    BY <2>1
  <2>4. b + 1 \in Nat /\ b + 1 > 1 /\ k + 1 \in Nat \ {0} /\ k + 1 > 1
    BY <2>1
  <2>5. s[1].do = "steer"
    BY <1>3, <2>2 DEF AllOf
  <2>6. AllOf(t, {"steer"}, 1, (b - 1) - 1)
    <3> SUFFICES ASSUME NEW j \in 1 .. (b - 1) - 1
                 PROVE  t[j].do = "steer"
      BY DEF AllOf
    <3>1. j + 1 \in 1 .. b - 1 /\ j \in 1 .. Len(s) - 1
      BY <2>1
    <3> QED
      BY <1>1, <1>3, <3>1 DEF AllOf
  <2>7. t[b - 1].do = "begin -copy"
    <3>1. t[b - 1] = s[(b - 1) + 1]
      BY <1>1, <2>2
    <3> QED
      BY <1>3, <2>3, <3>1
  <2>8. Whole(t, S, "hide", (b - 1) + 1, k - 1)
    <3>1. Whole(t, S, "hide", (b + 1) - 1, k - 1)
      BY <1>3, <2>4, WholeTail DEF t
    <3> QED
      BY <2>3, <3>1
  <2>9. AllOf(t, {"incr"}, (k - 1) + 1, n - 1)
    <3>1. AllOf(t, {"incr"}, (k + 1) - 1, n - 1)
      BY <1>3, <2>1, <2>4, AllOfTail DEF t
    <3> QED
      BY <2>3, <3>1
  <2>10. HiddenBefore(t, S, n - 1)
    BY <2>6, <2>7, <2>8, <2>9, <2>2 DEF HiddenBefore
  <2>11. n > 1
    BY <2>1
  <2> QED
    BY <1>1, <2>5, <2>10, <2>11 DEF t
<1> QED
  BY <1>4, <1>5

\* cube.begin has been started: the rest of the line is as it was.
LEMMA OpenParts ==
  ASSUME NEW S, NEW s \in Seq(LineCommand(S)), s # <<>>, Head(s).do \in Beginnings,
         Formed(s, S)
  PROVE  LET t == Do("open", <<>>) \o Tail(s)
         IN  /\ t \in Seq(LineCommand(S)) /\ Formed(t, S)
             /\ t # <<>> /\ Head(t).do = "open" /\ Len(t) = Len(s)
             /\ \A n \in 2 .. Len(s) : t[n] = s[n]
<1> DEFINE L == LineCommand(S)
           o == <<[do |-> "open", args |-> <<>>]>>
           t == o \o Tail(s)
<1>1. /\ Len(s) \in Nat \ {0} /\ Head(s) = s[1]
      /\ Tail(s) \in Seq(L) /\ Len(Tail(s)) = Len(s) - 1
      /\ \A n \in 1 .. Len(s) - 1 : Tail(s)[n] = s[n + 1]
  BY TailParts
<1>2. o \in Seq(L) /\ Len(o) = 1 /\ o[1].do = "open"
  <2>1. [do |-> "open", args |-> <<>>] \in L
    BY DEF LineCommand
  <2> HIDE DEF L
  <2> QED
    BY <2>1
<1> HIDE DEF o, L
<1>3. /\ t \in Seq(L) /\ Len(t) = Len(o) + Len(Tail(s))
      /\ \A n \in 1 .. Len(o) : t[n] = o[n]
      /\ \A n \in 1 .. Len(Tail(s)) : t[Len(o) + n] = Tail(s)[n]
  <2>1. o \in Seq(L) /\ Tail(s) \in Seq(L)
    BY <1>1, <1>2
  <2> QED
    BY <2>1, Joined
<1> HIDE DEF t
<1>4. Len(t) = Len(s)
  BY <1>1, <1>2, <1>3
<1>5. t[1].do = "open"
  <2>1. 1 \in 1 .. Len(o)
    BY <1>2
  <2> QED
    BY <1>2, <1>3, <2>1
<1>6. \A n \in 2 .. Len(s) : t[n] = s[n]
  <2> TAKE n \in 2 .. Len(s)
  <2>1. n - 1 \in 1 .. Len(s) - 1 /\ 1 + (n - 1) = n /\ (n - 1) + 1 = n
    BY <1>1
  <2>2. t[Len(o) + (n - 1)] = Tail(s)[n - 1] /\ Tail(s)[n - 1] = s[(n - 1) + 1]
    BY <1>1, <1>3, <2>1
  <2> QED
    BY <1>2, <2>1, <2>2
<1>7. ASSUME NEW n \in 2 .. Len(t)
      PROVE  /\ t[n].do # "open"
             /\ t[n].do \in {"led", "hide", "commit"} =>
                  t[n-1].do \in Beginnings \cup {"open", "led", "hide"}
  <2>1. /\ n \in 2 .. Len(s) /\ (n = 2 \/ n - 1 \in 2 .. Len(s)) /\ (n = 2 => n - 1 = 1)
        /\ t[n] = s[n]
    BY <1>1, <1>4, <1>6
  <2>2. CASE n = 2
    BY <1>5, <2>1, <2>2 DEF Formed
  <2>3. CASE n - 1 \in 2 .. Len(s)
    <3>1. t[n - 1] = s[n - 1]
      BY <1>6, <2>3
    <3> QED
      BY <2>1, <3>1 DEF Formed
  <2> QED
    BY <2>1, <2>2, <2>3
<1>8. ASSUME NEW n \in 1 .. Len(t) - 1, t[n].do \in Beginnings
      PROVE  \E name \in {"led", "hide"} : \E k \in 1 .. Len(t) : Whole(t, S, name, n + 1, k)
  <2>1. n # 1
    BY <1>5, <1>8 DEF Beginnings
  <2>2. n \in 2 .. Len(s) /\ n \in 1 .. Len(s) - 1
    BY <1>1, <1>4, <2>1
  <2>3. s[n].do \in Beginnings
    BY <1>6, <1>8, <2>2
  <2>4. PICK name \in {"led", "hide"}, k \in 1 .. Len(s) : Whole(s, S, name, n + 1, k)
    BY <2>2, <2>3 DEF Formed
  <2>5. \A j \in n + 1 .. k : t[j] = s[j]
    BY <1>1, <1>6, <2>2
  <2>6. k \in n + 1 .. Len(s) /\ k \in n + 1 .. k /\ \A j \in n + 1 .. k - 1 : j \in n + 1 .. k
    BY <1>1, <2>4 DEF Whole
  <2>7. Whole(t, S, name, n + 1, k)
    BY <1>4, <2>4, <2>5, <2>6 DEF Whole, AllOf, Covers
  <2> QED
    BY <1>4, <2>4, <2>7
<1>9. Formed(t, S)
  BY <1>7, <1>8 DEF Formed
<1>10. t # <<>> /\ Head(t) = t[1]
  BY <1>1, <1>3, <1>4
<1>11. Head(t).do = "open"
  BY <1>5, <1>10
<1> QED
  BY <1>3, <1>4, <1>6, <1>9, <1>10, <1>11 DEF t, o, Do, L

-----------------------------------------------------------------------------
(* The state.                                                              *)

Shape ==
  /\ place \in [Axis -> Int] /\ motion \in [Axis -> Int] /\ size \in Sizes
  /\ data \in [Cells(size) -> Colour]
  /\ transaction \in BOOLEAN /\ sigmask \in BOOLEAN
Script ==
  script \in Seq(LineCommand(Cells(size))) /\ Formed(script, Cells(size))
Typed == TypeOK /\ Shape /\ Script

LitInside(img) == \A q \in Pos : img[q] # Black => q \in Footprint
\* What a command of a block leaves at a cell.
Wanted(name, c) == IF name = "led" THEN data[c] ELSE Black
\* The block being done ends at command k; what it has not done yet is ahead.
Building(name, k) ==
  /\ k \in 1 .. Len(script) /\ script[k].do = "commit"
  /\ AllOf(script, {"open", name}, 1, k - 1)
  /\ \A c \in Cells(size) : LEDOf(c) \in Pos =>
       \/ buffer_cube[LEDOf(c)] = Wanted(name, c)
       \/ \E j \in 1 .. k - 1 : script[j] = [do |-> name, args |-> c]
Current == \E name \in {"led", "hide"} : \E k \in 1 .. Len(script) : Building(name, k)
Plain == buffer_cube \in {Dark, cube}
AtCell == Command("led") \/ Command("hide")

Buffer ==
  /\ sigmask => ~transaction
  /\ AtCell => (sigmask \/ transaction) /\ Current
  /\ Command("open") => Plain /\ (Len(script) > 1 => Current)
  /\ transaction => Plain \/ AtCell \/ (Command("commit") /\ Current)
  /\ transaction \/ Command("open") => LitInside(buffer_cube)

Hidden ==
  \A n \in 1 .. Len(script) : script[n].do = "incr" =>
    \/ HiddenBefore(script, Cells(size), n)
    \/ \E k \in 1 .. n - 1 : Building("hide", k) /\ AllOf(script, {"incr"}, k + 1, n)
    \/ cube = Dark /\ ~transaction /\ AllOf(script, {"incr"}, 1, n)

TclInv == Typed /\ NoTrail /\ Buffer /\ Hidden

\* The place of a cell is all of its arguments.
LEMMA TripleCell ==
  ASSUME NEW c \in Int \X Int \X Int
  PROVE  SubSeq(c, 1, 3) = c
<1>1. c \in Seq(Int) /\ Len(c) = 3 /\ c[1] \in Int /\ c[2] \in Int /\ c[3] \in Int
  <2>1. c = <<c[1], c[2], c[3]>> /\ c[1] \in Int /\ c[2] \in Int /\ c[3] \in Int
    OBVIOUS
  <2>2. <<c[1], c[2], c[3]>> \in Seq(Int) /\ Len(<<c[1], c[2], c[3]>>) = 3
    BY <2>1
  <2> QED
    BY <2>1, <2>2
<1>2. \A i \in 1 .. 3 : c[i] \in Int
  BY <1>1
<1>3. /\ SubSeq(c, 1, 3) \in Seq(Int) /\ Len(SubSeq(c, 1, 3)) = 3
      /\ \A i \in 1 .. 3 : SubSeq(c, 1, 3)[i] = c[1 + i - 1]
  <2>1. 1 \in Int /\ 3 \in Int /\ 3 - 1 + 1 = 3 /\ 1 <= 3
    OBVIOUS
  <2> QED
    BY <1>2, <2>1, SubSeqProperties
<1>4. \A i \in 1 .. 3 : 1 + i - 1 = i
  OBVIOUS
<1> QED
  BY <1>1, <1>3, <1>4, SeqEqual

\* The place of a cell and its colour are the arguments of lset.
LEMMA QuadCell ==
  ASSUME NEW c \in Int \X Int \X Int \X Colour
  PROVE  SubSeq(c, 1, 3) = <<c[1], c[2], c[3]>> /\ c[4] \in Colour
         /\ <<c[1], c[2], c[3]>> \in Int \X Int \X Int
<1>1. c[1] \in Int /\ c[2] \in Int /\ c[3] \in Int /\ c[4] \in Colour
  OBVIOUS
<1>2. \A i \in 1 .. 3 : c[i] \in Int
  BY <1>1
<1> DEFINE t == <<c[1], c[2], c[3]>>
<1>3. /\ SubSeq(c, 1, 3) \in Seq(Int) /\ Len(SubSeq(c, 1, 3)) = 3
      /\ \A i \in 1 .. 3 : SubSeq(c, 1, 3)[i] = c[1 + i - 1]
  <2>1. 1 \in Int /\ 3 \in Int /\ 3 - 1 + 1 = 3 /\ 1 <= 3
    OBVIOUS
  <2> QED
    BY <1>2, <2>1, SubSeqProperties
<1>4. t \in Seq(Int) /\ Len(t) = 3 /\ t[1] = c[1] /\ t[2] = c[2] /\ t[3] = c[3]
  BY <1>1
<1>5. \A i \in 1 .. 3 : 1 + i - 1 = i /\ (i = 1 \/ i = 2 \/ i = 3)
  OBVIOUS
<1>6. \A i \in 1 .. 3 : SubSeq(c, 1, 3)[i] = t[i]
  <2> HIDE DEF t
  <2> QED
    BY <1>3, <1>4, <1>5
<1>7. SubSeq(c, 1, 3) = t
  <2> HIDE DEF t
  <2> QED
    BY <1>3, <1>4, <1>6, SeqEqual
<1> QED
  BY <1>1, <1>7

\* The edges of a sprite.
LEMMA Edges ==
  ASSUME size \in Sizes
  PROVE  /\ size[1] \in 1 .. Side /\ size[2] \in 1 .. Side /\ size[3] \in 1 .. Side
         /\ Side \in Nat \ {0}
         /\ \A c \in Cells(size) :
              /\ c \in Int \X Int \X Int /\ c = <<c[1], c[2], c[3]>>
              /\ c[1] \in 0 .. size[1] - 1 /\ c[2] \in 0 .. size[2] - 1
              /\ c[3] \in 0 .. size[3] - 1
         /\ \A x \in 0 .. size[1] - 1, y \in 0 .. size[2] - 1, z \in 0 .. size[3] - 1 :
              <<x, y, z>> \in Cells(size)
<1>1. size[1] \in 1 .. Side /\ size[2] \in 1 .. Side /\ size[3] \in 1 .. Side
      /\ Side \in Nat \ {0}
  BY TclAssumption DEF Axis
<1>2. ASSUME NEW c \in Cells(size)
      PROVE  /\ c \in Int \X Int \X Int /\ c = <<c[1], c[2], c[3]>>
             /\ c[1] \in 0 .. size[1] - 1 /\ c[2] \in 0 .. size[2] - 1
             /\ c[3] \in 0 .. size[3] - 1
  BY <1>1 DEF Cells
<1> QED
  BY <1>1, <1>2 DEF Cells

\* What the arguments of the commands are.
LEMMA Arguments ==
  ASSUME Script, size \in Sizes
  PROVE  /\ AtCell => Args \in Cells(size) /\ Cell = Args
         /\ Command("incr") \/ Command("turnlow") \/ Command("turnhigh") =>
              Args[1] \in Axis
         /\ Command("steer") => Args[1] \in Axis /\ Args[2] \in {0, 1}
         /\ Command("lset") => Args[4] \in Colour
<1> DEFINE S == Cells(size)
<1>1. script # <<>> => Head(script) \in LineCommand(S)
  BY TailParts DEF Script
<1>2. AtCell => Args \in Cells(size) /\ Cell = Args
  <2> SUFFICES ASSUME AtCell
               PROVE  Args \in Cells(size) /\ Cell = Args
    OBVIOUS
  <2>1. Args \in Cells(size)
    BY <1>1 DEF AtCell, Command, Args, LineCommand, Beginnings
  <2> QED
    BY <2>1, Edges, TripleCell DEF Cell
<1>3. Command("incr") \/ Command("turnlow") \/ Command("turnhigh") => Args[1] \in Axis
  <2> SUFFICES ASSUME Command("incr") \/ Command("turnlow") \/ Command("turnhigh")
               PROVE  Args[1] \in Axis
    OBVIOUS
  <2>1. Args \in {<<1>>, <<2>>, <<3>>}
    BY <1>1 DEF Command, Args, LineCommand, Beginnings
  <2> QED
    BY <2>1 DEF Axis
<1>4. Command("steer") => Args[1] \in Axis /\ Args[2] \in {0, 1}
  <2> SUFFICES ASSUME Command("steer")
               PROVE  Args[1] \in Axis /\ Args[2] \in {0, 1}
    OBVIOUS
  <2>1. Args \in Axis \X {0, 1}
    BY <1>1 DEF Command, Args, LineCommand, Beginnings
  <2> QED
    BY <2>1
<1>5. Command("lset") => Args[4] \in Colour
  <2> SUFFICES ASSUME Command("lset")
               PROVE  Args[4] \in Colour
    OBVIOUS
  <2>1. Args \in Int \X Int \X Int \X Colour
    BY <1>1 DEF Command, Args, LineCommand, Beginnings
  <2> QED
    BY <2>1
<1> QED
  BY <1>2, <1>3, <1>4, <1>5

\* The same moved by the same: the provers need it for LEDOf.
LEMMA Cancelled ==
  \A p, x, y \in Int : p + x = p + y => x = y
  OBVIOUS

\* Two cells are never drawn at one place.
LEMMA LEDOfInjective ==
  ASSUME size \in Sizes, place \in [Axis -> Int],
         NEW c \in Cells(size), NEW e \in Cells(size), LEDOf(c) = LEDOf(e)
  PROVE  c = e
<1>1. place[1] \in Int /\ place[2] \in Int
  BY DEF Axis
<1>2. /\ place[1] + c[1] = place[1] + e[1] /\ place[2] + c[2] = place[2] + e[2]
      /\ place[1] + c[3] = place[1] + e[3]
  BY DEF LEDOf
<1>3. /\ c = <<c[1], c[2], c[3]>> /\ e = <<e[1], e[2], e[3]>>
      /\ c[1] \in Int /\ c[2] \in Int /\ c[3] \in Int
      /\ e[1] \in Int /\ e[2] \in Int /\ e[3] \in Int
  BY Edges
<1>4. c[1] = e[1] /\ c[2] = e[2] /\ c[3] = e[3]
  BY <1>1, <1>2, <1>3, Cancelled
<1> QED
  BY <1>3, <1>4

\* A colour is stored as it is.
LEMMA ColourIsStored ==
  ASSUME NEW colour \in Colour
  PROVE  Stored(colour) = colour
<1>1. \A ch \in Channel : colour[ch] \in 0 .. MaxLevel
  BY DEF Colour, Level
<1>2. \A v \in 0 .. MaxLevel : v % ByteMod = v
  BY CubeAssumption
<1>3. \A ch \in Channel : Clamp(Byte(colour[ch])) = colour[ch]
  BY <1>1, <1>2, CubeAssumption DEF Clamp, Byte
<1> QED
  BY <1>3 DEF Stored, Colour

\* What drawing one cell does: in the buffer during a transaction, in the cube
\* otherwise.
LEMMA CellDrawn ==
  ASSUME TypeOK, NEW c \in Cells(size), NEW colour \in Colour, NEW buffer \in BOOLEAN,
         LED(buffer, LEDOf(c)[1], LEDOf(c)[2], LEDOf(c)[3], colour)
  PROVE  /\ TypeOK'
         /\ buffer => /\ cube' = cube
                      /\ \A q \in Pos : buffer_cube'[q] =
                           IF q = LEDOf(c) THEN colour ELSE buffer_cube[q]
         /\ ~buffer => /\ buffer_cube' = buffer_cube
                       /\ \A q \in Pos : cube'[q] =
                            IF q = LEDOf(c) THEN colour ELSE cube[q]
<1> DEFINE r == LEDAt(LEDOf(c)[1], LEDOf(c)[2], LEDOf(c)[3])
           new == Fill(Target(buffer), r, colour)
<1>1. r = {LEDOf(c)} \cap Pos
  BY DEF LEDOf, LEDAt
<1>2. Draw(buffer, r, colour)
  BY DEF LED
<1> HIDE DEF r
<1>3. \A q \in Pos : new[q] = IF q = LEDOf(c) THEN colour ELSE Target(buffer)[q]
  BY <1>1, ColourIsStored DEF Fill
<1>4. colour \in [Channel -> Int]
  BY CubeAssumption DEF Colour, Level
<1>5. TypeOK'
  BY <1>2, <1>4, DrawType
<1>6. DrawOn(buffer, new)
  BY <1>2 DEF Draw
<1> HIDE DEF new
<1> QED
  BY <1>3, <1>5, <1>6 DEF DrawOn, Target

\* A cube without a lit cell is dark.
LEMMA NothingLit ==
  ASSUME NEW img \in Image, \A q \in Pos : img[q] = Black
  PROVE  img = Dark
  BY DEF Image, Dark

-----------------------------------------------------------------------------
(* Only cells of the sprite are lit: each step keeps the invariant.        *)

\* At the end of a line.
LEMMA Emptied ==
  ASSUME script' = <<>>, sigmask' = FALSE,
         transaction' => Plain' /\ LitInside(buffer_cube)'
  PROVE  Script' /\ Buffer' /\ Hidden'
<1>1. Len(script') = 0 /\ script' \in Seq(LineCommand(Cells(size)))'
  OBVIOUS
<1>2. Formed(script', Cells(size)')
  BY <1>1 DEF Formed
<1>3. Script'
  BY <1>1, <1>2 DEF Script
<1>4. Hidden'
  BY <1>1 DEF Hidden
<1>5. Buffer'
  BY DEF Buffer, AtCell, Command
<1> QED
  BY <1>3, <1>4, <1>5

\* What is left of the line.
LEMMA ScriptTail ==
  ASSUME Script, script # <<>>, size' = size, script' = Tail(script)
  PROVE  /\ Script' /\ Len(script) \in Nat \ {0} /\ Head(script) = script[1]
         /\ Len(script') = Len(script) - 1
         /\ \A n \in 1 .. Len(script) - 1 : script'[n] = script[n + 1]
         /\ script' # <<>> => Len(script') \in Nat \ {0} /\ Head(script') = script'[1]
         /\ ~Command("open")'
<1>1. script \in Seq(LineCommand(Cells(size))) /\ Formed(script, Cells(size))
  BY DEF Script
<1>2. /\ Len(script) \in Nat \ {0} /\ Head(script) = script[1]
      /\ script' \in Seq(LineCommand(Cells(size))) /\ Len(script') = Len(script) - 1
      /\ \A n \in 1 .. Len(script) - 1 : script'[n] = script[n + 1]
  BY <1>1, TailParts
<1>3. Formed(script', Cells(size))
  BY <1>1, FormedTail
<1>4. Script'
  BY <1>2, <1>3 DEF Script
<1>5. script' # <<>> => Len(script') \in Nat \ {0} /\ Head(script') = script'[1]
  BY <1>2
<1>6. ~Command("open")'
  <2> SUFFICES ASSUME Command("open")'
               PROVE  FALSE
    OBVIOUS
  <2>1. script' # <<>> /\ script'[1].do = "open"
    BY <1>5 DEF Command
  <2>2. 1 \in 1 .. Len(script) - 1 /\ 1 + 1 = 2 /\ 2 \in 2 .. Len(script)
    BY <1>2, <1>5, <2>1
  <2>3. script[2].do = "open"
    BY <1>2, <2>1, <2>2
  <2> QED
    BY <1>1, <2>2, <2>3 DEF Formed
<1> QED
  BY <1>2, <1>4, <1>5, <1>6

\* No transaction goes on after another command.
LEMMA AfterOther ==
  ASSUME Script, script # <<>>, size' = size, script' = Tail(script),
         Head(script).do \notin Beginnings \cup {"open", "led", "hide"}
  PROVE  ~AtCell' /\ ~Command("commit")'
<1>1. /\ Len(script) \in Nat \ {0} /\ Head(script) = script[1]
      /\ Len(script') = Len(script) - 1
      /\ \A n \in 1 .. Len(script) - 1 : script'[n] = script[n + 1]
      /\ script' # <<>> => Len(script') \in Nat \ {0} /\ Head(script') = script'[1]
  BY ScriptTail
<1> SUFFICES ASSUME script' # <<>>
             PROVE  Head(script').do \notin {"led", "hide", "commit"}
  BY DEF AtCell, Command
<1>2. 1 \in 1 .. Len(script) - 1 /\ 1 + 1 = 2 /\ 2 \in 2 .. Len(script) /\ 2 - 1 = 1
  BY <1>1
<1>3. Head(script') = script[2]
  BY <1>1, <1>2
<1>4. script[2].do \in {"led", "hide", "commit"} =>
        script[2 - 1].do \in Beginnings \cup {"open", "led", "hide"}
  BY <1>2 DEF Script, Formed
<1> QED
  BY <1>1, <1>2, <1>3, <1>4

\* A line that is entered has hidden the sprite before it moves it.
LEMMA EnterKeeps ==
  ASSUME TclInv, EnterLine
  PROVE  TclInv'
<1> DEFINE S == Cells(size)
<1>1. /\ Idle /\ UNCHANGED <<drawVars, spriteVars, transaction, sigmask>>
      /\ \/ script' \in {DrawOver, Drawing("begin"), Hide, Move, Bounce}
         \/ \E way \in Rolls : script' = Roll(way[1], way[2])
         \/ \E way \in Rotations : script' = Rotate(way[1], way[2])
         \/ script' = Do("begin", <<>>) \/ script' = Do("commit", <<>>)
  BY DEF EnterLine, Enter
<1>2. /\ cube' = cube /\ buffer_cube' = buffer_cube /\ place' = place
      /\ motion' = motion /\ size' = size /\ data' = data
      /\ transaction' = transaction /\ sigmask' = sigmask /\ script = <<>>
  BY <1>1 DEF drawVars, spriteVars, Idle
<1>3. TypeOK' /\ Shape' /\ NoTrail'
  BY <1>2 DEF TclInv, Typed, TypeOK, Shape, NoTrail, Footprint, LEDOf
<1>4. /\ script' \in Seq(LineCommand(S)) /\ Formed(script', S)
      /\ AllHidden(script', S)
      /\ Head(script').do \notin {"open", "led", "hide"}
  <2>1. size \in Sizes /\ data \in [Cells(size) -> Colour]
    BY DEF TclInv, Typed, Shape
  <2>2. CASE script' = Do("begin", <<>>) \/ script' = Do("commit", <<>>)
    <3>1. PICK name \in {"begin", "commit"} : script' = <<[do |-> name, args |-> <<>>]>>
      BY <2>2 DEF Do
    <3> DEFINE c == [do |-> name, args |-> <<>>]
    <3>2. c \in LineCommand(S) /\ c.do \in {"begin", "commit"}
      BY DEF LineCommand, Beginnings
    <3> HIDE DEF c
    <3>3. /\ <<c>> \in Seq(LineCommand(S)) /\ Len(<<c>>) = 1 /\ <<c>>[1] = c
          /\ Head(<<c>>) = c
      BY <3>2
    <3>4. Formed(<<c>>, S) /\ AllHidden(<<c>>, S)
      <4>1. \A n \in 1 .. 1 : n = 1
        OBVIOUS
      <4> QED
        BY <3>2, <3>3, <4>1 DEF Formed, AllHidden
    <3>5. script' = <<c>>
      BY <3>1 DEF c
    <3> QED
      BY <3>2, <3>3, <3>4, <3>5
  <2>3. CASE ~(script' = Do("begin", <<>>) \/ script' = Do("commit", <<>>))
    <3>1. Line(script', S) /\ AllHidden(script', S)
      BY <1>1, <2>1, <2>3, EnteredLines
    <3>2. Head(script') = script'[1]
      BY <3>1, TailParts DEF Line
    <3> QED
      BY <3>1, <3>2 DEF Line
  <2> QED
    BY <2>2, <2>3
<1>5. Script'
  BY <1>2, <1>4 DEF Script
<1>6. Buffer'
  <2>1. transaction => Plain /\ LitInside(buffer_cube)
    BY <1>2 DEF TclInv, Buffer, AtCell, Command
  <2>2. transaction' => Plain' /\ LitInside(buffer_cube)'
    BY <1>2, <2>1 DEF Plain, LitInside, Footprint, LEDOf
  <2>3. sigmask' => ~transaction'
    BY <1>2 DEF TclInv, Buffer
  <2>4. ~AtCell' /\ ~Command("open")'
    BY <1>4 DEF AtCell, Command
  <2> QED
    BY <2>2, <2>3, <2>4 DEF Buffer
<1>7. Hidden'
  BY <1>2, <1>4 DEF Hidden, AllHidden
<1> QED
  BY <1>3, <1>5, <1>6, <1>7 DEF TclInv, Typed

\* The user changes the sprite between two lines, and places it in a dark cube
\* only.
LEMMA ConfigureKeeps ==
  ASSUME TclInv, SetPlace \/ SetMotion \/ SetPicture
  PROVE  TclInv'
<1>1. /\ script = <<>> /\ cube' = cube /\ buffer_cube' = buffer_cube /\ size' = size
      /\ transaction' = transaction /\ sigmask' = sigmask /\ script' = script
  BY DEF SetPlace, SetMotion, SetPicture, Configure, Idle, drawVars
<1>2. TypeOK /\ Shape /\ NoTrail /\ Buffer
  BY DEF TclInv, Typed
<1>3. TypeOK'
  BY <1>1, <1>2 DEF TypeOK
<1>4. Shape'
  <2>1. CASE SetPlace
    BY <1>1, <1>2, <2>1, TclAssumption DEF SetPlace, Shape
  <2>2. CASE SetMotion
    BY <1>1, <1>2, <2>2, TclAssumption DEF SetMotion, Shape
  <2>3. CASE SetPicture
    BY <1>1, <1>2, <2>3, TclAssumption DEF SetPicture, Shape
  <2> QED
    BY <2>1, <2>2, <2>3
<1>5. place' = place \/ cube = Dark
  BY DEF SetPlace, SetMotion, SetPicture
<1>6. NoTrail'
  <2>1. CASE place' = place
    BY <1>1, <1>2, <2>1 DEF NoTrail, Footprint, LEDOf
  <2>2. CASE cube = Dark
    BY <1>1, <2>2 DEF NoTrail, Dark
  <2> QED
    BY <1>5, <2>1, <2>2
<1>7. transaction => Plain /\ LitInside(buffer_cube)
  BY <1>1, <1>2 DEF Buffer, AtCell, Command
<1>8. transaction' => Plain' /\ LitInside(buffer_cube)'
  <2>1. CASE place' = place
    BY <1>1, <1>7, <2>1 DEF Plain, LitInside, Footprint, LEDOf
  <2>2. CASE cube = Dark
    BY <1>1, <1>7, <2>2 DEF Plain, LitInside, Dark
  <2> QED
    BY <1>5, <2>1, <2>2
<1>9. Script' /\ Hidden'
  <2>1. Len(script') = 0 /\ script' \in Seq(LineCommand(Cells(size)))'
    BY <1>1
  <2>2. Formed(script', Cells(size)')
    BY <2>1 DEF Formed
  <2> QED
    BY <2>1, <2>2 DEF Script, Hidden
<1>10. Buffer'
  <2>1. ~AtCell' /\ ~Command("open")' /\ (sigmask' => ~transaction')
    BY <1>1, <1>2 DEF AtCell, Command, Buffer
  <2> QED
    BY <1>8, <2>1 DEF Buffer
<1> QED
  BY <1>3, <1>4, <1>6, <1>9, <1>10 DEF TclInv, Typed

\* A command that fails takes the rest of the line with it.
LEMMA FailsKeeps ==
  ASSUME TclInv, BeginFails \/ CommitFails \/ SetCellFails
  PROVE  TclInv'
<1>1. /\ script' = <<>> /\ sigmask' = FALSE /\ cube' = cube /\ buffer_cube' = buffer_cube
      /\ place' = place /\ motion' = motion /\ size' = size /\ data' = data
      /\ transaction' = transaction
  BY DEF BeginFails, CommitFails, SetCellFails, Fails, drawVars, spriteVars
<1>2. TypeOK' /\ Shape' /\ NoTrail'
  BY <1>1 DEF TclInv, Typed, TypeOK, Shape, NoTrail, Footprint, LEDOf
<1>3. transaction => Plain /\ LitInside(buffer_cube)
  BY DEF TclInv, Buffer, BeginFails, CommitFails, SetCellFails, Begins, AtCell, Command
<1>4. transaction' => Plain' /\ LitInside(buffer_cube)'
  BY <1>1, <1>3 DEF Plain, LitInside, Footprint, LEDOf
<1> QED
  BY <1>1, <1>2, <1>4, Emptied DEF TclInv, Typed

\* Nothing but a command that steers is before the block that hides a sprite to
\* be moved, once cube.begin is not the next command.
LEMMA NotBefore ==
  ASSUME Script, script # <<>>, Head(script).do \notin {"begin -copy", "steer"},
         NEW n \in 1 .. Len(script)
  PROVE  ~HiddenBefore(script, Cells(size), n)
  BY HiddenTail DEF Script

\* cube.begin prepares the buffer: the block after it is still to be done.
LEMMA BeginKeeps ==
  ASSUME TclInv, BeginCopies
  PROVE  TclInv'
<1> DEFINE S == Cells(size)
<1>1. /\ script # <<>> /\ Head(script).do \in Beginnings /\ ~transaction
      /\ cube' = cube /\ buffer_cube' \in {Dark, cube}
      /\ script' = Do("open", <<>>) \o Tail(script)
      /\ place' = place /\ motion' = motion /\ size' = size /\ data' = data
      /\ transaction' = transaction /\ sigmask' = sigmask
  BY DEF BeginCopies, Begins, Command, Beginnings, cube_buffer_clear, cube_buffer,
         spriteVars
<1>2. TypeOK /\ Shape /\ Script /\ NoTrail /\ Buffer /\ Hidden
  BY DEF TclInv, Typed
<1>3. TypeOK'
  BY <1>1, <1>2, DarkImage DEF TypeOK
<1>4. Shape' /\ NoTrail'
  BY <1>1, <1>2 DEF Shape, NoTrail, Footprint, LEDOf
<1>5. /\ script' \in Seq(LineCommand(S)) /\ Formed(script', S)
      /\ script' # <<>> /\ Head(script').do = "open" /\ Len(script') = Len(script)
      /\ \A n \in 2 .. Len(script) : script'[n] = script[n]
  BY <1>1, <1>2, OpenParts DEF Script
<1>6. /\ Len(script) \in Nat \ {0} /\ Head(script) = script[1] /\ Head(script') = script'[1]
  BY <1>1, <1>2, <1>5, TailParts DEF Script
<1>7. Script'
  BY <1>1, <1>5 DEF Script
<1>8. ASSUME NEW name \in {"led", "hide"}, NEW k, Whole(script, S, name, 2, k)
      PROVE  Building(name, k)'
  <2>1. k \in 2 .. Len(script) /\ k \in 1 .. Len(script') /\ script[k].do = "commit"
    BY <1>5, <1>6, <1>8 DEF Whole
  <2>2. \A j \in 2 .. k : script'[j] = script[j]
    BY <1>5, <1>6, <2>1
  <2>3. \A j \in 2 .. k - 1 : j \in 2 .. k /\ j \in 1 .. k - 1
    BY <1>6, <2>1
  <2>4. \A j \in 1 .. k - 1 : j = 1 \/ j \in 2 .. k - 1
    BY <1>6, <2>1
  <2>5. script'[k].do = "commit"
    BY <1>6, <2>1, <2>2
  <2>6. AllOf(script', {"open", name}, 1, k - 1)
    <3> SUFFICES ASSUME NEW j \in 1 .. k - 1
                 PROVE  script'[j].do \in {"open", name}
      BY DEF AllOf
    <3>1. CASE j = 1
      BY <1>5, <1>6, <3>1
    <3>2. CASE j \in 2 .. k - 1
      BY <1>8, <2>2, <2>3, <3>2 DEF Whole, AllOf
    <3> QED
      BY <2>4, <3>1, <3>2
  <2>7. \A c \in S : \E j \in 1 .. k - 1 : script'[j] = [do |-> name, args |-> c]
    <3> TAKE c \in S
    <3>1. PICK j \in 2 .. k - 1 : script[j] = [do |-> name, args |-> c]
      BY <1>8 DEF Whole, Covers
    <3> QED
      BY <2>2, <2>3, <3>1
  <2> QED
    BY <1>1, <2>1, <2>5, <2>6, <2>7 DEF Building
<1>9. Buffer'
  <2>1. ~AtCell' /\ ~transaction'
    BY <1>1, <1>5 DEF AtCell, Command
  <2>2. Plain' /\ LitInside(buffer_cube)'
    BY <1>1, <1>2 DEF Plain, LitInside, NoTrail, Dark, Footprint, LEDOf
  <2>3. ASSUME Len(script') > 1
        PROVE  Current'
    <3>1. 1 \in 1 .. Len(script) - 1 /\ script[1].do \in Beginnings /\ 1 + 1 = 2
      BY <1>1, <1>5, <1>6, <2>3
    <3>2. PICK name \in {"led", "hide"}, k \in 1 .. Len(script) : Whole(script, S, name, 1 + 1, k)
      BY <1>2, <3>1 DEF Script, Formed
    <3>3. Building(name, k)'
      BY <1>8, <3>1, <3>2
    <3>4. k \in 1 .. Len(script')
      BY <1>5, <3>2
    <3> QED
      BY <3>3, <3>4 DEF Current
  <2> QED
    BY <2>1, <2>2, <2>3 DEF Buffer
<1>10. Hidden'
  <2> SUFFICES ASSUME NEW n \in 1 .. Len(script'), script'[n].do = "incr"
               PROVE  \E k \in 1 .. n - 1 : Building("hide", k)' /\ AllOf(script', {"incr"}, k + 1, n)
    BY DEF Hidden
  <2>1. n # 1
    BY <1>5, <1>6
  <2>2. n \in 2 .. Len(script) /\ n \in 1 .. Len(script)
    BY <1>5, <1>6, <2>1
  <2>3. script[n].do = "incr"
    BY <1>5, <2>2
  <2>4. \/ HiddenBefore(script, S, n)
        \/ \E k \in 1 .. n - 1 : Building("hide", k)
        \/ AllOf(script, {"incr"}, 1, n)
    BY <1>2, <2>2, <2>3 DEF Hidden
  <2>5. ~AllOf(script, {"incr"}, 1, n)
    <3>1. 1 \in 1 .. n
      BY <1>6, <2>2
    <3> QED
      BY <1>1, <1>6, <3>1 DEF AllOf, Beginnings
  <2>6. ASSUME NEW k \in 1 .. n - 1, Building("hide", k)
        PROVE  FALSE
    <3>1. CASE k = 1
      BY <1>1, <1>6, <2>6, <3>1 DEF Building, Beginnings
    <3>2. CASE k # 1
      <4>1. 1 \in 1 .. k - 1
        BY <3>2, <2>2
      <4> QED
        BY <1>1, <1>6, <2>6, <4>1 DEF Building, AllOf, Beginnings
    <3> QED
      BY <3>1, <3>2
  <2>7. HiddenBefore(script, S, n)
    BY <2>4, <2>5, <2>6
  <2>8. PICK b \in 1 .. n : \E k \in b + 1 .. n - 1 :
          /\ AllOf(script, {"steer"}, 1, b - 1)
          /\ Whole(script, S, "hide", b + 1, k)
          /\ AllOf(script, {"incr"}, k + 1, n)
    BY <2>7 DEF HiddenBefore
  <2>9. b = 1
    <3> SUFFICES ASSUME b # 1
                 PROVE  FALSE
      OBVIOUS
    <3>1. 1 \in 1 .. b - 1
      BY <2>2
    <3> QED
      BY <1>1, <1>6, <2>8, <3>1 DEF AllOf, Beginnings
  <2>10. PICK k \in 2 .. n - 1 :
           Whole(script, S, "hide", 2, k) /\ AllOf(script, {"incr"}, k + 1, n)
    <3>1. b + 1 = 2
      BY <2>9
    <3> QED
      BY <2>8, <3>1
  <2>11. Building("hide", k)'
    BY <1>8, <2>10
  <2>12. AllOf(script', {"incr"}, k + 1, n)
    <3> SUFFICES ASSUME NEW j \in k + 1 .. n
                 PROVE  script'[j].do = "incr"
      BY DEF AllOf
    <3>1. j \in 2 .. Len(script)
      BY <1>6, <2>2
    <3> QED
      BY <1>5, <2>10, <3>1 DEF AllOf
  <2>13. k \in 1 .. n - 1
    BY <2>2
  <2> QED
    BY <2>11, <2>12, <2>13
<1> QED
  BY <1>3, <1>4, <1>7, <1>9, <1>10 DEF TclInv, Typed

\* A command of the block being done leaves the rest of it to be done.
LEMMA BlockGoesOn ==
  ASSUME Script, script # <<>>, script' = Tail(script),
         place' = place, size' = size, data' = data,
         NEW name, NEW k, Building(name, k), k > 1,
         \A c \in Cells(size) :
           LEDOf(c) \in Pos /\ (\/ buffer_cube[LEDOf(c)] = Wanted(name, c)
                                \/ script[1] = [do |-> name, args |-> c])
           => buffer_cube'[LEDOf(c)] = Wanted(name, c)
  PROVE  Building(name, k - 1)'
<1>1. /\ Len(script) \in Nat \ {0} /\ Len(script') = Len(script) - 1
      /\ \A n \in 1 .. Len(script) - 1 : script'[n] = script[n + 1]
  BY ScriptTail
<1>2. /\ k \in 1 .. Len(script) /\ script[k].do = "commit"
      /\ AllOf(script, {"open", name}, 1, k - 1)
  BY DEF Building
<1>3. /\ k \in Int /\ k - 1 \in 1 .. Len(script') /\ k - 1 \in 1 .. Len(script) - 1
      /\ (k - 1) + 1 = k
  BY <1>1, <1>2
<1>4. script'[k - 1].do = "commit"
  <2>1. script'[k - 1] = script[(k - 1) + 1]
    BY <1>1, <1>3
  <2>2. script'[k - 1] = script[k]
    BY <1>3, <2>1
  <2> QED
    BY <1>2, <2>2
<1>5. AllOf(script', {"open", name}, 1, (k - 1) - 1)
  <2> SUFFICES ASSUME NEW j \in 1 .. (k - 1) - 1
               PROVE  script'[j].do \in {"open", name}
    BY DEF AllOf
  <2>1. j + 1 \in 1 .. k - 1 /\ j \in 1 .. Len(script) - 1
    BY <1>1, <1>3
  <2> QED
    BY <1>1, <1>2, <2>1 DEF AllOf
<1>6. ASSUME NEW c \in Cells(size), LEDOf(c) \in Pos
      PROVE  \/ buffer_cube'[LEDOf(c)] = Wanted(name, c)
             \/ \E j \in 1 .. (k - 1) - 1 : script'[j] = [do |-> name, args |-> c]
  <2>1. CASE buffer_cube[LEDOf(c)] = Wanted(name, c) \/ script[1] = [do |-> name, args |-> c]
    BY <1>6, <2>1
  <2>2. CASE ~(buffer_cube[LEDOf(c)] = Wanted(name, c) \/ script[1] = [do |-> name, args |-> c])
    <3>1. PICK j \in 1 .. k - 1 : script[j] = [do |-> name, args |-> c]
      BY <1>6, <2>2 DEF Building
    <3>2. j # 1
      BY <2>2, <3>1
    <3>3. j - 1 \in 1 .. (k - 1) - 1 /\ j - 1 \in 1 .. Len(script) - 1 /\ (j - 1) + 1 = j
      BY <1>1, <1>3, <3>2
    <3>4. script'[j - 1] = script[(j - 1) + 1]
      BY <1>1, <3>3
    <3>5. script'[j - 1] = script[j]
      BY <3>3, <3>4
    <3> QED
      BY <3>1, <3>3, <3>5
  <2> QED
    BY <2>1, <2>2
<1>7. \A c \in Cells(size)' : LEDOf(c)' \in Pos =>
        \/ buffer_cube'[LEDOf(c)'] = Wanted(name, c)'
        \/ \E j \in 1 .. (k - 1) - 1 : script'[j] = [do |-> name, args |-> c]
  <2>1. \A c : LEDOf(c)' = LEDOf(c) /\ Wanted(name, c)' = Wanted(name, c)
    BY DEF LEDOf, Wanted
  <2>2. Cells(size)' = Cells(size)
    OBVIOUS
  <2> QED
    BY <1>6, <2>1, <2>2
<1> QED
  BY <1>3, <1>4, <1>5, <1>7 DEF Building

\* A command of a block, done as it should be: the rest of the block follows.
LEMMA BlockStep ==
  ASSUME Script, script # <<>>, script' = Tail(script),
         place' = place, size' = size, data' = data,
         Head(script).do \in {"open", "led", "hide"}, Current, Hidden,
         \A name \in {"led", "hide"}, c \in Cells(size) :
           LEDOf(c) \in Pos /\ script[1].do \in {"open", name}
           /\ (\/ buffer_cube[LEDOf(c)] = Wanted(name, c)
               \/ script[1] = [do |-> name, args |-> c])
           => buffer_cube'[LEDOf(c)] = Wanted(name, c)
  PROVE  Current' /\ (AtCell' \/ Command("commit")') /\ Hidden'
<1>1. /\ Len(script) \in Nat \ {0} /\ Head(script) = script[1]
      /\ Len(script') = Len(script) - 1
      /\ \A n \in 1 .. Len(script) - 1 : script'[n] = script[n + 1]
      /\ script' # <<>> => Len(script') \in Nat \ {0} /\ Head(script') = script'[1]
  BY ScriptTail
<1>2. ASSUME NEW name \in {"led", "hide"}, NEW k, Building(name, k)
      PROVE  k > 1 /\ k \in Int /\ Building(name, k - 1)' /\ k - 1 \in 1 .. Len(script')
  <2>1. k \in 1 .. Len(script) /\ script[k].do = "commit"
        /\ AllOf(script, {"open", name}, 1, k - 1)
    BY <1>2 DEF Building
  <2>2. k \in Int /\ k > 1 /\ 1 \in 1 .. k - 1 /\ k - 1 \in 1 .. Len(script')
    BY <1>1, <2>1
  <2>3. script[1].do \in {"open", name}
    BY <2>1, <2>2 DEF AllOf
  <2>4. Building(name, k - 1)'
    BY <1>2, <2>2, <2>3, BlockGoesOn
  <2> QED
    BY <2>2, <2>4
<1>3. PICK name \in {"led", "hide"}, k \in 1 .. Len(script) : Building(name, k)
  BY DEF Current
<1>4. Current'
  <2>1. Building(name, k - 1)' /\ k - 1 \in 1 .. Len(script')
    BY <1>2, <1>3
  <2> QED
    BY <2>1 DEF Current
<1>5. AtCell' \/ Command("commit")'
  <2>1. Building(name, k - 1)' /\ k - 1 \in 1 .. Len(script') /\ k \in Int
    BY <1>2, <1>3
  <2>2. /\ script'[k - 1].do = "commit"
        /\ AllOf(script', {"open", name}, 1, (k - 1) - 1)
    BY <2>1 DEF Building
  <2>3. Len(script') \in Int /\ script' # <<>>
    BY <1>1, <2>1
  <2>4. CASE k - 1 = 1
    BY <1>1, <2>2, <2>3, <2>4 DEF Command
  <2>5. CASE k - 1 # 1
    <3>1. 1 \in 1 .. (k - 1) - 1 /\ 1 \in 1 .. Len(script) - 1 /\ 1 + 1 = 2
          /\ 2 \in 2 .. Len(script)
      BY <1>1, <2>1, <2>5
    <3>2. script'[1].do \in {"open", name}
      BY <2>2, <3>1 DEF AllOf
    <3>3. script'[1].do # "open"
      BY <1>1, <3>1 DEF Script, Formed
    <3> QED
      BY <1>1, <2>3, <3>2, <3>3 DEF AtCell, Command
  <2> QED
    BY <2>4, <2>5
<1>6. Hidden'
  <2> SUFFICES ASSUME NEW n \in 1 .. Len(script'), script'[n].do = "incr"
               PROVE  \E k1 \in 1 .. n - 1 :
                        Building("hide", k1)' /\ AllOf(script', {"incr"}, k1 + 1, n)
    BY DEF Hidden
  <2>1. n + 1 \in 1 .. Len(script) /\ n \in 1 .. Len(script) - 1 /\ n \in Int
    BY <1>1
  <2>2. script[n + 1].do = "incr"
    BY <1>1, <2>1
  <2>3. ~HiddenBefore(script, Cells(size), n + 1)
    BY <2>1, NotBefore
  <2>4. ~AllOf(script, {"incr"}, 1, n + 1)
    <3>1. 1 \in 1 .. n + 1
      BY <2>1
    <3> QED
      BY <1>1, <3>1 DEF AllOf
  <2>5. \E j \in 1 .. (n + 1) - 1 :
          Building("hide", j) /\ AllOf(script, {"incr"}, j + 1, n + 1)
    BY <2>1, <2>2, <2>3, <2>4 DEF Hidden
  <2>6. PICK j \in 1 .. (n + 1) - 1 :
          Building("hide", j) /\ AllOf(script, {"incr"}, j + 1, n + 1)
    BY <2>5
  <2>7. j > 1 /\ j \in Int /\ Building("hide", j - 1)'
    BY <1>2, <2>6
  <2>8. j - 1 \in 1 .. n - 1 /\ (j - 1) + 1 = j
    BY <2>1, <2>6, <2>7
  <2>9. AllOf(script', {"incr"}, (j - 1) + 1, n)
    <3> SUFFICES ASSUME NEW i \in (j - 1) + 1 .. n
                 PROVE  script'[i].do = "incr"
      BY DEF AllOf
    <3>1. i \in 1 .. Len(script) - 1 /\ i + 1 \in j + 1 .. n + 1
      BY <1>1, <2>1, <2>6
    <3> QED
      BY <1>1, <2>6, <3>1 DEF AllOf
  <2> QED
    BY <2>7, <2>8, <2>9
<1> QED
  BY <1>4, <1>5, <1>6

\* The transaction opens on a buffer the sprite is alone in.
LEMMA OpenKeeps ==
  ASSUME TclInv, BeginOpens
  PROVE  TclInv'
<1>1. /\ script # <<>> /\ Head(script).do = "open" /\ transaction' = TRUE
      /\ cube' = cube /\ buffer_cube' = buffer_cube /\ place' = place
      /\ motion' = motion /\ size' = size /\ data' = data
      /\ script' = (IF sigmask THEN <<>> ELSE Tail(script)) /\ sigmask' = FALSE
  BY DEF BeginOpens, Command, Returns, Continues, drawVars, spriteVars
<1>2. TypeOK /\ Shape /\ Script /\ NoTrail /\ Buffer /\ Hidden
  BY DEF TclInv, Typed
<1>3. TypeOK' /\ Shape' /\ NoTrail'
  BY <1>1, <1>2 DEF TypeOK, Shape, NoTrail, Footprint, LEDOf
<1>4. Plain /\ LitInside(buffer_cube) /\ (Len(script) > 1 => Current)
  BY <1>1, <1>2 DEF Buffer, Command
<1>5. Plain' /\ LitInside(buffer_cube)'
  BY <1>1, <1>4 DEF Plain, LitInside, Footprint, LEDOf
<1>6. CASE script' = <<>>
  BY <1>1, <1>2, <1>3, <1>5, <1>6, Emptied DEF TclInv, Typed
<1>7. CASE script' # <<>>
  <2>1. script' = Tail(script)
    BY <1>1, <1>7
  <2>2. Script' /\ Len(script) \in Nat \ {0} /\ Len(script') = Len(script) - 1
        /\ Len(script') \in Nat \ {0} /\ Head(script) = script[1] /\ ~Command("open")'
    BY <1>1, <1>2, <1>7, <2>1, ScriptTail
  <2>3. Current
    BY <1>4, <2>2
  <2>4. \A name \in {"led", "hide"}, c \in Cells(size) : script[1] # [do |-> name, args |-> c]
    BY <1>1, <2>2
  <2>5. Current' /\ (AtCell' \/ Command("commit")') /\ Hidden'
    BY <1>1, <1>2, <2>1, <2>3, <2>4, BlockStep
  <2>6. Buffer'
    BY <1>1, <1>5, <2>2, <2>5 DEF Buffer
  <2> QED
    BY <1>3, <2>2, <2>5, <2>6 DEF TclInv, Typed
<1> QED
  BY <1>6, <1>7

\* A cell drawn or hidden: in the buffer while the transaction lasts, in the
\* cube itself once a signal has ended it.
LEMMA CellKeeps ==
  ASSUME TclInv, DrawCell \/ HideCell
  PROVE  TclInv' /\ (cube' # cube => sigmask)
<1> DEFINE h == Head(script).do
           a == Args
<1>1. TypeOK /\ Shape /\ Script /\ NoTrail /\ Buffer /\ Hidden
  BY DEF TclInv, Typed
<1>2. AtCell /\ h \in {"led", "hide"} /\ script # <<>>
  BY DEF DrawCell, HideCell, AtCell, Command
<1>3. a \in Cells(size) /\ Cell = a /\ size \in Sizes
  BY <1>1, <1>2, Arguments DEF Shape
<1>4. /\ LED(transaction, LEDOf(a)[1], LEDOf(a)[2], LEDOf(a)[3], Wanted(h, a))
      /\ place' = place /\ motion' = motion /\ size' = size /\ data' = data
      /\ transaction' = transaction /\ sigmask' = FALSE
      /\ script' = IF sigmask THEN <<>> ELSE Tail(script)
  BY <1>3 DEF DrawCell, HideCell, Command, Wanted, Returns, Continues, spriteVars
<1>5. Wanted(h, a) \in Colour
  BY <1>1, <1>3, DarkImage DEF Wanted, Shape
<1>6. /\ TypeOK'
      /\ transaction => /\ cube' = cube
                        /\ \A q \in Pos : buffer_cube'[q] =
                             IF q = LEDOf(a) THEN Wanted(h, a) ELSE buffer_cube[q]
      /\ ~transaction => /\ buffer_cube' = buffer_cube
                         /\ \A q \in Pos : cube'[q] =
                              IF q = LEDOf(a) THEN Wanted(h, a) ELSE cube[q]
  <2>1. transaction \in BOOLEAN
    BY <1>1 DEF Shape
  <2> HIDE DEF a, h
  <2> QED
    BY <1>1, <1>3, <1>4, <1>5, <2>1, CellDrawn
<1>7. Shape'
  BY <1>1, <1>4 DEF Shape
<1>8. LEDOf(a) \in Footprint /\ Footprint' = Footprint
  BY <1>3, <1>4 DEF Footprint, LEDOf
<1>9. (sigmask => ~transaction) /\ (sigmask \/ transaction) /\ Current
  BY <1>1, <1>2 DEF Buffer
<1> HIDE DEF a, h
<1>10. CASE sigmask
  <2>1. NoTrail'
    BY <1>1, <1>6, <1>8, <1>9, <1>10 DEF NoTrail
  <2>2. script' = <<>> /\ sigmask' = FALSE /\ ~transaction'
    BY <1>4, <1>9, <1>10
  <2> QED
    BY <1>6, <1>7, <1>10, <2>1, <2>2, Emptied DEF TclInv, Typed
<1>11. CASE ~sigmask
  <2>1. transaction /\ cube' = cube /\ script' = Tail(script)
    BY <1>4, <1>6, <1>9, <1>11
  <2>2. NoTrail'
    BY <1>1, <1>8, <2>1 DEF NoTrail
  <2>3. Script' /\ Head(script) = script[1] /\ ~Command("open")'
    BY <1>1, <1>2, <1>4, <2>1, ScriptTail
  <2>4. ASSUME NEW name \in {"led", "hide"}, NEW c \in Cells(size),
               LEDOf(c) \in Pos, script[1].do \in {"open", name},
               \/ buffer_cube[LEDOf(c)] = Wanted(name, c)
               \/ script[1] = [do |-> name, args |-> c]
        PROVE  buffer_cube'[LEDOf(c)] = Wanted(name, c)
    <3>1. name = h
      BY <1>2, <2>3, <2>4 DEF h
    <3>2. CASE LEDOf(c) = LEDOf(a)
      <4>1. c = a
        BY <1>1, <1>3, <3>2, LEDOfInjective DEF Shape
      <4> QED
        BY <1>6, <2>1, <2>4, <3>1, <3>2, <4>1
    <3>3. CASE LEDOf(c) # LEDOf(a)
      <4>1. script[1] # [do |-> name, args |-> c]
        <5>1. c # a
          BY <3>3
        <5> QED
          BY <2>3, <5>1, CommandParts DEF a, Args
      <4> QED
        BY <1>6, <2>1, <2>4, <3>3, <4>1
    <3> QED
      BY <3>2, <3>3
  <2>5. Head(script).do \in {"open", "led", "hide"}
    BY <1>2 DEF h
  <2>6. Current' /\ (AtCell' \/ Command("commit")') /\ Hidden'
    BY <1>1, <1>2, <1>4, <1>9, <2>1, <2>4, <2>5, BlockStep
  <2>7. LitInside(buffer_cube)'
    <3>1. LitInside(buffer_cube)
      BY <1>1, <2>1 DEF Buffer
    <3> QED
      BY <1>6, <1>8, <2>1, <3>1 DEF LitInside
  <2>8. Buffer'
    BY <1>4, <2>1, <2>3, <2>6, <2>7 DEF Buffer
  <2> QED
    BY <1>6, <1>7, <2>1, <2>2, <2>3, <2>6, <2>8 DEF TclInv, Typed
<1> QED
  BY <1>10, <1>11

\* A transaction that is committed shows the sprite, or nothing.
LEMMA CommitKeeps ==
  ASSUME TclInv, Commit
  PROVE  TclInv' /\ (cube' # cube => AllShown' \/ cube' = Dark)
<1> DEFINE S == Cells(size)
<1>1. TypeOK /\ Shape /\ Script /\ NoTrail /\ Buffer /\ Hidden
  BY DEF TclInv, Typed
<1>2. /\ script # <<>> /\ Head(script).do = "commit" /\ transaction
      /\ cube' = buffer_cube /\ buffer_cube' = buffer_cube /\ place' = place
      /\ motion' = motion /\ size' = size /\ data' = data
      /\ transaction' = FALSE /\ sigmask' = FALSE /\ script' = Tail(script)
  BY <1>1 DEF Commit, Command, Returns, Continues, cube_from_buffer, spriteVars, Buffer
<1>3. /\ Script' /\ Len(script) \in Nat \ {0} /\ Head(script) = script[1]
      /\ Len(script') = Len(script) - 1 /\ ~Command("open")'
      /\ \A n \in 1 .. Len(script) - 1 : script'[n] = script[n + 1]
  BY <1>1, <1>2, ScriptTail
<1>4. ~AtCell' /\ ~Command("commit")'
  BY <1>1, <1>2, AfterOther DEF Beginnings
<1>5. LitInside(buffer_cube) /\ (Plain \/ Current)
  BY <1>1, <1>2 DEF Buffer, AtCell, Command
<1>6. NoTrail'
  BY <1>2, <1>5 DEF NoTrail, LitInside, Footprint, LEDOf
<1>7. ASSUME NEW name \in {"led", "hide"}, NEW k, Building(name, k)
      PROVE  /\ k = 1
             /\ \A c \in S : LEDOf(c) \in Pos => buffer_cube[LEDOf(c)] = Wanted(name, c)
  <2>1. /\ k \in 1 .. Len(script) /\ AllOf(script, {"open", name}, 1, k - 1)
        /\ \A c \in S : LEDOf(c) \in Pos =>
             \/ buffer_cube[LEDOf(c)] = Wanted(name, c)
             \/ \E j \in 1 .. k - 1 : script[j] = [do |-> name, args |-> c]
    BY <1>7 DEF Building
  <2>2. k = 1
    <3> SUFFICES ASSUME k # 1
                 PROVE  FALSE
      OBVIOUS
    <3>1. 1 \in 1 .. k - 1
      BY <1>3, <2>1
    <3> QED
      BY <1>2, <1>3, <2>1, <3>1 DEF AllOf
  <2>3. 1 .. k - 1 = {}
    BY <2>2
  <2> QED
    BY <2>1, <2>2, <2>3
<1>8. ASSUME NEW k, Building("hide", k)
      PROVE  k = 1 /\ buffer_cube = Dark
  <2>1. k = 1 /\ \A c \in S : LEDOf(c) \in Pos => buffer_cube[LEDOf(c)] = Black
    BY <1>7, <1>8 DEF Wanted
  <2>2. \A q \in Pos : buffer_cube[q] = Black
    BY <1>5, <2>1 DEF LitInside, Footprint
  <2> QED
    BY <1>1, <2>1, <2>2, NothingLit DEF TypeOK
<1>9. Hidden'
  <2> SUFFICES ASSUME NEW n \in 1 .. Len(script'), script'[n].do = "incr"
               PROVE  cube' = Dark /\ AllOf(script', {"incr"}, 1, n)
    BY <1>2 DEF Hidden
  <2>1. n + 1 \in 1 .. Len(script) /\ n \in 1 .. Len(script) - 1 /\ n \in Int
    BY <1>3
  <2>2. script[n + 1].do = "incr"
    BY <1>3, <2>1
  <2>3. ~HiddenBefore(script, S, n + 1)
    BY <1>1, <1>2, <2>1, NotBefore
  <2>4. \E k \in 1 .. (n + 1) - 1 :
          Building("hide", k) /\ AllOf(script, {"incr"}, k + 1, n + 1)
    BY <1>1, <1>2, <2>1, <2>2, <2>3 DEF Hidden
  <2>5. PICK k \in 1 .. (n + 1) - 1 :
          Building("hide", k) /\ AllOf(script, {"incr"}, k + 1, n + 1)
    BY <2>4
  <2>6. k = 1 /\ buffer_cube = Dark
    BY <1>8, <2>5
  <2>7. AllOf(script', {"incr"}, 1, n)
    <3> SUFFICES ASSUME NEW i \in 1 .. n
                 PROVE  script'[i].do = "incr"
      BY DEF AllOf
    <3>1. i \in 1 .. Len(script) - 1 /\ i + 1 \in k + 1 .. n + 1
      BY <1>3, <2>1, <2>6
    <3> QED
      BY <1>3, <2>5, <3>1 DEF AllOf
  <2> QED
    BY <1>2, <2>6, <2>7
<1>10. cube' # cube => AllShown' \/ cube' = Dark
  <2>1. CASE Plain
    BY <1>2, <2>1 DEF Plain
  <2>2. CASE Current
    <3>1. PICK name \in {"led", "hide"}, k \in 1 .. Len(script) : Building(name, k)
      BY <2>2 DEF Current
    <3>2. CASE name = "hide"
      BY <1>2, <1>8, <3>1, <3>2
    <3>3. CASE name = "led"
      <4>1. \A c \in S : LEDOf(c) \in Pos => buffer_cube[LEDOf(c)] = data[c]
        BY <1>7, <3>1, <3>3 DEF Wanted
      <4> QED
        BY <1>2, <4>1 DEF AllShown, LEDOf
    <3> QED
      BY <3>1, <3>2, <3>3
  <2> QED
    BY <1>5, <2>1, <2>2
<1>11. TypeOK' /\ Shape'
  BY <1>1, <1>2 DEF TypeOK, Shape
<1>12. Buffer'
  BY <1>2, <1>3, <1>4 DEF Buffer
<1> QED
  BY <1>3, <1>6, <1>9, <1>10, <1>11, <1>12 DEF TclInv, Typed

\* A command that draws nothing leaves the sprite hidden before a movement.
LEMMA OtherStep ==
  ASSUME Script, script # <<>>, script' = Tail(script), size' = size, Hidden,
         Head(script).do \notin Beginnings \cup {"open", "led", "hide", "commit"},
         cube' = cube, transaction' = transaction
  PROVE  Hidden'
<1>1. /\ Len(script) \in Nat \ {0} /\ Head(script) = script[1]
      /\ Len(script') = Len(script) - 1
      /\ \A n \in 1 .. Len(script) - 1 : script'[n] = script[n + 1]
  BY ScriptTail
<1> SUFFICES ASSUME NEW n \in 1 .. Len(script'), script'[n].do = "incr"
             PROVE  \/ HiddenBefore(script', Cells(size), n)
                    \/ cube' = Dark /\ ~transaction' /\ AllOf(script', {"incr"}, 1, n)
  BY DEF Hidden
<1>2. /\ n + 1 \in 1 .. Len(script) /\ n \in 1 .. Len(script) - 1 /\ n \in Int
      /\ (n + 1) - 1 = n
  BY <1>1
<1>3. script[n + 1].do = "incr"
  BY <1>1, <1>2
<1>4. CASE HiddenBefore(script, Cells(size), n + 1)
  <2>1. \/ Head(script).do = "begin -copy"
        \/ HiddenBefore(Tail(script), Cells(size), (n + 1) - 1)
    BY <1>2, <1>4, HiddenTail DEF Script
  <2> QED
    BY <1>2, <2>1 DEF Beginnings
<1>5. ASSUME NEW k \in 1 .. (n + 1) - 1, Building("hide", k)
      PROVE  FALSE
  <2>1. k \in 1 .. Len(script) /\ script[k].do = "commit"
        /\ AllOf(script, {"open", "hide"}, 1, k - 1)
    BY <1>5 DEF Building
  <2>2. k # 1
    BY <1>1, <2>1
  <2>3. 1 \in 1 .. k - 1
    BY <1>1, <2>1, <2>2
  <2> QED
    BY <1>1, <2>1, <2>3 DEF AllOf
<1>6. CASE cube = Dark /\ ~transaction /\ AllOf(script, {"incr"}, 1, n + 1)
  <2> SUFFICES ASSUME NEW i \in 1 .. n
               PROVE  script'[i].do = "incr"
    BY <1>6 DEF AllOf
  <2>1. i \in 1 .. Len(script) - 1 /\ i + 1 \in 1 .. n + 1
    BY <1>1, <1>2
  <2> QED
    BY <1>1, <1>6, <2>1 DEF AllOf
<1> QED
  BY <1>2, <1>3, <1>4, <1>5, <1>6 DEF Hidden

\* The sprite is moved in a dark cube only.
LEMMA IncrementKeeps ==
  ASSUME TclInv, Increment
  PROVE  TclInv'
<1>1. TypeOK /\ Shape /\ Script /\ Buffer /\ Hidden
  BY DEF TclInv, Typed
<1>2. /\ script # <<>> /\ Head(script).do = "incr"
      /\ cube' = cube /\ buffer_cube' = buffer_cube
      /\ place' = [place EXCEPT ![Args[1]] = @ + motion[Args[1]]]
      /\ motion' = motion /\ size' = size /\ data' = data
      /\ transaction' = transaction /\ sigmask' = FALSE
      /\ script' = IF sigmask THEN <<>> ELSE Tail(script)
  BY DEF Increment, Command, Returns, Continues, drawVars
<1>3. Len(script) \in Nat \ {0} /\ Head(script) = script[1]
  BY <1>1, <1>2, TailParts DEF Script
<1>4. cube = Dark /\ ~transaction
  <2>1. 1 \in 1 .. Len(script) /\ script[1].do = "incr"
    BY <1>2, <1>3
  <2>2. ~HiddenBefore(script, Cells(size), 1)
    BY <1>1, <1>2, <2>1, NotBefore
  <2>3. 1 .. 1 - 1 = {}
    OBVIOUS
  <2> QED
    BY <1>1, <2>1, <2>2, <2>3 DEF Hidden
<1>5. NoTrail'
  BY <1>2, <1>4 DEF NoTrail, Dark
<1>6. TypeOK' /\ Shape'
  <2>1. Args[1] \in Axis
    BY <1>1, <1>2, Arguments DEF Shape, Command
  <2>2. place[Args[1]] + motion[Args[1]] \in Int
    BY <1>1, <2>1 DEF Shape
  <2>3. place' \in [Axis -> Int]
    BY <1>1, <1>2, <2>1, <2>2 DEF Shape
  <2> QED
    BY <1>1, <1>2, <2>3 DEF TypeOK, Shape
<1>7. CASE sigmask
  BY <1>2, <1>4, <1>5, <1>6, <1>7, Emptied DEF TclInv, Typed
<1>8. CASE ~sigmask
  <2>1. Script' /\ ~Command("open")'
    BY <1>1, <1>2, <1>8, ScriptTail
  <2>2. ~AtCell' /\ ~Command("commit")'
    BY <1>1, <1>2, <1>8, AfterOther DEF Beginnings
  <2>3. Buffer'
    BY <1>2, <1>4, <2>1, <2>2 DEF Buffer
  <2>4. Hidden'
    BY <1>1, <1>2, <1>8, OtherStep DEF Beginnings
  <2> QED
    BY <1>5, <1>6, <2>1, <2>3, <2>4 DEF TclInv, Typed
<1> QED
  BY <1>7, <1>8

\* The walls of roll, and where it steers.
LEMMA SteeredMotion ==
  ASSUME Shape, Script, SteerByTable \/ SteerByDistance
  PROVE  motion' \in [Axis -> Int]
<1>1. Args[1] \in Axis
  BY Arguments DEF Shape, SteerByTable, SteerByDistance
<1>2. CASE SteerByTable
  BY <1>2 DEF SteerByTable, RollTable
<1>3. CASE SteerByDistance
  <2>1. /\ place[Args[1]] \in Int /\ size[Args[1]] \in Int /\ Side \in Int
        /\ AxisOf(FirstHit) = Args[1]
    BY <1>1, <1>3, TclAssumption DEF Shape, SteerByDistance
  <2>2. Distance(FirstHit) \in Int
    BY <2>1 DEF Distance
  <2> QED
    BY <1>1, <1>3, <2>2 DEF SteerByDistance, Shape
<1> QED
  BY <1>2, <1>3

\* The commands that neither draw nor move.
LEMMA OtherKeeps ==
  ASSUME TclInv,
         \/ TurnLow \/ TurnHigh \/ SteerByTable \/ SteerByDistance \/ SteerClear
         \/ ClearData \/ SetCell
  PROVE  TclInv'
<1>1. TypeOK /\ Shape /\ Script /\ NoTrail /\ Buffer /\ Hidden
  BY DEF TclInv, Typed
<1>2. /\ script # <<>>
      /\ Head(script).do \in {"turnlow", "turnhigh", "steer", "clear", "lset"}
      /\ cube' = cube /\ buffer_cube' = buffer_cube /\ place' = place /\ size' = size
      /\ transaction' = transaction /\ sigmask' = FALSE
      /\ script' = <<>> \/ (~sigmask /\ script' \in {script, Tail(script)})
  BY DEF TurnLow, TurnHigh, SteerByTable, SteerByDistance, SteerClear, ClearData,
         SetCell, Command, Returns, Continues, drawVars, spriteVars
<1>3. motion' \in [Axis -> Int]
  <2>1. CASE TurnLow \/ TurnHigh
    <3>1. Args[1] \in Axis
      BY <1>1, <2>1, Arguments DEF Shape, TurnLow, TurnHigh
    <3>2. -motion[Args[1]] \in Int
      BY <1>1, <3>1 DEF Shape
    <3> QED
      BY <1>1, <2>1, <3>1, <3>2 DEF TurnLow, TurnHigh, Shape
  <2>2. CASE SteerByTable \/ SteerByDistance
    BY <1>1, <2>2, SteeredMotion
  <2>3. CASE SteerClear \/ ClearData \/ SetCell
    BY <1>1, <2>3 DEF SteerClear, ClearData, SetCell, Shape, spriteVars
  <2> QED
    BY <2>1, <2>2, <2>3
<1>4. data' \in [Cells(size) -> Colour]
  <2>1. CASE ClearData
    BY <2>1, DarkImage DEF ClearData, Blank
  <2>2. CASE SetCell
    <3>1. Args[4] \in Colour
      BY <1>1, <2>2, Arguments DEF Shape, SetCell
    <3> QED
      BY <1>1, <2>2, <3>1 DEF SetCell, Shape
  <2>3. CASE TurnLow \/ TurnHigh \/ SteerByTable \/ SteerByDistance \/ SteerClear
    BY <1>1, <2>3 DEF TurnLow, TurnHigh, SteerByTable, SteerByDistance, SteerClear,
                      Shape, spriteVars
  <2> QED
    BY <2>1, <2>2, <2>3
<1>5. TypeOK' /\ Shape' /\ NoTrail'
  BY <1>1, <1>2, <1>3, <1>4 DEF TypeOK, Shape, NoTrail, Footprint, LEDOf
<1>6. transaction => Plain /\ LitInside(buffer_cube)
  BY <1>1, <1>2 DEF Buffer, AtCell, Command
<1>7. transaction' => Plain' /\ LitInside(buffer_cube)'
  BY <1>2, <1>6 DEF Plain, LitInside, Footprint, LEDOf
<1>8. CASE script' = <<>>
  BY <1>2, <1>5, <1>7, <1>8, Emptied DEF TclInv, Typed
<1>9. CASE ~sigmask /\ script' = Tail(script)
  <2>1. Script' /\ ~Command("open")'
    BY <1>1, <1>2, <1>9, ScriptTail
  <2>2. ~AtCell' /\ ~Command("commit")'
    BY <1>1, <1>2, <1>9, AfterOther DEF Beginnings
  <2>3. Buffer'
    BY <1>2, <1>7, <2>1, <2>2 DEF Buffer
  <2>4. Hidden'
    BY <1>1, <1>2, <1>9, OtherStep DEF Beginnings
  <2> QED
    BY <1>5, <2>1, <2>3, <2>4 DEF TclInv, Typed
<1>10. CASE ~sigmask /\ script' = script
  <2>1. Script'
    BY <1>1, <1>2, <1>10 DEF Script
  <2>2. ~AtCell' /\ ~Command("open")'
    BY <1>2, <1>10 DEF AtCell, Command
  <2>3. Buffer'
    BY <1>2, <1>7, <2>2 DEF Buffer
  <2>4. Hidden'
    <3> SUFFICES ASSUME NEW n \in 1 .. Len(script), script[n].do = "incr"
                 PROVE  \/ HiddenBefore(script, Cells(size), n)
                        \/ cube = Dark /\ ~transaction /\ AllOf(script, {"incr"}, 1, n)
      BY <1>2, <1>10 DEF Hidden
    <3>1. Len(script) \in Nat \ {0} /\ Head(script) = script[1]
      BY <1>1, <1>2, TailParts DEF Script
    <3>2. ASSUME NEW k \in 1 .. n - 1, Building("hide", k)
          PROVE  FALSE
      <4>1. k \in 1 .. Len(script) /\ script[k].do = "commit"
            /\ AllOf(script, {"open", "hide"}, 1, k - 1)
        BY <3>2 DEF Building
      <4>2. k # 1
        BY <1>2, <3>1, <4>1
      <4>3. 1 \in 1 .. k - 1
        BY <3>1, <4>1, <4>2
      <4> QED
        BY <1>2, <3>1, <4>1, <4>3 DEF AllOf
    <3> QED
      BY <1>1, <3>2 DEF Hidden
  <2> QED
    BY <1>5, <2>1, <2>3, <2>4 DEF TclInv, Typed
<1> QED
  BY <1>2, <1>8, <1>9, <1>10

\* A signal ends the transaction, and the line now or after one more command.
LEMMA InterruptKeeps ==
  ASSUME TclInv, Interrupt
  PROVE  TclInv'
<1>1. TypeOK /\ Shape /\ Script /\ NoTrail /\ Buffer /\ Hidden
  BY DEF TclInv, Typed
<1>2. /\ cube' = cube /\ buffer_cube' = buffer_cube /\ place' = place
      /\ motion' = motion /\ size' = size /\ data' = data /\ transaction' = FALSE
      /\ \/ sigmask' = TRUE /\ script' = script
         \/ sigmask' = FALSE /\ script' = <<>>
  BY DEF Interrupt, drawVars, spriteVars
<1>3. TypeOK' /\ Shape' /\ NoTrail'
  BY <1>1, <1>2 DEF TypeOK, Shape, NoTrail, Footprint, LEDOf
<1>4. CASE script' = <<>> /\ sigmask' = FALSE
  BY <1>2, <1>3, <1>4, Emptied DEF TclInv, Typed
<1>5. CASE script' = script /\ sigmask' = TRUE
  <2>1. \A name, k : Building(name, k)' <=> Building(name, k)
    BY <1>2, <1>5 DEF Building, Wanted, LEDOf
  <2>2. /\ Current' <=> Current
        /\ AtCell' <=> AtCell
        /\ \A name : Command(name)' <=> Command(name)
        /\ LitInside(buffer_cube)' <=> LitInside(buffer_cube)
        /\ Plain' <=> Plain
    BY <1>2, <1>5, <2>1 DEF Current, AtCell, Command, LitInside, Plain, Footprint, LEDOf
  <2>3. Script'
    BY <1>1, <1>2, <1>5 DEF Script
  <2>4. Hidden'
    BY <1>1, <1>2, <1>5, <2>1 DEF Hidden
  <2>5. Buffer'
    BY <1>1, <1>2, <1>5, <2>2 DEF Buffer
  <2> QED
    BY <1>3, <2>3, <2>4, <2>5 DEF TclInv, Typed
<1> QED
  BY <1>2, <1>4, <1>5

\* A sprite that has not been drawn: the cube is dark.
LEMMA TclInitial == TclInit => TclInv
<1> SUFFICES ASSUME TclInit
             PROVE  TclInv
  OBVIOUS
<1>1. TypeOK
  BY DarkImage DEF TclInit, Init, TypeOK
<1>2. Shape
  <2>1. size \in Sizes /\ data = [c \in Cells(size) |-> Black]
        /\ place = [a \in Axis |-> -1] /\ motion = [a \in Axis |-> 0]
        /\ transaction = FALSE /\ sigmask = FALSE
    BY DEF TclInit, Blank
  <2>2. place \in [Axis -> Int] /\ motion \in [Axis -> Int]
    BY <2>1
  <2>3. data \in [Cells(size) -> Colour]
    BY <2>1, DarkImage
  <2> QED
    BY <2>1, <2>2, <2>3 DEF Shape
<1>3. script = <<>> /\ Len(script) = 0 /\ script \in Seq(LineCommand(Cells(size)))
  BY DEF TclInit
<1>4. Script /\ Hidden
  BY <1>3 DEF Script, Formed, Hidden
<1>5. NoTrail
  BY DEF TclInit, Init, NoTrail, Dark
<1>6. Buffer
  BY <1>3 DEF TclInit, Buffer, AtCell, Command
<1> QED
  BY <1>1, <1>2, <1>4, <1>5, <1>6 DEF TclInv, Typed

\* Every step keeps the invariant, and changes what is seen whole.
LEMMA StepKeeps ==
  ASSUME TclInv, [TclNext]_tclVars
  PROVE  /\ TclInv'
         /\ cube' # cube => \/ sigmask
                            \/ Command("commit") /\ (AllShown' \/ cube' = Dark)
<1>1. CASE EnterLine
  BY <1>1, EnterKeeps DEF EnterLine, Enter, drawVars
<1>2. CASE SetPlace \/ SetMotion \/ SetPicture
  BY <1>2, ConfigureKeeps DEF SetPlace, SetMotion, SetPicture, Configure, drawVars
<1>3. CASE BeginFails \/ CommitFails \/ SetCellFails
  BY <1>3, FailsKeeps DEF BeginFails, CommitFails, SetCellFails, Fails, drawVars
<1>4. CASE BeginCopies
  BY <1>4, BeginKeeps DEF BeginCopies, cube_buffer_clear, cube_buffer
<1>5. CASE BeginOpens
  BY <1>5, OpenKeeps DEF BeginOpens, drawVars
<1>6. CASE DrawCell \/ HideCell
  BY <1>6, CellKeeps
<1>7. CASE Commit
  BY <1>7, CommitKeeps DEF Commit
<1>8. CASE Increment
  BY <1>8, IncrementKeeps DEF Increment, drawVars
<1>9. CASE \/ TurnLow \/ TurnHigh \/ SteerByTable \/ SteerByDistance \/ SteerClear
           \/ ClearData \/ SetCell
  BY <1>9, OtherKeeps DEF TurnLow, TurnHigh, SteerByTable, SteerByDistance, SteerClear,
                          ClearData, SetCell, drawVars
<1>10. CASE Interrupt
  BY <1>10, InterruptKeeps DEF Interrupt, drawVars
<1>11. CASE UNCHANGED tclVars
  <2>1. /\ cube' = cube /\ buffer_cube' = buffer_cube /\ place' = place
        /\ motion' = motion /\ size' = size /\ data' = data
        /\ transaction' = transaction /\ sigmask' = sigmask /\ script' = script
    BY <1>11 DEF tclVars, drawVars, spriteVars, shellVars
  <2>2. TypeOK' /\ Shape' /\ Script' /\ NoTrail'
    BY <2>1 DEF TclInv, Typed, TypeOK, Shape, Script, NoTrail, Footprint, LEDOf
  <2>3. \A name, k : Building(name, k)' <=> Building(name, k)
    BY <2>1 DEF Building, Wanted, LEDOf
  <2>4. /\ Current' <=> Current
        /\ AtCell' <=> AtCell
        /\ \A name : Command(name)' <=> Command(name)
        /\ LitInside(buffer_cube)' <=> LitInside(buffer_cube)
        /\ Plain' <=> Plain
    BY <2>1, <2>3 DEF Current, AtCell, Command, LitInside, Plain, Footprint, LEDOf
  <2>5. Hidden'
    BY <2>1, <2>3 DEF TclInv, Hidden
  <2>6. Buffer'
    BY <2>1, <2>4 DEF TclInv, Buffer
  <2> QED
    BY <2>1, <2>2, <2>5, <2>6 DEF TclInv, Typed
<1> QED
  BY <1>1, <1>2, <1>3, <1>4, <1>5, <1>6, <1>7, <1>8, <1>9, <1>10, <1>11
     DEF TclNext, Step

\* The invariant of the sprite.
LEMMA TclInvariant == TclSpec => []TclInv
<1>1. TclInv /\ [TclNext]_tclVars => TclInv'
  BY StepKeeps
<1> QED
  BY <1>1, TclInitial, PTL DEF TclSpec

\* Only cells of the sprite as it is placed now are ever lit: whatever line is
\* interrupted where, the next one takes all of them off again (ext/sprite.class:
\* draw, hide and move).
THEOREM NoTrailLeft == TclSpec => []NoTrail
<1>1. TclInv => NoTrail
  BY DEF TclInv
<1> QED
  BY <1>1, TclInvariant, PTL

\* The sprite appears and disappears whole, but for the one command that is still
\* done after a signal (cube.begin and cube.commit of src/lib.c).
THEOREM FramesWhole == TclSpec => FramesAreWhole
<1>1. TclInv /\ [TclNext]_tclVars =>
        [cube' # cube => \/ sigmask
                         \/ Command("commit") /\ (AllShown' \/ cube' = Dark)]_tclVars
  BY StepKeeps
<1> QED
  BY <1>1, TclInvariant, PTL DEF TclSpec, FramesAreWhole

-----------------------------------------------------------------------------
(* What the lines of bounce, roll and rotate do to the sprite.             *)

\* The commands that are not about drawing are at fixed places of these lines.
\* A plan has the commands that may be at each place of a line of so many.
Drawings ==
  {c \in LineCommand(Cells(size)) :
     c.do \in Beginnings \cup {"open", "led", "hide", "commit"}}
Follows(plan, total) ==
  /\ Len(script) \in 1 .. total
  /\ \A n \in 1 .. Len(script) : script[n] \in plan[total - Len(script) + n]
\* How many commands of the line have been done.
Done(total) == total - Len(script)

BouncePlan ==
  [m \in 1 .. 2*N + 13 |->
     CASE m \in N + 3 .. N + 5 -> {[do |-> "incr", args |-> <<m - (N + 2)>>]}
       [] m \in 2*N + 8 .. 2*N + 10 -> {[do |-> "turnlow", args |-> <<m - (2*N + 7)>>]}
       [] m \in 2*N + 11 .. 2*N + 13 -> {[do |-> "turnhigh", args |-> <<m - (2*N + 10)>>]}
       [] m \in 1 .. N + 2 \cup N + 6 .. 2*N + 7 -> Drawings]
\* Between the movement along an axis and the two commands that turn round, the
\* sprite may be headed for a wall it is at.
BounceAxis(done, a) ==
  /\ place[a] \in 0 .. Side - size[a] /\ motion[a] \in -1 .. 1
  /\ size[a] = Side => motion[a] = 0
  /\ done \notin N + 2 + a .. 2*N + 6 + a => (place[a] <= 0 => motion[a] >= 0)
  /\ done \notin N + 2 + a .. 2*N + 9 + a =>
       (place[a] + size[a] > Side - 1 => motion[a] <= 0)
BounceStage == \A a \in Axis : BounceAxis(Done(2*N + 13), a)
Bouncing ==
  entry.line = "bounce" =>
    Follows(BouncePlan, 2*N + 13) /\ (entry.fits => BounceStage)

RollPlan ==
  [m \in 1 .. 2*N + 8 |->
     CASE m = 1 -> {c \in LineCommand(Cells(size)) : c.do = "steer"}
       [] m \in N + 4 .. N + 6 -> {[do |-> "incr", args |-> <<m - (N + 3)>>]}
       [] m \in 2 .. N + 3 \cup N + 7 .. 2*N + 8 -> Drawings]
\* From the end of the loop to the movement, it is the next place that is clear.
RollAxis(done, a) ==
  IF done \in 1 .. N + 2 + a
  THEN place[a] + motion[a] \in 0 .. Side - 1 - size[a]
  ELSE place[a] \in 0 .. Side - 1 - size[a]
RollStage == \A a \in Axis : RollAxis(Done(2*N + 8), a)
Rolling ==
  entry.line = "roll" =>
    Follows(RollPlan, 2*N + 8) /\ (entry.fits => RollStage)

Landed(way, n) == RotatedCell(way[1], way[2], CellNo(n))
SetCommand(way, colours, n) ==
  [do |-> "lset", args |-> Landed(way, n) \o <<colours[CellNo(n)]>>]
RotatePlan(way, colours) ==
  [m \in 1 .. 3*N + 5 |->
     CASE m = N + 3 -> {[do |-> "clear", args |-> <<>>]}
       [] m \in N + 4 .. 2*N + 3 -> {SetCommand(way, colours, m - (N + 3))}
       [] m \in 1 .. N + 2 \cup 2*N + 4 .. 3*N + 5 -> Drawings]
\* The cells that have been set have got the colours they should.
RotateStage(way) ==
  \A n \in 1 .. N : Done(3*N + 5) >= N + 3 + n =>
    /\ Landed(way, n) \in Cells(size)
    /\ data[Landed(way, n)] = entry.data[CellNo(n)]
Rotating ==
  entry.line = "rotate" =>
    \E way \in Rotations :
      /\ way[1] = entry.axis
      /\ Follows(RotatePlan(way, entry.data), 3*N + 5) /\ RotateStage(way)

LineInv ==
  /\ sigmask => script # <<>>
  /\ entry.line # "none" => script # <<>> /\ ~sigmask
  /\ Bouncing /\ Rolling /\ Rotating

\* The rest of a line follows the plan.
LEMMA FollowsTail ==
  ASSUME Script, NEW plan, NEW total \in Nat, Follows(plan, total),
         script' = Tail(script), script' # <<>>, size' = size
  PROVE  /\ Len(script') = Len(script) - 1 /\ Len(script) - 1 \in 1 .. total
         /\ \A n \in 1 .. Len(script') : script'[n] \in plan[total - Len(script') + n]
<1>1. script # <<>> /\ Len(script) \in 1 .. total
  BY DEF Follows
<1>2. /\ Len(script) \in Nat \ {0} /\ Len(script') = Len(script) - 1
      /\ \A n \in 1 .. Len(script) - 1 : script'[n] = script[n + 1]
      /\ Len(script') \in Nat \ {0}
  BY <1>1, ScriptTail
<1>3. ASSUME NEW n \in 1 .. Len(script')
      PROVE  script'[n] \in plan[total - Len(script') + n]
  <2>1. n \in 1 .. Len(script) - 1 /\ n + 1 \in 1 .. Len(script)
        /\ total - Len(script) + (n + 1) = total - Len(script') + n
    BY <1>1, <1>2
  <2>2. script[n + 1] \in plan[total - Len(script) + (n + 1)]
    BY <2>1 DEF Follows
  <2> QED
    BY <1>2, <2>1, <2>2
<1> QED
  BY <1>1, <1>2, <1>3

\* So does a line whose cube.begin has been started.
LEMMA FollowsOpen ==
  ASSUME Script, NEW plan, NEW total \in Nat, Follows(plan, total),
         Head(script).do \in Beginnings,
         script' = Do("open", <<>>) \o Tail(script),
         [do |-> "open", args |-> <<>>] \in plan[total - Len(script) + 1]
  PROVE  /\ Len(script') = Len(script)
         /\ \A n \in 1 .. Len(script') : script'[n] \in plan[total - Len(script') + n]
<1> DEFINE o == [do |-> "open", args |-> <<>>]
<1>1. script # <<>> /\ Len(script) \in Nat \ {0}
  BY TailParts DEF Follows, Script
<1>2. /\ Len(script') = Len(script)
      /\ \A n \in 2 .. Len(script) : script'[n] = script[n]
  BY <1>1, OpenParts DEF Script
<1>3. script'[1] = o
  <2>1. <<o>> \in Seq({o}) /\ Len(<<o>>) = 1 /\ <<o>>[1] = o
    OBVIOUS
  <2> DEFINE R == LineCommand(Cells(size)) \cup {o}
  <2>2. <<o>> \in Seq(R) /\ Tail(script) \in Seq(R)
    <3>1. Tail(script) \in Seq(LineCommand(Cells(size)))
      BY <1>1, TailParts DEF Script
    <3> QED
      BY <2>1, <3>1
  <2> HIDE DEF R, o
  <2>3. \A n \in 1 .. Len(<<o>>) : (<<o>> \o Tail(script))[n] = <<o>>[n]
    BY <2>2, Joined
  <2>4. 1 \in 1 .. Len(<<o>>)
    BY <2>1
  <2>5. script' = <<o>> \o Tail(script)
    BY DEF Do, o
  <2> QED
    BY <2>1, <2>3, <2>4, <2>5
<1>4. ASSUME NEW n \in 1 .. Len(script')
      PROVE  script'[n] \in plan[total - Len(script') + n]
  <2>1. CASE n = 1
    BY <1>2, <1>3, <2>1
  <2>2. CASE n # 1
    <3>1. n \in 2 .. Len(script) /\ n \in 1 .. Len(script)
      BY <1>1, <1>2, <2>2
    <3> QED
      BY <1>2, <3>1 DEF Follows
  <2> QED
    BY <2>1, <2>2
<1> QED
  BY <1>2, <1>4

\* The next command is the one planned.
LEMMA FollowsHead ==
  ASSUME Script, NEW plan, NEW total \in Nat, Follows(plan, total)
  PROVE  /\ script # <<>> /\ Len(script) \in 1 .. total /\ Head(script) = script[1]
         /\ Done(total) \in 0 .. total - 1
         /\ Head(script) \in plan[Done(total) + 1]
<1>1. script # <<>> /\ Len(script) \in 1 .. total
  BY DEF Follows
<1>2. Head(script) = script[1] /\ 1 \in 1 .. Len(script)
  BY <1>1, TailParts DEF Script
<1> QED
  BY <1>1, <1>2 DEF Follows, Done

\* A command of the plan that has an axis is for that axis.
LEMMA AxisCommand ==
  ASSUME NEW c, NEW name, NEW n, c = [do |-> name, args |-> <<n>>]
  PROVE  c.do = name /\ c.args[1] = n
  BY CommandParts

\* One command of a line that goes on undisturbed.
DrawingDone ==
  /\ Head(script).do \in Beginnings \cup {"open", "led", "hide", "commit"}
  /\ place' = place /\ motion' = motion /\ data' = data
  /\ \/ script' = Tail(script)
     \/ Head(script).do \in Beginnings /\ script' = Do("open", <<>>) \o Tail(script)
CommandDone ==
  \/ DrawingDone
  \/ /\ Increment \/ TurnLow \/ TurnHigh \/ SteerClear \/ ClearData \/ SetCell
     /\ script' = Tail(script)
  \/ SteerByTable /\ script' = IF motion' = motion THEN Tail(script) ELSE script
  \/ SteerByDistance /\ script' = script
  \/ /\ place' = place /\ motion' = motion /\ data' = data
     /\ script' = script

\* A line that is not disturbed goes on by one command.
LEMMA InLine ==
  ASSUME TclInv, LineInv, [TclNext]_tclVars, entry.line # "none", entry'.line # "none"
  PROVE  /\ script # <<>> /\ script' # <<>> /\ sigmask' = FALSE
         /\ entry' = entry /\ size' = size /\ CommandDone
<1>1. script # <<>> /\ ~sigmask
  BY DEF LineInv
<1>2. NoLine.line = "none"
  BY DEF NoLine
<1>3. ASSUME Returns
      PROVE  script' # <<>> /\ sigmask' = FALSE /\ entry' = entry /\ script' = Tail(script)
  BY <1>1, <1>2, <1>3 DEF Returns, Continues
<1>4. ~EnterLine /\ ~SetPlace /\ ~SetMotion /\ ~SetPicture
  BY <1>1 DEF EnterLine, Enter, SetPlace, SetMotion, SetPicture, Configure, Idle
<1>5. ~BeginFails /\ ~CommitFails /\ ~SetCellFails /\ ~Interrupt
  BY <1>2 DEF BeginFails, CommitFails, SetCellFails, Fails, Interrupt
<1>6. CASE BeginCopies
  <2>1. /\ script' = Do("open", <<>>) \o Tail(script) /\ Head(script).do \in Beginnings
        /\ place' = place /\ motion' = motion /\ data' = data /\ size' = size
        /\ sigmask' = sigmask /\ entry' = entry
    BY <1>6 DEF BeginCopies, Begins, Command, Beginnings, spriteVars
  <2>2. script' # <<>>
    BY <1>1, <2>1, OpenParts DEF TclInv, Typed, Script
  <2> QED
    BY <1>1, <2>1, <2>2 DEF CommandDone, DrawingDone
<1>7. CASE BeginOpens \/ DrawCell \/ HideCell \/ Commit
  <2>1. /\ Returns /\ place' = place /\ motion' = motion /\ data' = data /\ size' = size
        /\ Head(script).do \in {"open", "led", "hide", "commit"}
    BY <1>7 DEF BeginOpens, DrawCell, HideCell, Commit, Command, spriteVars
  <2> QED
    BY <1>1, <1>3, <2>1 DEF CommandDone, DrawingDone
<1>8. CASE Increment \/ TurnLow \/ TurnHigh \/ SteerClear \/ ClearData \/ SetCell
  <2>1. Returns /\ size' = size
    BY <1>8 DEF Increment, TurnLow, TurnHigh, SteerClear, ClearData, SetCell, spriteVars
  <2> QED
    BY <1>1, <1>3, <1>8, <2>1 DEF CommandDone
<1>9. CASE SteerByTable
  <2>1. /\ Continues(IF motion' = motion THEN Tail(script) ELSE script) /\ size' = size
    BY <1>9 DEF SteerByTable
  <2> QED
    BY <1>1, <1>2, <1>9, <2>1 DEF CommandDone, Continues
<1>10. CASE SteerByDistance
  <2>1. Continues(script) /\ size' = size
    BY <1>10 DEF SteerByDistance
  <2> QED
    BY <1>1, <1>2, <1>10, <2>1 DEF CommandDone, Continues
<1>11. CASE UNCHANGED tclVars
  BY <1>1, <1>11 DEF tclVars, spriteVars, shellVars, CommandDone
<1> QED
  BY <1>4, <1>5, <1>6, <1>7, <1>8, <1>9, <1>10, <1>11 DEF TclNext, Step

\* The plans do not change while the line is done.
LEMMA SamePlans ==
  ASSUME size' = size
  PROVE  N' = N /\ BouncePlan' = BouncePlan /\ RollPlan' = RollPlan /\ Drawings' = Drawings
         /\ \A n : CellNo(n)' = CellNo(n)
BY DEF N, BouncePlan, RollPlan, Drawings, CellNo

\* What is where in a bounce.
LEMMA BouncePlaces ==
  ASSUME size \in Sizes, NEW m \in 1 .. 2*N + 13, NEW c \in BouncePlan[m]
  PROVE  \/ /\ m \in N + 3 .. N + 5 /\ c.do = "incr" /\ c.args[1] = m - (N + 2)
         \/ /\ m \in 2*N + 8 .. 2*N + 10 /\ c.do = "turnlow" /\ c.args[1] = m - (2*N + 7)
         \/ /\ m \in 2*N + 11 .. 2*N + 13 /\ c.do = "turnhigh"
            /\ c.args[1] = m - (2*N + 10)
         \/ /\ m \in 1 .. N + 2 \cup N + 6 .. 2*N + 7
            /\ c.do \in Beginnings \cup {"open", "led", "hide", "commit"}
<1>1. N \in Nat \ {0}
  BY CellsInOrder
<1>2. CASE m \in N + 3 .. N + 5
  <2>1. c = [do |-> "incr", args |-> <<m - (N + 2)>>]
    BY <1>1, <1>2 DEF BouncePlan
  <2> QED
    BY <1>2, <2>1, AxisCommand
<1>3. CASE m \in 2*N + 8 .. 2*N + 10
  <2>1. c = [do |-> "turnlow", args |-> <<m - (2*N + 7)>>]
    BY <1>1, <1>3 DEF BouncePlan
  <2> QED
    BY <1>3, <2>1, AxisCommand
<1>4. CASE m \in 2*N + 11 .. 2*N + 13
  <2>1. c = [do |-> "turnhigh", args |-> <<m - (2*N + 10)>>]
    BY <1>1, <1>4 DEF BouncePlan
  <2> QED
    BY <1>4, <2>1, AxisCommand
<1>5. CASE m \in 1 .. N + 2 \cup N + 6 .. 2*N + 7
  <2>1. c \in Drawings
    BY <1>1, <1>5 DEF BouncePlan
  <2> QED
    BY <1>5, <2>1 DEF Drawings
<1> QED
  BY <1>1, <1>2, <1>3, <1>4, <1>5

\* What is where in a roll.
LEMMA RollPlaces ==
  ASSUME size \in Sizes, NEW m \in 1 .. 2*N + 8, NEW c \in RollPlan[m]
  PROVE  \/ m = 1 /\ c.do = "steer"
         \/ /\ m \in N + 4 .. N + 6 /\ c.do = "incr" /\ c.args[1] = m - (N + 3)
         \/ /\ m \in 2 .. N + 3 \cup N + 7 .. 2*N + 8
            /\ c.do \in Beginnings \cup {"open", "led", "hide", "commit"}
<1>1. N \in Nat \ {0}
  BY CellsInOrder
<1>2. CASE m = 1
  BY <1>1, <1>2 DEF RollPlan
<1>3. CASE m \in N + 4 .. N + 6
  <2>1. c = [do |-> "incr", args |-> <<m - (N + 3)>>]
    BY <1>1, <1>3 DEF RollPlan
  <2> QED
    BY <1>3, <2>1, AxisCommand
<1>4. CASE m \in 2 .. N + 3 \cup N + 7 .. 2*N + 8
  <2>1. c \in Drawings
    BY <1>1, <1>4 DEF RollPlan
  <2> QED
    BY <1>4, <2>1 DEF Drawings
<1> QED
  BY <1>1, <1>2, <1>3, <1>4

\* What is where in a rotation.
LEMMA RotatePlaces ==
  ASSUME size \in Sizes, NEW way, NEW colours,
         NEW m \in 1 .. 3*N + 5, NEW c \in RotatePlan(way, colours)[m]
  PROVE  \/ m = N + 3 /\ c.do = "clear"
         \/ /\ m \in N + 4 .. 2*N + 3 /\ c.do = "lset"
            /\ c.args = Landed(way, m - (N + 3)) \o <<colours[CellNo(m - (N + 3))]>>
         \/ /\ m \in 1 .. N + 2 \cup 2*N + 4 .. 3*N + 5
            /\ c.do \in Beginnings \cup {"open", "led", "hide", "commit"}
<1>1. N \in Nat \ {0}
  BY CellsInOrder
<1>2. CASE m = N + 3
  <2>1. c = [do |-> "clear", args |-> <<>>]
    BY <1>1, <1>2 DEF RotatePlan
  <2> QED
    BY <1>2, <2>1, CommandParts
<1>3. CASE m \in N + 4 .. 2*N + 3
  <2>1. c = SetCommand(way, colours, m - (N + 3))
    BY <1>1, <1>3 DEF RotatePlan
  <2> QED
    BY <1>3, <2>1, CommandParts DEF SetCommand
<1>4. CASE m \in 1 .. N + 2 \cup 2*N + 4 .. 3*N + 5
  <2>1. c \in Drawings
    BY <1>1, <1>4 DEF RotatePlan
  <2> QED
    BY <1>4, <2>1 DEF Drawings
<1> QED
  BY <1>1, <1>2, <1>3, <1>4

\* A step of a line that follows a plan: the plan is followed.
LEMMA FollowsStep ==
  ASSUME Script, NEW plan, NEW total \in Nat, Follows(plan, total),
         CommandDone, script' # <<>>, size' = size,
         Head(script).do \in Beginnings => plan[Done(total) + 1] = Drawings
  PROVE  /\ Len(script') \in 1 .. total
         /\ \A n \in 1 .. Len(script') : script'[n] \in plan[total - Len(script') + n]
         /\ \/ script' = Tail(script) /\ total - Len(script') = Done(total) + 1
            \/ /\ script' # Tail(script) /\ total - Len(script') = Done(total)
               /\ \/ DrawingDone
                  \/ SteerByTable /\ motion' # motion
                  \/ SteerByDistance
                  \/ place' = place /\ motion' = motion /\ data' = data
<1>1. script # <<>> /\ Len(script) \in 1 .. total /\ Len(script) \in Nat \ {0}
  BY FollowsHead
<1>2. CASE script' = Tail(script)
  <2>1. Len(script') \in Nat \ {0}
    BY <1>1, <1>2, ScriptTail
  <2>2. /\ Len(script') = Len(script) - 1
        /\ \A n \in 1 .. Len(script') : script'[n] \in plan[total - Len(script') + n]
    BY <1>2, FollowsTail
  <2> QED
    BY <1>1, <1>2, <2>1, <2>2 DEF Done
<1>3. CASE DrawingDone /\ script' # Tail(script)
  <2>1. Head(script).do \in Beginnings /\ script' = Do("open", <<>>) \o Tail(script)
    BY <1>3 DEF DrawingDone
  <2>2. [do |-> "open", args |-> <<>>] \in Drawings
    BY DEF Drawings, LineCommand
  <2>3. [do |-> "open", args |-> <<>>] \in plan[total - Len(script) + 1]
    BY <2>1, <2>2 DEF Done
  <2>4. /\ Len(script') = Len(script)
        /\ \A n \in 1 .. Len(script') : script'[n] \in plan[total - Len(script') + n]
    BY <2>1, <2>3, FollowsOpen
  <2> QED
    BY <1>1, <1>3, <2>4 DEF Done
<1>4. CASE script' = script
  <2>1. script' # Tail(script)
    BY <1>1, <1>4, TailParts DEF Script
  <2>2. \/ DrawingDone
        \/ SteerByTable /\ motion' # motion
        \/ SteerByDistance
        \/ place' = place /\ motion' = motion /\ data' = data
    BY <2>1 DEF CommandDone
  <2> QED
    BY <1>1, <1>4, <2>1, <2>2 DEF Follows, Done
<1> QED
  BY <1>2, <1>3, <1>4 DEF CommandDone

\* What the number of commands done is to the stage of a bounce.
LEMMA BounceStays ==
  ASSUME Shape, NEW d \in Nat, NEW e \in Nat, size' = size, place' = place,
         motion' = motion, e = d \/ e = d + 1,
         e = d + 1 => e \in 1 .. N + 2 \cup N + 6 .. 2*N + 7,
         NEW a \in Axis, BounceAxis(d, a)
  PROVE  BounceAxis(e, a)'
<1>1. N' = N /\ N \in Nat \ {0} /\ a \in 1 .. 3
  BY SamePlans, CellsInOrder DEF Shape, Axis
<1> QED
  BY <1>1 DEF BounceAxis

\* A movement along an axis does not lead out of the cube.
LEMMA BounceMoves ==
  ASSUME Shape, NEW d \in Nat, size' = size, motion' = motion, NEW b \in Axis,
         d + 1 = N + 2 + b, place' = [place EXCEPT ![b] = @ + motion[b]],
         NEW a \in Axis, BounceAxis(d, a)
  PROVE  BounceAxis(d + 1, a)'
<1>1. N' = N /\ N \in Nat \ {0} /\ a \in 1 .. 3 /\ b \in 1 .. 3
  BY SamePlans, CellsInOrder DEF Shape, Axis
<1>2. /\ place[a] \in Int /\ motion[a] \in Int /\ size[a] \in Int /\ Side \in Int
      /\ size[a] >= 1 /\ size[a] <= Side
  BY TclAssumption DEF Shape
<1>3. place'[a] = IF a = b THEN place[a] + motion[a] ELSE place[a]
  BY DEF Shape
<1>4. CASE a = b
  BY <1>1, <1>2, <1>3, <1>4 DEF BounceAxis
<1>5. CASE a # b
  BY <1>1, <1>2, <1>3, <1>5 DEF BounceAxis
<1> QED
  BY <1>4, <1>5

\* The turn at a wall, low or high, makes the motion lead away from it.
LEMMA BounceTurns ==
  ASSUME Shape, NEW d \in Nat, size' = size, place' = place, NEW b \in Axis,
         \/ d + 1 = 2*N + 7 + b /\ motion' =
              IF place[b] <= 0 /\ motion[b] < 0 THEN [motion EXCEPT ![b] = -@] ELSE motion
         \/ d + 1 = 2*N + 10 + b /\ motion' =
              IF place[b] + size[b] > Side - 1 /\ motion[b] > 0
              THEN [motion EXCEPT ![b] = -@] ELSE motion,
         NEW a \in Axis, BounceAxis(d, a)
  PROVE  BounceAxis(d + 1, a)'
<1>1. N' = N /\ N \in Nat \ {0} /\ a \in 1 .. 3 /\ b \in 1 .. 3
  BY SamePlans, CellsInOrder DEF Shape, Axis
<1>2. /\ place[a] \in Int /\ motion[a] \in Int /\ size[a] \in Int /\ Side \in Int
      /\ size[a] >= 1 /\ size[a] <= Side
  BY TclAssumption DEF Shape
<1>3. CASE a # b
  <2>1. motion'[a] = motion[a]
    BY <1>3 DEF Shape
  <2> QED
    BY <1>1, <1>2, <1>3, <2>1 DEF BounceAxis
<1>4. CASE a = b /\ d + 1 = 2*N + 7 + b /\ motion' =
              IF place[b] <= 0 /\ motion[b] < 0 THEN [motion EXCEPT ![b] = -@] ELSE motion
  <2>1. motion'[a] = IF place[a] <= 0 /\ motion[a] < 0 THEN 0 - motion[a] ELSE motion[a]
    BY <1>2, <1>4 DEF Shape
  <2> QED
    BY <1>1, <1>2, <1>4, <2>1 DEF BounceAxis
<1>5. CASE a = b /\ d + 1 = 2*N + 10 + b /\ motion' =
              IF place[b] + size[b] > Side - 1 /\ motion[b] > 0
              THEN [motion EXCEPT ![b] = -@] ELSE motion
  <2>1. motion'[a] = IF place[a] + size[a] > Side - 1 /\ motion[a] > 0
                     THEN 0 - motion[a] ELSE motion[a]
    BY <1>2, <1>5 DEF Shape
  <2> QED
    BY <1>1, <1>2, <1>5, <2>1 DEF BounceAxis
<1> QED
  BY <1>3, <1>4, <1>5

\* A bounce goes on as it should.
LEMMA BounceStep ==
  ASSUME TclInv, LineInv, CommandDone, entry.line = "bounce", entry' = entry,
         script' # <<>>, size' = size
  PROVE  Bouncing'
<1>1. Shape /\ Script /\ size \in Sizes /\ Follows(BouncePlan, 2*N + 13)
  BY DEF TclInv, Typed, Shape, LineInv, Bouncing
<1>2. N \in Nat \ {0} /\ 2*N + 13 \in Nat /\ N' = N /\ BouncePlan' = BouncePlan
  BY <1>1, CellsInOrder, SamePlans
<1>3. /\ Done(2*N + 13) \in 0 .. 2*N + 13 - 1 /\ script # <<>>
      /\ Head(script) \in BouncePlan[Done(2*N + 13) + 1]
  BY <1>1, <1>2, FollowsHead
<1>4. PICK d \in Nat : d = Done(2*N + 13)
  BY <1>2, <1>3
<1>5. PICK m \in 1 .. 2*N + 13 : m = d + 1
  BY <1>2, <1>3, <1>4
<1>12. PICK c \in BouncePlan[m] : c = Head(script)
  BY <1>3, <1>4, <1>5
<1>6. \/ /\ m \in N + 3 .. N + 5 /\ c.do = "incr" /\ c.args[1] = m - (N + 2)
      \/ /\ m \in 2*N + 8 .. 2*N + 10 /\ c.do = "turnlow" /\ c.args[1] = m - (2*N + 7)
      \/ /\ m \in 2*N + 11 .. 2*N + 13 /\ c.do = "turnhigh"
         /\ c.args[1] = m - (2*N + 10)
      \/ /\ m \in 1 .. N + 2 \cup N + 6 .. 2*N + 7
         /\ c.do \in Beginnings \cup {"open", "led", "hide", "commit"}
  BY <1>1, BouncePlaces
<1>7. Head(script).do \in Beginnings => BouncePlan[d + 1] = Drawings
  <2> SUFFICES ASSUME c.do \in Beginnings
               PROVE  BouncePlan[m] = Drawings
    BY <1>5, <1>12
  <2>1. m \in 1 .. N + 2 \cup N + 6 .. 2*N + 7
    BY <1>6 DEF Beginnings
  <2>2. /\ m \notin N + 3 .. N + 5 /\ m \notin 2*N + 8 .. 2*N + 10
        /\ m \notin 2*N + 11 .. 2*N + 13
    BY <1>2, <2>1
  <2> QED
    BY <2>1, <2>2 DEF BouncePlan
<1>8. /\ Len(script') \in 1 .. 2*N + 13
      /\ \A n \in 1 .. Len(script') : script'[n] \in BouncePlan[2*N + 13 - Len(script') + n]
      /\ \/ script' = Tail(script) /\ 2*N + 13 - Len(script') = d + 1
         \/ /\ script' # Tail(script) /\ 2*N + 13 - Len(script') = d
            /\ \/ DrawingDone
               \/ SteerByTable /\ motion' # motion
               \/ SteerByDistance
               \/ place' = place /\ motion' = motion /\ data' = data
  <2>1. Head(script).do \in Beginnings => BouncePlan[Done(2*N + 13) + 1] = Drawings
    BY <1>4, <1>7
  <2>2. /\ Len(script') \in 1 .. 2*N + 13
        /\ \A n \in 1 .. Len(script') :
             script'[n] \in BouncePlan[2*N + 13 - Len(script') + n]
        /\ \/ script' = Tail(script) /\ 2*N + 13 - Len(script') = Done(2*N + 13) + 1
           \/ /\ script' # Tail(script) /\ 2*N + 13 - Len(script') = Done(2*N + 13)
              /\ \/ DrawingDone
                 \/ SteerByTable /\ motion' # motion
                 \/ SteerByDistance
                 \/ place' = place /\ motion' = motion /\ data' = data
    <3> HIDE DEF Done
    <3> QED
      BY <1>1, <1>2, <2>1, FollowsStep
  <2> QED
    BY <1>4, <2>2
<1>11. /\ script' = Tail(script) => 2*N + 13 - Len(script') = d + 1
       /\ script' # Tail(script) => 2*N + 13 - Len(script') = d
  BY <1>8
<1>9. Follows(BouncePlan, 2*N + 13)'
  BY <1>2, <1>8 DEF Follows
<1>10. ASSUME BounceStage
       PROVE  BounceStage'
  <2>1. \A a \in Axis : BounceAxis(d, a)
    BY <1>4, <1>10 DEF BounceStage
  <2>2. PICK e \in Nat : e = 2*N + 13 - Len(script')
    BY <1>2, <1>8
  <2>3. ASSUME NEW a \in Axis
        PROVE  BounceAxis(e, a)'
    <3>1. CASE DrawingDone \/ (script' # Tail(script) /\ place' = place /\ motion' = motion)
      <4>1. place' = place /\ motion' = motion /\ (e = d \/ e = d + 1)
        BY <1>11, <2>2, <3>1 DEF DrawingDone
      <4>2. e = d + 1 => e \in 1 .. N + 2 \cup N + 6 .. 2*N + 7
        <5>1. CASE DrawingDone
          BY <1>5, <1>6, <1>12, <5>1 DEF DrawingDone, Beginnings
        <5>2. CASE script' # Tail(script)
          BY <1>11, <2>2, <5>2
        <5> QED
          BY <3>1, <5>1, <5>2
      <4> QED
        BY <1>1, <2>1, <4>1, <4>2, BounceStays
    <3>2. CASE Increment /\ script' = Tail(script)
      <4>1. /\ Head(script).do = "incr"
            /\ place' = [place EXCEPT ![Args[1]] = @ + motion[Args[1]]] /\ motion' = motion
        BY <3>2 DEF Increment, Command
      <4>2. Args[1] \in Axis /\ d + 1 = N + 2 + Args[1] /\ e = d + 1
        <5>1. e = d + 1
          BY <1>11, <2>2, <3>2
        <5>2. c.args[1] = m - (N + 2) /\ m - (N + 2) \in 1 .. 3
          <6>1. c.do = "incr"
            BY <1>12, <4>1
          <6>2. m \in N + 3 .. N + 5 /\ c.args[1] = m - (N + 2)
            BY <1>6, <6>1 DEF Beginnings
          <6> QED
            BY <1>2, <6>2
        <5>3. Args[1] = c.args[1]
          BY <1>12 DEF Args
        <5> QED
          BY <1>2, <1>5, <5>1, <5>2, <5>3 DEF Axis
      <4>3. PICK b \in Axis : b = Args[1]
        BY <4>2
      <4> QED
        BY <1>1, <2>1, <4>1, <4>2, <4>3, BounceMoves
    <3>3. CASE TurnLow /\ script' = Tail(script)
      <4>1. /\ Head(script).do = "turnlow" /\ place' = place
            /\ motion' = IF place[Args[1]] <= 0 /\ motion[Args[1]] < 0
                         THEN [motion EXCEPT ![Args[1]] = -@] ELSE motion
        BY <3>3 DEF TurnLow, Command
      <4>2. Args[1] \in Axis /\ d + 1 = 2*N + 7 + Args[1] /\ e = d + 1
        <5>1. e = d + 1
          BY <1>11, <2>2, <3>3
        <5>2. c.args[1] = m - (2*N + 7) /\ m - (2*N + 7) \in 1 .. 3
          <6>1. c.do = "turnlow"
            BY <1>12, <4>1
          <6>2. m \in 2*N + 8 .. 2*N + 10 /\ c.args[1] = m - (2*N + 7)
            BY <1>6, <6>1 DEF Beginnings
          <6> QED
            BY <1>2, <6>2
        <5>3. Args[1] = c.args[1]
          BY <1>12 DEF Args
        <5> QED
          BY <1>2, <1>5, <5>1, <5>2, <5>3 DEF Axis
      <4>3. PICK b \in Axis : b = Args[1]
        BY <4>2
      <4> QED
        BY <1>1, <2>1, <4>1, <4>2, <4>3, BounceTurns
    <3>4. CASE TurnHigh /\ script' = Tail(script)
      <4>1. /\ Head(script).do = "turnhigh" /\ place' = place
            /\ motion' = IF place[Args[1]] + size[Args[1]] > Side - 1 /\ motion[Args[1]] > 0
                         THEN [motion EXCEPT ![Args[1]] = -@] ELSE motion
        BY <3>4 DEF TurnHigh, Command
      <4>2. Args[1] \in Axis /\ d + 1 = 2*N + 10 + Args[1] /\ e = d + 1
        <5>1. e = d + 1
          BY <1>11, <2>2, <3>4
        <5>2. c.args[1] = m - (2*N + 10) /\ m - (2*N + 10) \in 1 .. 3
          <6>1. c.do = "turnhigh"
            BY <1>12, <4>1
          <6>2. m \in 2*N + 11 .. 2*N + 13 /\ c.args[1] = m - (2*N + 10)
            BY <1>6, <6>1 DEF Beginnings
          <6> QED
            BY <1>2, <6>2
        <5>3. Args[1] = c.args[1]
          BY <1>12 DEF Args
        <5> QED
          BY <1>2, <1>5, <5>1, <5>2, <5>3 DEF Axis
      <4>3. PICK b \in Axis : b = Args[1]
        BY <4>2
      <4> QED
        BY <1>1, <2>1, <4>1, <4>2, <4>3, BounceTurns
    <3>5. CASE SteerByTable \/ SteerByDistance \/ SteerClear \/ ClearData \/ SetCell
      <4>1. Head(script).do \in {"steer", "clear", "lset"}
        BY <3>5 DEF SteerByTable, SteerByDistance, SteerClear, ClearData, SetCell, Command
      <4> QED
        BY <1>6, <1>12, <4>1 DEF Beginnings
    <3>6. script' = script => script' # Tail(script)
      BY <1>1, <1>3, TailParts DEF Script
    <3> QED
      BY <3>1, <3>2, <3>3, <3>4, <3>5, <3>6 DEF CommandDone
  <2> QED
    BY <1>2, <2>2, <2>3 DEF BounceStage, BounceAxis, Done
<1> QED
  BY <1>2, <1>9, <1>10 DEF Bouncing, LineInv

\* A wall that is hit is hit along the way the sprite goes; the table leads along
\* another one.  So it always has something new for a sprite inside.
LEMMA TableTurns ==
  ASSUME Shape, SteerByTable, \A a \in Axis : place[a] \in 0 .. Side - 1 - size[a]
  PROVE  motion' # motion
<1>1. Hits # {} /\ AxisOf(FirstHit) # Args[1] /\ motion' = RollTable(Args[1], Args[2], FirstHit)
  BY DEF SteerByTable
<1>2. FirstHit \in Hits
  <2>1. \E w \in Hits : \A other \in Hits : w <= other
    <3>1. Hits \subseteq 1 .. 6 /\ Hits # {}
      BY <1>1 DEF Hits, Wall
    <3>2. PICK v \in 1 .. 6 : v \in Hits
      BY <3>1
    <3>3. v = 1 \/ v = 2 \/ v = 3 \/ v = 4 \/ v = 5 \/ v = 6
      BY <3>2
    <3>4. CASE 1 \in Hits
      BY <3>1, <3>4
    <3>5. CASE 1 \notin Hits /\ 2 \in Hits
      BY <3>1, <3>5
    <3>6. CASE 1 \notin Hits /\ 2 \notin Hits /\ 3 \in Hits
      BY <3>1, <3>6
    <3>7. CASE 1 \notin Hits /\ 2 \notin Hits /\ 3 \notin Hits /\ 4 \in Hits
      BY <3>1, <3>7
    <3>8. CASE 1 \notin Hits /\ 2 \notin Hits /\ 3 \notin Hits /\ 4 \notin Hits /\ 5 \in Hits
      BY <3>1, <3>8
    <3>9. CASE 1 \notin Hits /\ 2 \notin Hits /\ 3 \notin Hits /\ 4 \notin Hits /\ 5 \notin Hits
      BY <3>1, <3>2, <3>3, <3>9
    <3> QED
      BY <3>4, <3>5, <3>6, <3>7, <3>8, <3>9
  <2> QED
    BY <2>1 DEF FirstHit
<1>3. PICK w \in 1 .. 6 : w = FirstHit /\ Hit(w)
  BY <1>2 DEF Hits, Wall
<1>4. PICK a \in Axis : a = AxisOf(w) /\ a # Args[1]
  BY <1>1, <1>3 DEF AxisOf, Axis
<1>5. motion[a] # 0
  <2>1. /\ place[a] \in 0 .. Side - 1 - size[a] /\ motion[a] \in Int /\ size[a] \in Int
        /\ Side \in Int
    BY TclAssumption DEF Shape, Axis
  <2> QED
    BY <1>3, <1>4, <2>1 DEF Hit
<1>6. motion'[a] = 0
  <2> DEFINE other == CHOOSE b \in Other(Args[1]) : b # AxisOf(FirstHit)
  <2>1. \E b \in Other(Args[1]) : b # AxisOf(FirstHit)
    <3>1. \E b \in {1, 2, 3} : b # Args[1] /\ b # a
      <4>1. CASE Args[1] # 1 /\ a # 1
        BY <4>1
      <4>2. CASE Args[1] # 2 /\ a # 2
        BY <4>2
      <4>3. CASE Args[1] # 3 /\ a # 3
        BY <4>3
      <4> QED
        BY <4>1, <4>2, <4>3
    <3> QED
      BY <1>3, <1>4, <3>1 DEF Other, Axis
  <2>2. other # a
    BY <1>3, <1>4, <2>1
  <2> QED
    BY <1>1, <1>3, <2>2 DEF RollTable
<1> QED
  BY <1>5, <1>6

\* If no wall is hit, the next place is clear.
LEMMA NextIsClear ==
  ASSUME Shape, Hits = {}, NEW a \in Axis
  PROVE  place[a] + motion[a] \in 0 .. Side - 1 - size[a]
<1>1. a \in 1 .. 3 /\ a + 3 \in 1 .. 6 /\ a \in 1 .. 6
  BY DEF Axis
<1>2. ~Hit(a) /\ ~Hit(a + 3)
  BY <1>1 DEF Hits, Wall
<1>3. place[a] \in Int /\ motion[a] \in Int /\ size[a] \in Int /\ Side \in Int
  BY <1>1, TclAssumption DEF Shape, Axis
<1>4. AxisOf(a) = a /\ AxisOf(a + 3) = a /\ a <= 3 /\ ~(a + 3 <= 3)
  BY <1>1 DEF AxisOf
<1>5. ~(place[a] + motion[a] < 0)
  BY <1>2, <1>4 DEF Hit
<1>6. ~(place[a] + motion[a] + size[a] > Side - 1)
  BY <1>2, <1>4 DEF Hit
<1> QED
  BY <1>3, <1>5, <1>6

\* What a command is to the stage of a roll.
LEMMA RollStays ==
  ASSUME Shape, NEW d \in Nat, NEW e \in Nat, size' = size, place' = place,
         motion' = motion, e = d \/ e = d + 1,
         e = d + 1 => e \in 2 .. N + 3 \cup N + 7 .. 2*N + 8,
         NEW a \in Axis, RollAxis(d, a)
  PROVE  RollAxis(e, a)'
<1>1. N' = N /\ N \in Nat \ {0} /\ a \in 1 .. 3
  BY SamePlans, CellsInOrder DEF Shape, Axis
<1> QED
  BY <1>1 DEF RollAxis

\* The movement goes to the place that was found clear.
LEMMA RollMoves ==
  ASSUME Shape, NEW d \in Nat, size' = size, motion' = motion, NEW b \in Axis,
         d + 1 = N + 3 + b, place' = [place EXCEPT ![b] = @ + motion[b]],
         NEW a \in Axis, RollAxis(d, a)
  PROVE  RollAxis(d + 1, a)'
<1>1. N' = N /\ N \in Nat \ {0} /\ a \in 1 .. 3 /\ b \in 1 .. 3
  BY SamePlans, CellsInOrder DEF Shape, Axis
<1>2. place'[a] = IF a = b THEN place[a] + motion[a] ELSE place[a]
  BY DEF Shape
<1>3. CASE a = b
  BY <1>1, <1>2, <1>3 DEF RollAxis
<1>4. CASE a # b
  <2>1. d \in 1 .. N + 2 + a <=> d + 1 \in 1 .. N + 2 + a
    BY <1>1, <1>4
  <2> QED
    BY <1>1, <1>2, <1>4, <2>1 DEF RollAxis
<1> QED
  BY <1>3, <1>4

\* A roll goes on as it should.
LEMMA RollStep ==
  ASSUME TclInv, LineInv, CommandDone, entry.line = "roll", entry' = entry,
         script' # <<>>, size' = size
  PROVE  Rolling'
<1>1. Shape /\ Script /\ size \in Sizes /\ Follows(RollPlan, 2*N + 8)
  BY DEF TclInv, Typed, Shape, LineInv, Rolling
<1>2. N \in Nat \ {0} /\ 2*N + 8 \in Nat /\ N' = N /\ RollPlan' = RollPlan
  BY <1>1, CellsInOrder, SamePlans
<1>3. /\ Done(2*N + 8) \in 0 .. 2*N + 8 - 1 /\ script # <<>>
      /\ Head(script) \in RollPlan[Done(2*N + 8) + 1]
  BY <1>1, <1>2, FollowsHead
<1>4. PICK d \in Nat : d = Done(2*N + 8)
  BY <1>2, <1>3
<1>5. PICK m \in 1 .. 2*N + 8 : m = d + 1
  BY <1>2, <1>3, <1>4
<1>6. PICK c \in RollPlan[m] : c = Head(script)
  BY <1>3, <1>4, <1>5
<1>7. \/ m = 1 /\ c.do = "steer"
      \/ /\ m \in N + 4 .. N + 6 /\ c.do = "incr" /\ c.args[1] = m - (N + 3)
      \/ /\ m \in 2 .. N + 3 \cup N + 7 .. 2*N + 8
         /\ c.do \in Beginnings \cup {"open", "led", "hide", "commit"}
  BY <1>1, RollPlaces
<1>8. Head(script).do \in Beginnings => RollPlan[d + 1] = Drawings
  <2> SUFFICES ASSUME c.do \in Beginnings
               PROVE  RollPlan[m] = Drawings
    BY <1>5, <1>6
  <2>1. m \in 2 .. N + 3 \cup N + 7 .. 2*N + 8
    BY <1>7 DEF Beginnings
  <2>2. m # 1 /\ m \notin N + 4 .. N + 6
    BY <1>2, <2>1
  <2> QED
    BY <2>1, <2>2 DEF RollPlan
<1>9. /\ Len(script') \in 1 .. 2*N + 8
      /\ \A n \in 1 .. Len(script') : script'[n] \in RollPlan[2*N + 8 - Len(script') + n]
      /\ \/ script' = Tail(script) /\ 2*N + 8 - Len(script') = d + 1
         \/ /\ script' # Tail(script) /\ 2*N + 8 - Len(script') = d
            /\ \/ DrawingDone
               \/ SteerByTable /\ motion' # motion
               \/ SteerByDistance
               \/ place' = place /\ motion' = motion /\ data' = data
  <2>1. Head(script).do \in Beginnings => RollPlan[Done(2*N + 8) + 1] = Drawings
    BY <1>4, <1>8
  <2>2. /\ Len(script') \in 1 .. 2*N + 8
        /\ \A n \in 1 .. Len(script') :
             script'[n] \in RollPlan[2*N + 8 - Len(script') + n]
        /\ \/ script' = Tail(script) /\ 2*N + 8 - Len(script') = Done(2*N + 8) + 1
           \/ /\ script' # Tail(script) /\ 2*N + 8 - Len(script') = Done(2*N + 8)
              /\ \/ DrawingDone
                 \/ SteerByTable /\ motion' # motion
                 \/ SteerByDistance
                 \/ place' = place /\ motion' = motion /\ data' = data
    <3> HIDE DEF Done
    <3> QED
      BY <1>1, <1>2, <2>1, FollowsStep
  <2> QED
    BY <1>4, <2>2
<1>10. /\ script' = Tail(script) => 2*N + 8 - Len(script') = d + 1
       /\ script' # Tail(script) => 2*N + 8 - Len(script') = d
  BY <1>9
<1>11. Follows(RollPlan, 2*N + 8)'
  BY <1>2, <1>9 DEF Follows
<1>12. ASSUME RollStage
       PROVE  RollStage'
  <2>1. \A a \in Axis : RollAxis(d, a)
    BY <1>4, <1>12 DEF RollStage
  <2>2. PICK e \in Nat : e = 2*N + 8 - Len(script')
    BY <1>2, <1>9
  <2>3. Command("steer") => d = 0 /\ \A a \in Axis : place[a] \in 0 .. Side - 1 - size[a]
    <3>1. Command("steer") => c.do = "steer"
      BY <1>6 DEF Command
    <3>2. Command("steer") => m = 1
      BY <1>7, <3>1 DEF Beginnings
    <3>3. Command("steer") => d = 0
      BY <1>5, <3>2
    <3> QED
      BY <2>1, <3>3 DEF RollAxis
  <2>4. ASSUME NEW a \in Axis
        PROVE  RollAxis(e, a)'
    <3>1. CASE DrawingDone \/ (script' # Tail(script) /\ place' = place /\ motion' = motion)
      <4>1. place' = place /\ motion' = motion /\ (e = d \/ e = d + 1)
        BY <1>10, <2>2, <3>1 DEF DrawingDone
      <4>2. e = d + 1 => e \in 2 .. N + 3 \cup N + 7 .. 2*N + 8
        <5>1. CASE DrawingDone
          BY <1>5, <1>6, <1>7, <5>1 DEF DrawingDone, Beginnings
        <5>2. CASE script' # Tail(script)
          BY <1>10, <2>2, <5>2
        <5> QED
          BY <3>1, <5>1, <5>2
      <4> QED
        BY <1>1, <2>1, <4>1, <4>2, RollStays
    <3>2. CASE Increment /\ script' = Tail(script)
      <4>1. /\ Head(script).do = "incr"
            /\ place' = [place EXCEPT ![Args[1]] = @ + motion[Args[1]]] /\ motion' = motion
        BY <3>2 DEF Increment, Command
      <4>2. Args[1] \in Axis /\ d + 1 = N + 3 + Args[1] /\ e = d + 1
        <5>1. e = d + 1
          BY <1>10, <2>2, <3>2
        <5>2. c.args[1] = m - (N + 3) /\ m - (N + 3) \in 1 .. 3
          <6>1. c.do = "incr"
            BY <1>6, <4>1
          <6>2. m \in N + 4 .. N + 6 /\ c.args[1] = m - (N + 3)
            BY <1>7, <6>1 DEF Beginnings
          <6> QED
            BY <1>2, <6>2
        <5>3. Args[1] = c.args[1]
          BY <1>6 DEF Args
        <5> QED
          BY <1>2, <1>5, <5>1, <5>2, <5>3 DEF Axis
      <4>3. PICK b \in Axis : b = Args[1]
        BY <4>2
      <4> QED
        BY <1>1, <2>1, <4>1, <4>2, <4>3, RollMoves
    <3>3. CASE SteerByTable /\ script' = (IF motion' = motion THEN Tail(script) ELSE script)
      <4>1. motion' # motion
        BY <1>1, <2>3, <3>3, TableTurns DEF SteerByTable
      <4>2. script' # Tail(script) /\ place' = place /\ d = 0
        BY <1>1, <1>3, <2>3, <3>3, <4>1, TailParts DEF SteerByTable, Script
      <4>3. e = 0
        BY <1>10, <2>2, <4>2
      <4> QED
        BY <2>3, <3>3, <4>2, <4>3 DEF RollAxis, SteerByTable
    <3>4. CASE SteerByDistance /\ script' = script
      <4>1. script' # Tail(script) /\ place' = place /\ d = 0
        BY <1>1, <1>3, <2>3, <3>4, TailParts DEF SteerByDistance, Script
      <4>2. e = 0
        BY <1>10, <2>2, <4>1
      <4> QED
        BY <2>3, <3>4, <4>1, <4>2 DEF RollAxis, SteerByDistance
    <3>5. CASE SteerClear /\ script' = Tail(script)
      <4>1. d = 0 /\ e = 1 /\ Hits = {} /\ place' = place /\ motion' = motion
        BY <1>10, <2>2, <2>3, <3>5 DEF SteerClear, spriteVars
      <4>2. place[a] + motion[a] \in 0 .. Side - 1 - size[a]
        BY <1>1, <4>1, NextIsClear
      <4>3. e \in 1 .. N + 2 + a
        BY <1>2, <4>1 DEF Axis
      <4> QED
        BY <1>2, <4>1, <4>2, <4>3 DEF RollAxis
    <3>6. CASE TurnLow \/ TurnHigh \/ ClearData \/ SetCell
      <4>1. Head(script).do \in {"turnlow", "turnhigh", "clear", "lset"}
        BY <3>6 DEF TurnLow, TurnHigh, ClearData, SetCell, Command
      <4> QED
        BY <1>6, <1>7, <4>1 DEF Beginnings
    <3>7. script' = script => script' # Tail(script)
      BY <1>1, <1>3, TailParts DEF Script
    <3> QED
      BY <3>1, <3>2, <3>3, <3>4, <3>5, <3>6, <3>7 DEF CommandDone
  <2> QED
    BY <1>2, <2>2, <2>4 DEF RollStage, RollAxis, Done
<1> QED
  BY <1>2, <1>11, <1>12 DEF Rolling, LineInv

\* No two cells are taken to one place by a rotation.
LEMMA LandingInjective ==
  ASSUME size \in Sizes, NEW axis \in Axis, NEW dir \in {0, 1},
         NEW c \in Cells(size), NEW e \in Cells(size),
         RotatedCell(axis, dir, c) = RotatedCell(axis, dir, e)
  PROVE  c = e
<1>1. size[1] \in Int /\ size[2] \in Int /\ size[3] \in Int /\ axis \in {1, 2, 3}
  BY Edges DEF Axis
<1>2. /\ c = <<c[1], c[2], c[3]>> /\ e = <<e[1], e[2], e[3]>>
      /\ c[1] \in Int /\ c[2] \in Int /\ c[3] \in Int
      /\ e[1] \in Int /\ e[2] \in Int /\ e[3] \in Int
  BY Edges
<1>3. \A x, y, s \in Int : s - 1 - x = s - 1 - y => x = y
  OBVIOUS
<1>4. c[1] = e[1] /\ c[2] = e[2] /\ c[3] = e[3]
  <2>1. CASE axis = 1 /\ dir = 0
    BY <1>1, <1>2, <1>3, <2>1 DEF RotatedCell
  <2>2. CASE axis = 1 /\ dir = 1
    BY <1>1, <1>2, <1>3, <2>2 DEF RotatedCell
  <2>3. CASE axis = 2 /\ dir = 0
    BY <1>1, <1>2, <1>3, <2>3 DEF RotatedCell
  <2>4. CASE axis = 2 /\ dir = 1
    BY <1>1, <1>2, <1>3, <2>4 DEF RotatedCell
  <2>5. CASE axis = 3 /\ dir = 0
    BY <1>1, <1>2, <1>3, <2>5 DEF RotatedCell
  <2>6. CASE axis = 3 /\ dir = 1
    BY <1>1, <1>2, <1>3, <2>6 DEF RotatedCell
  <2> QED
    BY <1>1, <2>1, <2>2, <2>3, <2>4, <2>5, <2>6
<1> QED
  BY <1>2, <1>4

\* What a rotation sets: the colour of one cell, where it lands.
LEMMA CommandSets ==
  ASSUME Script, script # <<>>, size \in Sizes, Command("lset"), NEW way \in Rotations,
         NEW n \in 1 .. N, NEW x, Args = Landed(way, n) \o <<x>>
  PROVE  Cell = Landed(way, n) /\ Args[4] = x
<1>1. Args \in Int \X Int \X Int \X Colour
  <2>1. Head(script) \in LineCommand(Cells(size)) /\ Head(script).do = "lset"
    BY TailParts DEF Script, Command
  <2> QED
    BY <2>1 DEF LineCommand, Args, Beginnings
<1>2. way[1] \in Axis /\ way[2] \in {0, 1} /\ CellNo(n) \in Cells(size)
  BY TclAssumption, CellsInOrder
<1> DEFINE r == Landed(way, n)
<1>3. /\ r \in Int \X Int \X Int
      /\ r \o <<x>> = <<r[1], r[2], r[3], x>>
  BY <1>2, LandingIsTriple DEF Landed
<1> HIDE DEF r
<1>4. r = <<r[1], r[2], r[3]>>
  BY <1>3
<1>5. Args = <<r[1], r[2], r[3], x>>
  BY <1>3 DEF r
<1>6. Args[1] = r[1] /\ Args[2] = r[2] /\ Args[3] = r[3] /\ Args[4] = x
  BY <1>5
<1>7. SubSeq(Args, 1, 3) = <<Args[1], Args[2], Args[3]>>
  BY <1>1, QuadCell
<1> QED
  BY <1>4, <1>6, <1>7 DEF Cell, r

\* What RotateStage says when d commands have been done.
SetUpTo(way, d) ==
  \A n \in 1 .. N : d >= N + 3 + n =>
    /\ Landed(way, n) \in Cells(size)
    /\ data[Landed(way, n)] = entry.data[CellNo(n)]

\* What has been set stays set.
LEMMA SetKept ==
  ASSUME Shape, NEW way, NEW d \in Nat, NEW e \in Nat, size' = size, data' = data,
         entry' = entry, e = d \/ e = d + 1,
         e = d + 1 => e \in 1 .. N + 2 \cup 2*N + 4 .. 3*N + 5, SetUpTo(way, d)
  PROVE  SetUpTo(way, e)'
<1>1. N' = N /\ N \in Nat \ {0} /\ \A n : CellNo(n)' = CellNo(n)
  BY SamePlans, CellsInOrder DEF Shape
<1>2. \A n : Landed(way, n)' = Landed(way, n)
  BY <1>1 DEF Landed, RotatedCell
<1>3. ASSUME NEW n \in 1 .. N, e >= N + 3 + n
      PROVE  d >= N + 3 + n
  BY <1>1, <1>3
<1> QED
  BY <1>1, <1>2, <1>3 DEF SetUpTo

\* A cell that is set gets the colour it should, and no other is set again.
LEMMA SetMore ==
  ASSUME Shape, NEW way \in Rotations, NEW d \in Nat, size' = size, entry' = entry,
         NEW k \in 1 .. N, d + 1 = N + 3 + k, Landed(way, k) \in Cells(size),
         data' = [data EXCEPT ![Landed(way, k)] = entry.data[CellNo(k)]], SetUpTo(way, d)
  PROVE  SetUpTo(way, d + 1)'
<1>1. N' = N /\ N \in Nat \ {0} /\ \A n : CellNo(n)' = CellNo(n)
  BY SamePlans, CellsInOrder DEF Shape
<1>2. \A n : Landed(way, n)' = Landed(way, n)
  BY <1>1 DEF Landed, RotatedCell
<1>3. ASSUME NEW n \in 1 .. N, d + 1 >= N + 3 + n
      PROVE  Landed(way, n) \in Cells(size) /\ data'[Landed(way, n)] = entry.data[CellNo(n)]
  <2>1. CASE n = k
    BY <2>1 DEF Shape
  <2>2. CASE n # k
    <3>1. d >= N + 3 + n
      BY <1>1, <1>3, <2>2
    <3>2. Landed(way, n) \in Cells(size) /\ data[Landed(way, n)] = entry.data[CellNo(n)]
      BY <3>1 DEF SetUpTo
    <3>3. Landed(way, n) = Landed(way, k) => CellNo(n) = CellNo(k)
      <4>1. /\ way[1] \in Axis /\ way[2] \in {0, 1} /\ CellNo(n) \in Cells(size)
            /\ CellNo(k) \in Cells(size)
        BY TclAssumption, CellsInOrder DEF Shape
      <4> QED
        BY <4>1, LandingInjective DEF Landed, Shape
    <3>4. CASE Landed(way, n) = Landed(way, k)
      BY <3>2, <3>3, <3>4 DEF Shape
    <3>5. CASE Landed(way, n) # Landed(way, k)
      BY <3>2, <3>5 DEF Shape
    <3> QED
      BY <3>4, <3>5
  <2> QED
    BY <2>1, <2>2
<1> QED
  BY <1>1, <1>2, <1>3 DEF SetUpTo

\* A rotation goes on as it should.
LEMMA RotateStep ==
  ASSUME TclInv, LineInv, CommandDone, entry.line = "rotate", entry' = entry,
         script' # <<>>, size' = size
  PROVE  Rotating'
<1>1. Shape /\ Script /\ size \in Sizes
  BY DEF TclInv, Typed, Shape
<1>2. N \in Nat \ {0} /\ 3*N + 5 \in Nat /\ N' = N
  BY <1>1, CellsInOrder, SamePlans
<1>3. PICK way \in Rotations :
         /\ way[1] = entry.axis
         /\ Follows(RotatePlan(way, entry.data), 3*N + 5) /\ RotateStage(way)
  BY DEF LineInv, Rotating
<1>4. PICK plan : plan = RotatePlan(way, entry.data)
  OBVIOUS
<1>5. /\ Done(3*N + 5) \in 0 .. 3*N + 5 - 1 /\ script # <<>>
      /\ Head(script) \in plan[Done(3*N + 5) + 1]
  BY <1>1, <1>2, <1>3, <1>4, FollowsHead
<1>6. PICK d \in Nat : d = Done(3*N + 5)
  BY <1>2, <1>5
<1>7. PICK m \in 1 .. 3*N + 5 : m = d + 1
  BY <1>2, <1>5, <1>6
<1>8. PICK c \in RotatePlan(way, entry.data)[m] : c = Head(script)
  BY <1>4, <1>5, <1>6, <1>7
<1>9. \/ m = N + 3 /\ c.do = "clear"
      \/ /\ m \in N + 4 .. 2*N + 3 /\ c.do = "lset"
         /\ c.args = Landed(way, m - (N + 3)) \o <<entry.data[CellNo(m - (N + 3))]>>
      \/ /\ m \in 1 .. N + 2 \cup 2*N + 4 .. 3*N + 5
         /\ c.do \in Beginnings \cup {"open", "led", "hide", "commit"}
  BY <1>1, RotatePlaces
<1>10. Head(script).do \in Beginnings => plan[d + 1] = Drawings
  <2> SUFFICES ASSUME c.do \in Beginnings
               PROVE  RotatePlan(way, entry.data)[m] = Drawings
    BY <1>4, <1>7, <1>8
  <2>1. m \in 1 .. N + 2 \cup 2*N + 4 .. 3*N + 5
    BY <1>9 DEF Beginnings
  <2>2. m # N + 3 /\ m \notin N + 4 .. 2*N + 3
    BY <1>2, <2>1
  <2> QED
    BY <2>1, <2>2 DEF RotatePlan
<1>11. /\ Len(script') \in 1 .. 3*N + 5
       /\ \A n \in 1 .. Len(script') : script'[n] \in plan[3*N + 5 - Len(script') + n]
       /\ \/ script' = Tail(script) /\ 3*N + 5 - Len(script') = d + 1
          \/ /\ script' # Tail(script) /\ 3*N + 5 - Len(script') = d
             /\ \/ DrawingDone
                \/ SteerByTable /\ motion' # motion
                \/ SteerByDistance
                \/ place' = place /\ motion' = motion /\ data' = data
  <2>1. Head(script).do \in Beginnings => plan[Done(3*N + 5) + 1] = Drawings
    BY <1>6, <1>10
  <2>2. /\ Len(script') \in 1 .. 3*N + 5
        /\ \A n \in 1 .. Len(script') :
             script'[n] \in plan[3*N + 5 - Len(script') + n]
        /\ \/ script' = Tail(script) /\ 3*N + 5 - Len(script') = Done(3*N + 5) + 1
           \/ /\ script' # Tail(script) /\ 3*N + 5 - Len(script') = Done(3*N + 5)
              /\ \/ DrawingDone
                 \/ SteerByTable /\ motion' # motion
                 \/ SteerByDistance
                 \/ place' = place /\ motion' = motion /\ data' = data
    <3>1. Follows(plan, 3*N + 5)
      BY <1>3, <1>4
    <3> HIDE DEF Done
    <3> QED
      BY <1>1, <1>2, <2>1, <3>1, FollowsStep
  <2> QED
    BY <1>6, <2>2
<1>12. /\ script' = Tail(script) => 3*N + 5 - Len(script') = d + 1
       /\ script' # Tail(script) => 3*N + 5 - Len(script') = d
  BY <1>11
<1>13. RotatePlan(way, entry.data)' = plan
  <2>1. \A n : CellNo(n)' = CellNo(n) /\ Landed(way, n)' = Landed(way, n)
    BY SamePlans DEF Landed, RotatedCell
  <2>2. Drawings' = Drawings
    BY SamePlans
  <2> QED
    BY <1>2, <1>4, <2>1, <2>2 DEF RotatePlan, SetCommand
<1>14. Follows(RotatePlan(way, entry.data), 3*N + 5)'
  <2> DEFINE P == RotatePlan(way, entry.data)
             T == 3*N + 5
  <2>1. P' = plan /\ T' = 3*N + 5
    BY <1>2, <1>13
  <2> HIDE DEF P, T
  <2>2. /\ Len(script') \in 1 .. T'
        /\ \A n \in 1 .. Len(script') : script'[n] \in P'[T' - Len(script') + n]
    <3>1. /\ Len(script') \in 1 .. 3*N + 5
          /\ \A n \in 1 .. Len(script') : script'[n] \in plan[3*N + 5 - Len(script') + n]
      BY <1>11
    <3>2. PICK t \in Nat : t = 3*N + 5
      BY <1>2
    <3>3. PICK u \in Nat : u = T' /\ u = t
      BY <2>1, <3>2
    <3>4. PICK p : p = P' /\ p = plan
      BY <2>1
    <3>5. ASSUME NEW n \in 1 .. Len(script')
          PROVE  script'[n] \in p[u - Len(script') + n]
      <4>1. u - Len(script') + n = 3*N + 5 - Len(script') + n
        BY <1>2, <1>11, <3>2, <3>3
      <4>2. script'[n] \in plan[3*N + 5 - Len(script') + n]
        BY <3>1
      <4> QED
        BY <3>4, <4>1, <4>2
    <3>6. Len(script') \in 1 .. u
      BY <3>1, <3>2, <3>3
    <3> QED
      BY <3>3, <3>4, <3>5, <3>6
  <2>3. Follows(P, T)'
    BY <2>2 DEF Follows
  <2> QED
    BY <2>3 DEF P, T
<1>15. SetUpTo(way, d)
  BY <1>3, <1>6 DEF RotateStage, SetUpTo
<1>16. PICK e \in Nat : e = 3*N + 5 - Len(script')
  BY <1>2, <1>11
<1>17. SetUpTo(way, e)'
  <2>1. CASE DrawingDone \/ (script' # Tail(script) /\ data' = data)
    <3>1. data' = data /\ (e = d \/ e = d + 1)
      BY <1>12, <1>16, <2>1 DEF DrawingDone
    <3>2. e = d + 1 => e \in 1 .. N + 2 \cup 2*N + 4 .. 3*N + 5
      <4>1. CASE DrawingDone
        BY <1>7, <1>8, <1>9, <4>1 DEF DrawingDone, Beginnings
      <4>2. CASE script' # Tail(script)
        BY <1>12, <1>16, <4>2
      <4> QED
        BY <2>1, <4>1, <4>2
    <3> QED
      BY <1>1, <1>15, <3>1, <3>2, SetKept
  <2>2. CASE ClearData /\ script' = Tail(script)
    <3>1. c.do = "clear"
      BY <1>8, <2>2 DEF ClearData, Command
    <3>2. m = N + 3
      BY <1>9, <3>1 DEF Beginnings
    <3>3. e = N + 3
      BY <1>7, <1>12, <1>16, <2>2, <3>2
    <3>4. \A n \in 1 .. N : ~(e >= N + 3 + n)
      BY <1>2, <3>3
    <3> QED
      BY <1>2, <3>4 DEF SetUpTo
  <2>3. CASE SetCell /\ script' = Tail(script)
    <3>1. /\ Command("lset") /\ Cell \in Cells(size)
          /\ data' = [data EXCEPT ![Cell] = Args[4]]
      BY <2>3 DEF SetCell
    <3>2. c.do = "lset" /\ c.args = Args
      BY <1>8, <3>1 DEF Command, Args
    <3>3. /\ m \in N + 4 .. 2*N + 3
          /\ c.args = Landed(way, m - (N + 3)) \o <<entry.data[CellNo(m - (N + 3))]>>
      BY <1>9, <3>2 DEF Beginnings
    <3>4. PICK k \in 1 .. N : k = m - (N + 3)
      BY <1>2, <3>3
    <3>5. e = d + 1 /\ d + 1 = N + 3 + k
      <4>1. e = d + 1
        BY <1>12, <1>16, <2>3
      <4>2. k \in Int /\ m \in Int /\ d \in Int /\ N \in Int
        BY <1>2
      <4> HIDE DEF N
      <4>3. d + 1 = N + 3 + k
        BY <1>7, <3>4, <4>2
      <4> QED
        BY <4>1, <4>3
    <3>6. PICK x : x = entry.data[CellNo(k)]
      OBVIOUS
    <3>7. Args = Landed(way, k) \o <<x>>
      BY <3>2, <3>3, <3>4, <3>6
    <3>8. Cell = Landed(way, k) /\ Args[4] = x
      BY <1>1, <1>5, <3>1, <3>7, CommandSets
    <3>9. /\ Landed(way, k) \in Cells(size)
          /\ data' = [data EXCEPT ![Landed(way, k)] = entry.data[CellNo(k)]]
      BY <3>1, <3>6, <3>8
    <3> QED
      BY <1>1, <1>15, <3>5, <3>9, SetMore
  <2>4. CASE Increment \/ TurnLow \/ TurnHigh \/ SteerClear \/ SteerByTable \/ SteerByDistance
    <3>1. c.do \in {"incr", "turnlow", "turnhigh", "steer"}
      BY <1>8, <2>4 DEF Increment, TurnLow, TurnHigh, SteerClear, SteerByTable,
                        SteerByDistance, Command
    <3> QED
      BY <1>9, <3>1 DEF Beginnings
  <2>5. script' = script => script' # Tail(script)
    BY <1>1, <1>5, TailParts DEF Script
  <2> QED
    BY <2>1, <2>2, <2>3, <2>4, <2>5 DEF CommandDone
<1>18. RotateStage(way)'
  <2>1. Done(3*N + 5)' = e
    BY <1>2, <1>16 DEF Done
  <2>2. \A n \in 1 .. N' : e >= N' + 3 + n =>
          /\ Landed(way, n)' \in Cells(size')
          /\ data'[Landed(way, n)'] = entry'.data[CellNo(n)']
    BY <1>17 DEF SetUpTo
  <2> QED
    BY <2>1, <2>2 DEF RotateStage
<1>19. way[1] = entry'.axis
  BY <1>3
<1> QED
  BY <1>14, <1>18, <1>19 DEF Rotating

\* What is where in two lines that are joined.
LEMMA JoinedAt ==
  ASSUME NEW S, NEW s, NEW t, Line(s, S), Line(t, S)
  PROVE  /\ Len(s \o t) = Len(s) + Len(t)
         /\ \A m \in 1 .. Len(s) + Len(t) :
              /\ m <= Len(s) => (s \o t)[m] = s[m]
              /\ m > Len(s) => m - Len(s) \in 1 .. Len(t) /\ (s \o t)[m] = t[m - Len(s)]
<1>1. /\ Len(s) \in Nat /\ Len(t) \in Nat /\ Len(s \o t) = Len(s) + Len(t)
      /\ \A n \in 1 .. Len(s) : (s \o t)[n] = s[n]
      /\ \A n \in 1 .. Len(t) : (s \o t)[Len(s) + n] = t[n]
  BY LinesJoined
<1>2. ASSUME NEW m \in 1 .. Len(s) + Len(t)
      PROVE  /\ m <= Len(s) => (s \o t)[m] = s[m]
             /\ m > Len(s) => m - Len(s) \in 1 .. Len(t) /\ (s \o t)[m] = t[m - Len(s)]
  <2>1. m <= Len(s) => m \in 1 .. Len(s)
    BY <1>1
  <2>2. m > Len(s) => m - Len(s) \in 1 .. Len(t) /\ Len(s) + (m - Len(s)) = m
    BY <1>1
  <2> QED
    BY <1>1, <2>1, <2>2
<1> QED
  BY <1>1, <1>2

\* The commands of a transaction.
LEMMA InDrawings ==
  ASSUME NEW s, Line(s, Cells(size)), NEW n \in 1 .. Len(s),
         s[n].do \in {"begin", "begin -copy", "led", "hide", "commit"}
  PROVE  s[n] \in Drawings
<1>1. s \in Seq(LineCommand(Cells(size)))
  BY DEF Line
<1>2. s[n] \in LineCommand(Cells(size))
  <2> DEFINE L == LineCommand(Cells(size))
  <2> HIDE DEF L
  <2>1. s \in Seq(L)
    BY <1>1 DEF L
  <2>2. s[n] \in L
    BY <2>1, ElementOfSeq
  <2> QED
    BY <2>2 DEF L
<1>3. s[n].do \in Beginnings \cup {"open", "led", "hide", "commit"}
  BY DEF Beginnings
<1> QED
  BY <1>2, <1>3 DEF Drawings

\* What is where in a movement.
LEMMA MoveParts ==
  ASSUME size \in Sizes
  PROVE  /\ N \in Nat \ {0} /\ Line(Move, Cells(size)) /\ Len(Move) = 2*N + 7
         /\ \A m \in 1 .. N + 2 : Move[m] \in Drawings
         /\ \A m \in N + 3 .. N + 5 : Move[m] = [do |-> "incr", args |-> <<m - (N + 2)>>]
         /\ \A m \in N + 6 .. 2*N + 7 : Move[m] \in Drawings
<1>1. N \in Nat \ {0}
  BY CellsInOrder
<1>2. /\ Line(Move, Cells(size)) /\ Len(Move) = 2*N + 7
      /\ \A n \in 1 .. N + 2 : Move[n] = Hide[n]
      /\ \A a \in Axis : Move[N + 2 + a] = [do |-> "incr", args |-> <<a>>]
      /\ \A n \in 1 .. N + 2 : Move[N + 5 + n] = DrawOver[n]
  BY MoveLine
<1>3. \A m \in 1 .. N + 2 : Hide[m] \in Drawings
  <2>1. /\ Line(Hide, Cells(size)) /\ Len(Hide) = N + 2
        /\ \A n \in 1 .. Len(Hide) : Hide[n].do \in {"begin -copy", "hide", "commit"}
    BY HideLine
  <2> QED
    BY <2>1, InDrawings
<1>4. \A m \in 1 .. N + 2 : DrawOver[m] \in Drawings
  <2>1. /\ Line(DrawOver, Cells(size)) /\ Len(DrawOver) = N + 2
        /\ \A n \in 1 .. Len(DrawOver) : DrawOver[n].do \in {"begin -copy", "led", "commit"}
    <3>1. "begin -copy" \in Beginnings
      BY DEF Beginnings
    <3> QED
      BY <3>1, DrawLine DEF DrawOver
  <2> QED
    BY <2>1, InDrawings
<1>5. ASSUME NEW m \in N + 3 .. N + 5
      PROVE  Move[m] = [do |-> "incr", args |-> <<m - (N + 2)>>]
  <2>1. m - (N + 2) \in Axis /\ N + 2 + (m - (N + 2)) = m
    BY <1>1 DEF Axis
  <2> QED
    BY <1>2, <2>1
<1>6. ASSUME NEW m \in N + 6 .. 2*N + 7
      PROVE  Move[m] \in Drawings
  <2>1. m - (N + 5) \in 1 .. N + 2 /\ N + 5 + (m - (N + 5)) = m
    BY <1>1
  <2> QED
    BY <1>2, <1>4, <2>1
<1> QED
  BY <1>1, <1>2, <1>3, <1>5, <1>6

\* A line of three commands, one for each axis.
LEMMA AxesAt ==
  ASSUME NEW name \in {"turnlow", "turnhigh"}, NEW n \in 1 .. 3
  PROVE  ForAxes(name)[n] = [do |-> name, args |-> <<n>>]
  BY AxesLine DEF Axis

\* The line of bounce is the plan of a bounce.
LEMMA BounceLine ==
  ASSUME size \in Sizes
  PROVE  Len(Bounce) = 2*N + 13 /\ \A m \in 1 .. 2*N + 13 : Bounce[m] \in BouncePlan[m]
<1> DEFINE S == Cells(size)
           x == ForAxes("turnlow")
           y == ForAxes("turnhigh")
           u == Move \o x
<1>1. N \in Nat \ {0} /\ Line(Move, S) /\ Len(Move) = 2*N + 7
  BY MoveParts
<1>6. /\ \A m \in 1 .. N + 2 : Move[m] \in Drawings
      /\ \A m \in N + 3 .. N + 5 : Move[m] = [do |-> "incr", args |-> <<m - (N + 2)>>]
      /\ \A m \in N + 6 .. 2*N + 7 : Move[m] \in Drawings
  BY MoveParts
<1>2. Line(x, S) /\ Len(x) = 3 /\ Line(y, S) /\ Len(y) = 3
  BY AxesLine
<1>7. /\ \A n \in 1 .. 3 : x[n] = [do |-> "turnlow", args |-> <<n>>]
      /\ \A n \in 1 .. 3 : y[n] = [do |-> "turnhigh", args |-> <<n>>]
  BY AxesAt
<1> HIDE DEF x, y, S
<1>3. Line(u, S) /\ Len(u) = 2*N + 10
  <2>1. Line(Move, S) /\ Line(x, S)
    BY <1>1, <1>2
  <2>2. Line(u, S)
    BY <2>1, LineJoin
  <2>3. Len(u) = Len(Move) + Len(x)
    BY <2>1, JoinedAt
  <2> HIDE DEF u
  <2> QED
    BY <1>1, <1>2, <2>2, <2>3
<1> HIDE DEF u
<1>4. Len(u \o y) = 2*N + 13
  <2>1. Line(u, S) /\ Line(y, S)
    BY <1>2, <1>3
  <2>2. Len(u \o y) = Len(u) + Len(y)
    BY <2>1, JoinedAt
  <2> QED
    BY <1>1, <1>2, <1>3, <2>2
<1>5. ASSUME NEW m \in 1 .. 2*N + 13
      PROVE  (u \o y)[m] \in BouncePlan[m]
  <2>1. /\ m <= 2*N + 10 => (u \o y)[m] = u[m]
        /\ m > 2*N + 10 => (u \o y)[m] = y[m - (2*N + 10)] /\ m - (2*N + 10) \in 1 .. 3
    <3>1. 2*N + 10 \in Nat /\ m \in 1 .. 2*N + 10 + Len(y)
      BY <1>1, <1>2
    <3>2. Line(u, S) /\ Line(y, S)
      BY <1>2, <1>3
    <3>3. m \in 1 .. Len(u) + Len(y)
      BY <1>3, <3>1
    <3>4. /\ m <= Len(u) => (u \o y)[m] = u[m]
          /\ m > Len(u) => m - Len(u) \in 1 .. Len(y) /\ (u \o y)[m] = y[m - Len(u)]
      BY <3>2, <3>3, JoinedAt
    <3> QED
      BY <1>2, <1>3, <3>4
  <2>2. m <= 2*N + 10 => /\ m <= 2*N + 7 => u[m] = Move[m]
                         /\ m > 2*N + 7 => u[m] = x[m - (2*N + 7)] /\ m - (2*N + 7) \in 1 .. 3
    <3> SUFFICES ASSUME m <= 2*N + 10
                 PROVE  /\ m <= 2*N + 7 => u[m] = Move[m]
                        /\ m > 2*N + 7 => u[m] = x[m - (2*N + 7)] /\ m - (2*N + 7) \in 1 .. 3
      OBVIOUS
    <3>1. 2*N + 7 \in Nat /\ m \in 1 .. 2*N + 7 + Len(x)
      BY <1>1, <1>2
    <3>2. Line(Move, S) /\ Line(x, S)
      BY <1>1, <1>2
    <3>3. m \in 1 .. Len(Move) + Len(x)
      BY <1>1, <3>1
    <3>4. /\ m <= Len(Move) => (Move \o x)[m] = Move[m]
          /\ m > Len(Move) => m - Len(Move) \in 1 .. Len(x)
                              /\ (Move \o x)[m] = x[m - Len(Move)]
      BY <3>2, <3>3, JoinedAt
    <3> QED
      BY <1>1, <1>2, <3>4 DEF u
  <2>3. CASE m \in N + 3 .. N + 5
    <3>1. m <= 2*N + 7 /\ m <= 2*N + 10
      BY <1>1, <2>3
    <3>2. (u \o y)[m] = [do |-> "incr", args |-> <<m - (N + 2)>>]
      BY <1>6, <2>1, <2>2, <2>3, <3>1
    <3> QED
      BY <1>1, <2>3, <3>2 DEF BouncePlan
  <2>4. CASE m \in 2*N + 8 .. 2*N + 10
    <3>1. m > 2*N + 7 /\ m <= 2*N + 10 /\ m \notin N + 3 .. N + 5
      BY <1>1, <2>4
    <3>2. (u \o y)[m] = [do |-> "turnlow", args |-> <<m - (2*N + 7)>>]
      BY <1>7, <2>1, <2>2, <3>1
    <3> QED
      BY <1>1, <2>4, <3>1, <3>2 DEF BouncePlan
  <2>5. CASE m \in 2*N + 11 .. 2*N + 13
    <3>1. m > 2*N + 10 /\ m \notin N + 3 .. N + 5 /\ m \notin 2*N + 8 .. 2*N + 10
      BY <1>1, <2>5
    <3>2. (u \o y)[m] = [do |-> "turnhigh", args |-> <<m - (2*N + 10)>>]
      BY <1>7, <2>1, <3>1
    <3> QED
      BY <1>1, <2>5, <3>1, <3>2 DEF BouncePlan
  <2>6. CASE m \in 1 .. N + 2 \cup N + 6 .. 2*N + 7
    <3>1. /\ m \notin N + 3 .. N + 5 /\ m \notin 2*N + 8 .. 2*N + 10
          /\ m \notin 2*N + 11 .. 2*N + 13 /\ m <= 2*N + 7 /\ m <= 2*N + 10
      BY <1>1, <2>6
    <3>2. (u \o y)[m] \in Drawings
      BY <1>6, <2>1, <2>2, <2>6, <3>1
    <3> QED
      BY <1>1, <2>6, <3>1, <3>2 DEF BouncePlan
  <2>7. \/ m \in N + 3 .. N + 5 \/ m \in 2*N + 8 .. 2*N + 10
        \/ m \in 2*N + 11 .. 2*N + 13 \/ m \in 1 .. N + 2 \cup N + 6 .. 2*N + 7
    BY <1>1
  <2> QED
    BY <2>3, <2>4, <2>5, <2>6, <2>7
<1> QED
  BY <1>4, <1>5 DEF Bounce, x, y, u

\* The line of roll is the plan of a roll.
LEMMA RollLine ==
  ASSUME size \in Sizes, NEW way \in Rolls, NEW s, s = Roll(way[1], way[2])
  PROVE  Len(s) = 2*N + 8 /\ \A m \in 1 .. 2*N + 8 : s[m] \in RollPlan[m]
<1> DEFINE S == Cells(size)
           c == [do |-> "steer", args |-> <<way[1], way[2]>>]
<1>1. /\ N \in Nat \ {0} /\ Line(Move, S) /\ Len(Move) = 2*N + 7
      /\ \A m \in 1 .. N + 2 : Move[m] \in Drawings
      /\ \A m \in N + 3 .. N + 5 : Move[m] = [do |-> "incr", args |-> <<m - (N + 2)>>]
      /\ \A m \in N + 6 .. 2*N + 7 : Move[m] \in Drawings
  BY MoveParts
<1>2. c \in LineCommand(S) /\ c.do = "steer"
  <2>1. way[1] \in Axis /\ way[2] \in {0, 1}
    BY TclAssumption
  <2> QED
    BY <2>1 DEF LineCommand
<1>3. s = <<c>> \o Move
  BY DEF Roll, Do
<1> HIDE DEF c
<1>4. Line(<<c>>, S) /\ Len(<<c>>) = 1 /\ <<c>>[1] = c
  <2>1. c.do \notin Beginnings \cup {"open", "led", "hide", "commit"}
    BY <1>2 DEF Beginnings
  <2> QED
    BY <1>2, <2>1, OneLine
<1> HIDE DEF S
<1>5. Len(s) = 2*N + 8
  <2>1. Line(<<c>>, S) /\ Line(Move, S)
    BY <1>1, <1>4
  <2>2. Len(<<c>> \o Move) = Len(<<c>>) + Len(Move)
    BY <2>1, JoinedAt
  <2> QED
    BY <1>1, <1>3, <1>4, <2>2
<1>6. ASSUME NEW m \in 1 .. 2*N + 8
      PROVE  s[m] \in RollPlan[m]
  <2>1. /\ m <= 1 => s[m] = <<c>>[m]
        /\ m > 1 => s[m] = Move[m - 1] /\ m - 1 \in 1 .. 2*N + 7
    <3>1. Line(<<c>>, S) /\ Line(Move, S)
      BY <1>1, <1>4
    <3>2. m \in 1 .. Len(<<c>>) + Len(Move)
      BY <1>1, <1>4
    <3>3. /\ m <= Len(<<c>>) => (<<c>> \o Move)[m] = <<c>>[m]
          /\ m > Len(<<c>>) => m - Len(<<c>>) \in 1 .. Len(Move)
                               /\ (<<c>> \o Move)[m] = Move[m - Len(<<c>>)]
      BY <3>1, <3>2, JoinedAt
    <3> QED
      BY <1>1, <1>3, <1>4, <3>3
  <2>2. CASE m = 1
    <3>1. s[m] \in {e \in LineCommand(Cells(size)) : e.do = "steer"}
      BY <1>2, <1>4, <2>1, <2>2 DEF S
    <3> QED
      BY <1>1, <2>2, <3>1 DEF RollPlan
  <2>3. CASE m \in N + 4 .. N + 6
    <3>1. m - 1 \in N + 3 .. N + 5 /\ m > 1 /\ m - 1 - (N + 2) = m - (N + 3)
      BY <1>1, <2>3
    <3>2. s[m] = [do |-> "incr", args |-> <<m - 1 - (N + 2)>>]
      BY <1>1, <2>1, <3>1
    <3>3. s[m] = [do |-> "incr", args |-> <<m - (N + 3)>>]
      BY <3>1, <3>2
    <3> QED
      BY <1>1, <2>3, <3>1, <3>3 DEF RollPlan
  <2>4. CASE m \in 2 .. N + 3 \cup N + 7 .. 2*N + 8
    <3>1. m - 1 \in 1 .. N + 2 \cup N + 6 .. 2*N + 7 /\ m > 1
      BY <1>1, <2>4
    <3>2. s[m] \in Drawings
      BY <1>1, <2>1, <3>1
    <3>3. m # 1 /\ m \notin N + 4 .. N + 6
      BY <1>1, <2>4
    <3> QED
      BY <1>1, <2>4, <3>2, <3>3 DEF RollPlan
  <2> QED
    BY <1>1, <2>2, <2>3, <2>4
<1> QED
  BY <1>5, <1>6

\* The line of rotate is the plan of a rotation.
LEMMA RotateLine ==
  ASSUME size \in Sizes, data \in [Cells(size) -> Colour],
         NEW way \in Rotations, NEW s, s = Rotate(way[1], way[2])
  PROVE  Len(s) = 3*N + 5 /\ \A m \in 1 .. 3*N + 5 : s[m] \in RotatePlan(way, data)[m]
<1> DEFINE S == Cells(size)
           c == [do |-> "clear", args |-> <<>>]
           x == <<c>>
           y == SetLine(way[1], way[2])
           z == DrawOver
           u == Hide \o x
           v == u \o y
<1>1. N \in Nat \ {0} /\ Line(Hide, S) /\ Len(Hide) = N + 2
  BY CellsInOrder, HideLine
<1>2. \A m \in 1 .. N + 2 : Hide[m] \in Drawings
  <2>1. \A n \in 1 .. Len(Hide) : Hide[n].do \in {"begin -copy", "hide", "commit"}
    BY HideLine
  <2> QED
    BY <1>1, <2>1, InDrawings
<1>3. Line(x, S) /\ Len(x) = 1 /\ x[1] = [do |-> "clear", args |-> <<>>]
  <2>1. c \in LineCommand(S) /\ c.do = "clear" /\ c = [do |-> "clear", args |-> <<>>]
    BY DEF LineCommand
  <2>2. c.do \notin Beginnings \cup {"open", "led", "hide", "commit"}
    BY <2>1 DEF Beginnings
  <2> HIDE DEF c
  <2>3. Line(x, S) /\ Len(x) = 1 /\ x[1] = c
    BY <2>1, <2>2, OneLine
  <2> QED
    BY <2>1, <2>3
<1>4. Line(y, S) /\ Len(y) = N /\ \A n \in 1 .. N : y[n] = SetCommand(way, data, n)
  <2>1. way[1] \in Axis /\ way[2] \in {0, 1}
    BY TclAssumption
  <2> QED
    BY <2>1, SetsLine DEF SetCommand, Landed
<1>5. Line(z, S) /\ Len(z) = N + 2
  <2>1. "begin -copy" \in Beginnings
    BY DEF Beginnings
  <2> QED
    BY <2>1, DrawLine DEF DrawOver
<1>6. \A m \in 1 .. N + 2 : z[m] \in Drawings
  <2>1. "begin -copy" \in Beginnings
    BY DEF Beginnings
  <2>2. \A n \in 1 .. Len(z) : z[n].do \in {"begin -copy", "led", "commit"}
    BY <2>1, DrawLine DEF DrawOver
  <2> HIDE DEF z
  <2> QED
    BY <1>5, <2>2, InDrawings
<1>7. s = v \o z
  BY DEF Rotate, Do, SetLine
<1> HIDE DEF c, x, y, z, S
<1>8. Line(u, S) /\ Len(u) = N + 3
  <2>1. Line(Hide, S) /\ Line(x, S)
    BY <1>1, <1>3
  <2>2. Line(u, S) /\ Len(u) = Len(Hide) + Len(x)
    BY <2>1, LineJoin, JoinedAt
  <2> HIDE DEF u
  <2> QED
    BY <1>1, <1>3, <2>2
<1>9. ASSUME NEW m \in 1 .. N + 3
      PROVE  /\ m <= N + 2 => u[m] = Hide[m]
             /\ m > N + 2 => u[m] = x[1]
  <2>1. Line(Hide, S) /\ Line(x, S)
    BY <1>1, <1>3
  <2>2. m \in 1 .. Len(Hide) + Len(x)
    BY <1>1, <1>3
  <2>3. /\ m <= Len(Hide) => (Hide \o x)[m] = Hide[m]
        /\ m > Len(Hide) => m - Len(Hide) \in 1 .. Len(x) /\ (Hide \o x)[m] = x[m - Len(Hide)]
    BY <2>1, <2>2, JoinedAt
  <2>4. m > N + 2 => m - (N + 2) = 1
    BY <1>1
  <2>5. /\ m <= N + 2 => (Hide \o x)[m] = Hide[m]
        /\ m > N + 2 => (Hide \o x)[m] = x[m - (N + 2)]
    BY <1>1, <2>3
  <2> QED
    BY <2>4, <2>5
<1> HIDE DEF u
<1>10. Line(v, S) /\ Len(v) = 2*N + 3
  <2>1. Line(u, S) /\ Line(y, S)
    BY <1>4, <1>8
  <2>2. Line(v, S)
    BY <2>1, LineJoin
  <2>3. Len(v) = Len(u) + Len(y)
    BY <2>1, JoinedAt
  <2> HIDE DEF v
  <2> QED
    BY <1>1, <1>4, <1>8, <2>2, <2>3
<1>11. ASSUME NEW m \in 1 .. 2*N + 3
       PROVE  /\ m <= N + 3 => v[m] = u[m]
              /\ m > N + 3 => v[m] = y[m - (N + 3)] /\ m - (N + 3) \in 1 .. N
  <2>1. Line(u, S) /\ Line(y, S)
    BY <1>4, <1>8
  <2>2. m \in 1 .. Len(u) + Len(y)
    BY <1>1, <1>4, <1>8
  <2>3. /\ m <= Len(u) => (u \o y)[m] = u[m]
        /\ m > Len(u) => m - Len(u) \in 1 .. Len(y) /\ (u \o y)[m] = y[m - Len(u)]
    BY <2>1, <2>2, JoinedAt
  <2> QED
    BY <1>1, <1>4, <1>8, <2>3
<1> HIDE DEF v
<1>12. Len(s) = 3*N + 5
  <2>1. Line(v, S) /\ Line(z, S)
    BY <1>5, <1>10
  <2>2. Len(v \o z) = Len(v) + Len(z)
    BY <2>1, JoinedAt
  <2> QED
    BY <1>1, <1>5, <1>7, <1>10, <2>2
<1>13. ASSUME NEW m \in 1 .. 3*N + 5
       PROVE  /\ m <= 2*N + 3 => s[m] = v[m]
              /\ m > 2*N + 3 => s[m] = z[m - (2*N + 3)] /\ m - (2*N + 3) \in 1 .. N + 2
  <2>1. Line(v, S) /\ Line(z, S)
    BY <1>5, <1>10
  <2>2. m \in 1 .. Len(v) + Len(z)
    BY <1>1, <1>5, <1>10
  <2>3. /\ m <= Len(v) => (v \o z)[m] = v[m]
        /\ m > Len(v) => m - Len(v) \in 1 .. Len(z) /\ (v \o z)[m] = z[m - Len(v)]
    BY <2>1, <2>2, JoinedAt
  <2> QED
    BY <1>1, <1>5, <1>7, <1>10, <2>3
<1>14. ASSUME NEW m \in 1 .. 3*N + 5
       PROVE  s[m] \in RotatePlan(way, data)[m]
  <2>1. CASE m = N + 3
    <3>1. m <= 2*N + 3 /\ m \in 1 .. 2*N + 3 /\ m <= N + 3 /\ m \in 1 .. N + 3 /\ m > N + 2
      BY <1>1, <2>1
    <3>2. s[m] = [do |-> "clear", args |-> <<>>]
      BY <1>3, <1>9, <1>11, <1>13, <3>1
    <3> QED
      BY <1>1, <2>1, <3>2 DEF RotatePlan
  <2>2. CASE m \in N + 4 .. 2*N + 3
    <3>1. m <= 2*N + 3 /\ m \in 1 .. 2*N + 3 /\ m > N + 3 /\ m # N + 3
      BY <1>1, <2>2
    <3>2. s[m] = y[m - (N + 3)] /\ m - (N + 3) \in 1 .. N
      BY <1>11, <1>13, <3>1
    <3>3. s[m] = SetCommand(way, data, m - (N + 3))
      BY <1>4, <3>2
    <3> QED
      BY <1>1, <2>2, <3>1, <3>3 DEF RotatePlan
  <2>3. CASE m \in 1 .. N + 2
    <3>1. /\ m <= 2*N + 3 /\ m \in 1 .. 2*N + 3 /\ m <= N + 3 /\ m \in 1 .. N + 3
          /\ m <= N + 2 /\ m # N + 3 /\ m \notin N + 4 .. 2*N + 3
      BY <1>1, <2>3
    <3>2. s[m] \in Drawings
      BY <1>2, <1>9, <1>11, <1>13, <2>3, <3>1
    <3> QED
      BY <1>1, <2>3, <3>1, <3>2 DEF RotatePlan
  <2>4. CASE m \in 2*N + 4 .. 3*N + 5
    <3>1. m > 2*N + 3 /\ m # N + 3 /\ m \notin N + 4 .. 2*N + 3
      BY <1>1, <2>4
    <3>2. s[m] \in Drawings
      BY <1>6, <1>13, <3>1
    <3> QED
      BY <1>1, <2>4, <3>1, <3>2 DEF RotatePlan
  <2>5. m = N + 3 \/ m \in N + 4 .. 2*N + 3 \/ m \in 1 .. N + 2 \/ m \in 2*N + 4 .. 3*N + 5
    BY <1>1
  <2> QED
    BY <2>1, <2>2, <2>3, <2>4, <2>5
<1> QED
  BY <1>12, <1>14

\* A bounce that is entered is at its beginning.
LEMMA EnterBounce ==
  ASSUME Shape, Inside, script' = Bounce, entry'.line = "bounce", entry'.fits = Headed,
         size' = size, place' = place, motion' = motion
  PROVE  Bouncing' /\ script' # <<>>
<1>1. N \in Nat \ {0} /\ N' = N /\ BouncePlan' = BouncePlan /\ size \in Sizes
  BY CellsInOrder, SamePlans DEF Shape
<1>2. Len(script') = 2*N + 13 /\ \A m \in 1 .. 2*N + 13 : script'[m] \in BouncePlan[m]
  BY <1>1, BounceLine
<1>3. /\ Len(script') \in 1 .. 2*N + 13 /\ script' # <<>>
      /\ \A n \in 1 .. Len(script') : script'[n] \in BouncePlan[2*N + 13 - Len(script') + n]
      /\ 2*N + 13 - Len(script') = 0
  <2>1. 2*N + 13 \in Nat \ {0} /\ 2*N + 13 - Len(script') = 0 /\ Len(script') \in 1 .. 2*N + 13
    BY <1>1, <1>2
  <2>2. script' # <<>>
    <3>1. Len(<<>>) = 0
      OBVIOUS
    <3> QED
      BY <2>1, <3>1
  <2>3. ASSUME NEW n \in 1 .. Len(script')
        PROVE  script'[n] \in BouncePlan[2*N + 13 - Len(script') + n]
    <3>1. 2*N + 13 - Len(script') + n = n /\ n \in 1 .. 2*N + 13
      BY <2>1
    <3> QED
      BY <1>2, <3>1
  <2> QED
    BY <2>1, <2>2, <2>3
<1>4. Follows(BouncePlan, 2*N + 13)'
  BY <1>1, <1>3 DEF Follows
<1>5. ASSUME Headed, NEW a \in Axis
      PROVE  BounceAxis(0, a)'
  <2>1. /\ place[a] \in Int /\ motion[a] \in Int /\ size[a] \in Int /\ Side \in Int
        /\ place[a] \in 0 .. Side - size[a] /\ motion[a] \in -1 .. 1
        /\ place[a] <= 0 => motion[a] >= 0
        /\ place[a] + size[a] > Side - 1 => motion[a] <= 0
    BY <1>1, <1>5, TclAssumption DEF Shape, Inside, Headed
  <2> QED
    BY <1>1, <2>1 DEF BounceAxis
<1>6. Done(2*N + 13)' = 0
  BY <1>1, <1>3 DEF Done
<1>7. Headed => BounceStage'
  BY <1>5, <1>6 DEF BounceStage
<1> QED
  BY <1>3, <1>4, <1>7 DEF Bouncing

\* A roll that is entered is at its beginning.
LEMMA EnterRoll ==
  ASSUME Shape, NEW way \in Rolls, script' = Roll(way[1], way[2]),
         entry'.line = "roll", entry'.fits = Clear,
         size' = size, place' = place, motion' = motion
  PROVE  Rolling' /\ script' # <<>>
<1>1. N \in Nat \ {0} /\ N' = N /\ RollPlan' = RollPlan /\ size \in Sizes
  BY CellsInOrder, SamePlans DEF Shape
<1>2. Len(script') = 2*N + 8 /\ \A m \in 1 .. 2*N + 8 : script'[m] \in RollPlan[m]
  BY <1>1, RollLine
<1>3. /\ Len(script') \in 1 .. 2*N + 8 /\ script' # <<>>
      /\ \A n \in 1 .. Len(script') : script'[n] \in RollPlan[2*N + 8 - Len(script') + n]
      /\ 2*N + 8 - Len(script') = 0
  <2>1. 2*N + 8 \in Nat \ {0} /\ 2*N + 8 - Len(script') = 0 /\ Len(script') \in 1 .. 2*N + 8
    BY <1>1, <1>2
  <2>2. script' # <<>>
    <3>1. Len(<<>>) = 0
      OBVIOUS
    <3> QED
      BY <2>1, <3>1
  <2>3. ASSUME NEW n \in 1 .. Len(script')
        PROVE  script'[n] \in RollPlan[2*N + 8 - Len(script') + n]
    <3>1. 2*N + 8 - Len(script') + n = n /\ n \in 1 .. 2*N + 8
      BY <2>1
    <3> QED
      BY <1>2, <3>1
  <2> QED
    BY <2>1, <2>2, <2>3
<1>4. Follows(RollPlan, 2*N + 8)'
  BY <1>1, <1>3 DEF Follows
<1>5. ASSUME Clear, NEW a \in Axis
      PROVE  RollAxis(0, a)'
  BY <1>5 DEF Clear, RollAxis
<1>6. Done(2*N + 8)' = 0
  BY <1>1, <1>3 DEF Done
<1>7. Clear => RollStage'
  BY <1>5, <1>6 DEF RollStage
<1> QED
  BY <1>3, <1>4, <1>7 DEF Rolling

\* A rotation that is entered is at its beginning.
LEMMA EnterRotate ==
  ASSUME Shape, NEW way \in Rotations, script' = Rotate(way[1], way[2]),
         entry'.line = "rotate", entry'.axis = way[1], entry'.data = data, size' = size
  PROVE  Rotating' /\ script' # <<>>
<1>1. N \in Nat \ {0} /\ N' = N /\ size \in Sizes /\ data \in [Cells(size) -> Colour]
  BY CellsInOrder, SamePlans DEF Shape
<1>2. PICK plan : plan = RotatePlan(way, data)
  OBVIOUS
<1>3. Len(script') = 3*N + 5 /\ \A m \in 1 .. 3*N + 5 : script'[m] \in plan[m]
  BY <1>1, <1>2, RotateLine
<1>4. /\ Len(script') \in 1 .. 3*N + 5 /\ script' # <<>>
      /\ \A n \in 1 .. Len(script') : script'[n] \in plan[3*N + 5 - Len(script') + n]
      /\ 3*N + 5 - Len(script') = 0
  <2>1. 3*N + 5 \in Nat \ {0} /\ 3*N + 5 - Len(script') = 0 /\ Len(script') \in 1 .. 3*N + 5
    BY <1>1, <1>3
  <2>2. script' # <<>>
    <3>1. Len(<<>>) = 0
      OBVIOUS
    <3> QED
      BY <2>1, <3>1
  <2>3. ASSUME NEW n \in 1 .. Len(script')
        PROVE  script'[n] \in plan[3*N + 5 - Len(script') + n]
    <3>1. 3*N + 5 - Len(script') + n = n /\ n \in 1 .. 3*N + 5
      BY <2>1
    <3> QED
      BY <1>3, <3>1
  <2> QED
    BY <2>1, <2>2, <2>3
<1>5. RotatePlan(way, entry.data)' = plan
  <2>1. \A n : CellNo(n)' = CellNo(n) /\ Landed(way, n)' = Landed(way, n)
    BY SamePlans DEF Landed, RotatedCell
  <2>2. Drawings' = Drawings
    BY SamePlans
  <2> QED
    BY <1>1, <1>2, <2>1, <2>2 DEF RotatePlan, SetCommand
<1>6. Follows(RotatePlan(way, entry.data), 3*N + 5)'
  <2> DEFINE P == RotatePlan(way, entry.data)
             T == 3*N + 5
  <2>1. P' = plan /\ T' = 3*N + 5
    BY <1>1, <1>5
  <2> HIDE DEF P, T
  <2>2. T' - Len(script') = 0 /\ Len(script') \in 1 .. T'
    BY <1>1, <1>3, <2>1
  <2>3. \A n \in 1 .. Len(script') : script'[n] \in plan[n] /\ T' - Len(script') + n = n
    BY <1>3, <2>2
  <2>4. Follows(P, T)'
    BY <2>1, <2>2, <2>3 DEF Follows
  <2> QED
    BY <2>4 DEF P, T
<1>7. RotateStage(way)'
  <2>1. Done(3*N + 5)' = 0
    BY <1>1, <1>4 DEF Done
  <2>2. \A n \in 1 .. N : ~(0 >= N + 3 + n)
    BY <1>1
  <2> QED
    BY <1>1, <2>1, <2>2 DEF RotateStage
<1> QED
  BY <1>4, <1>6, <1>7 DEF Rotating

\* Before anything is entered nothing is remembered.
LEMMA LineInitial == TclInit => LineInv
<1> SUFFICES ASSUME TclInit
             PROVE  LineInv
  OBVIOUS
<1>1. entry.line = "none" /\ sigmask = FALSE
  BY DEF TclInit, NoLine
<1> QED
  BY <1>1 DEF LineInv, Bouncing, Rolling, Rotating

\* A signal that is noted is noted for a line.
LEMMA SignalInLine ==
  ASSUME TclInv, LineInv, [TclNext]_tclVars
  PROVE  sigmask' => script' # <<>>
<1>1. sigmask => script # <<>>
  BY DEF LineInv
<1>2. \A commands : Continues(commands) => sigmask' = FALSE
  BY DEF Continues
<1>3. Fails => sigmask' = FALSE
  BY DEF Fails
<1>4. CASE EnterLine \/ SetPlace \/ SetMotion \/ SetPicture
  BY <1>1, <1>4 DEF EnterLine, Enter, SetPlace, SetMotion, SetPicture, Configure, Idle
<1>5. CASE BeginFails \/ CommitFails \/ SetCellFails
  BY <1>3, <1>5 DEF BeginFails, CommitFails, SetCellFails
<1>6. CASE BeginCopies
  <2>1. /\ script' = Do("open", <<>>) \o Tail(script) /\ Head(script).do \in Beginnings
        /\ script # <<>>
    BY <1>6 DEF BeginCopies, Begins, Command, Beginnings
  <2> QED
    BY <2>1, OpenParts DEF TclInv, Typed, Script
<1>7. CASE \/ BeginOpens \/ DrawCell \/ HideCell \/ Commit \/ Increment \/ TurnLow
           \/ TurnHigh \/ SteerByDistance \/ SteerByTable \/ SteerClear \/ ClearData \/ SetCell
  BY <1>2, <1>7 DEF BeginOpens, DrawCell, HideCell, Commit, Increment, TurnLow, TurnHigh,
                    SteerByDistance, SteerByTable, SteerClear, ClearData, SetCell, Returns
<1>8. CASE Interrupt
  BY <1>8 DEF Interrupt, Idle
<1>9. CASE UNCHANGED tclVars
  BY <1>1, <1>9 DEF tclVars, shellVars
<1> QED
  BY <1>4, <1>5, <1>6, <1>7, <1>8, <1>9 DEF TclNext, Step

\* A line is remembered when it is entered, and at no other time.
LEMMA LineEntered ==
  ASSUME TclInv, LineInv, [TclNext]_tclVars, entry.line = "none", entry'.line # "none"
  PROVE  LineInv'
<1>1. NoLine.line = "none"
  BY DEF NoLine
<1>2. EnterLine
  <2>1. \A commands : Continues(commands) => entry' = NoLine \/ entry' = entry
    BY DEF Continues
  <2>2. ~(SetPlace \/ SetMotion \/ SetPicture)
    BY DEF SetPlace, SetMotion, SetPicture, Configure
  <2>3. ~(BeginFails \/ CommitFails \/ SetCellFails)
    BY <1>1 DEF BeginFails, CommitFails, SetCellFails, Fails
  <2>4. ~BeginCopies
    BY DEF BeginCopies
  <2>5. ~(\/ BeginOpens \/ DrawCell \/ HideCell \/ Commit \/ Increment \/ TurnLow \/ TurnHigh
          \/ SteerByDistance \/ SteerByTable \/ SteerClear \/ ClearData \/ SetCell)
    BY <1>1, <2>1 DEF BeginOpens, DrawCell, HideCell, Commit, Increment, TurnLow, TurnHigh,
                      SteerByDistance, SteerByTable, SteerClear, ClearData, SetCell, Returns
  <2>6. ~Interrupt
    BY <1>1 DEF Interrupt
  <2>7. ~UNCHANGED tclVars
    BY DEF tclVars, shellVars
  <2> QED
    BY <2>2, <2>3, <2>4, <2>5, <2>6, <2>7 DEF TclNext, Step
<1>3. /\ Shape /\ script = <<>> /\ ~sigmask /\ sigmask' = sigmask
      /\ place' = place /\ motion' = motion /\ size' = size /\ data' = data
  BY <1>2 DEF TclInv, Typed, LineInv, EnterLine, Enter, Idle, spriteVars
<1>4. CASE Inside /\ Enter(Bounce) /\ Remember("bounce", 0, Headed)
  <2>1. /\ script' = Bounce /\ entry'.line = "bounce" /\ entry'.fits = Headed
    BY <1>4 DEF Enter, Remember
  <2>2. Bouncing' /\ script' # <<>>
    BY <1>3, <1>4, <2>1, EnterBounce
  <2> QED
    BY <1>3, <2>1, <2>2 DEF LineInv, Rolling, Rotating
<1>5. ASSUME NEW way \in Rolls, Enter(Roll(way[1], way[2])), Remember("roll", way[1], Clear)
      PROVE  LineInv'
  <2>1. /\ script' = Roll(way[1], way[2]) /\ entry'.line = "roll" /\ entry'.fits = Clear
    BY <1>5 DEF Enter, Remember
  <2>2. Rolling' /\ script' # <<>>
    BY <1>3, <2>1, EnterRoll
  <2> QED
    BY <1>3, <2>1, <2>2 DEF LineInv, Bouncing, Rotating
<1>6. ASSUME NEW way \in Rotations, Enter(Rotate(way[1], way[2])),
             Remember("rotate", way[1], TRUE)
      PROVE  LineInv'
  <2>1. /\ script' = Rotate(way[1], way[2])
        /\ entry'.line = "rotate" /\ entry'.axis = way[1] /\ entry'.data = data
    BY <1>6 DEF Enter, Remember
  <2>2. Rotating' /\ script' # <<>>
    BY <1>3, <2>1, EnterRotate
  <2> QED
    BY <1>3, <2>1, <2>2 DEF LineInv, Bouncing, Rolling
<1>7. entry' # entry
  OBVIOUS
<1> QED
  BY <1>2, <1>4, <1>5, <1>6, <1>7 DEF EnterLine

\* Every step keeps a remembered line to its plan.
LEMMA LineKeeps ==
  ASSUME TclInv, LineInv, [TclNext]_tclVars
  PROVE  LineInv'
<1>1. sigmask' => script' # <<>>
  BY SignalInLine
<1>2. CASE entry'.line = "none"
  BY <1>1, <1>2 DEF LineInv, Bouncing, Rolling, Rotating
<1>3. CASE entry.line = "none" /\ entry'.line # "none"
  BY <1>3, LineEntered
<1>4. CASE entry.line # "none" /\ entry'.line # "none"
  <2>1. /\ script # <<>> /\ script' # <<>> /\ sigmask' = FALSE
        /\ entry' = entry /\ size' = size /\ CommandDone
    BY <1>4, InLine
  <2>2. Bouncing'
    BY <2>1, BounceStep DEF Bouncing
  <2>3. Rolling'
    BY <2>1, RollStep DEF Rolling
  <2>4. Rotating'
    BY <2>1, RotateStep DEF Rotating
  <2> QED
    BY <2>1, <2>2, <2>3, <2>4 DEF LineInv
<1> QED
  BY <1>2, <1>3, <1>4

\* The invariant of the lines that are remembered.
LEMMA LineInvariant == TclSpec => [](TclInv /\ LineInv)
<1>1. TclInit => TclInv /\ LineInv
  BY TclInitial, LineInitial
<1>2. (TclInv /\ LineInv) /\ [TclNext]_tclVars => (TclInv /\ LineInv)'
  BY StepKeeps, LineKeeps
<1> QED
  BY <1>1, <1>2, PTL DEF TclSpec

\* A step that does no movement.
LEMMA OnlyDrawing ==
  ASSUME Step, Head(script).do \in Beginnings \cup {"open", "led", "hide", "commit"}
  PROVE  place' = place /\ motion' = motion /\ size' = size /\ data' = data
<1>1. ~(\/ Increment \/ TurnLow \/ TurnHigh \/ SteerByTable \/ SteerByDistance
        \/ SteerClear \/ ClearData \/ SetCell \/ SetCellFails)
  BY DEF Increment, TurnLow, TurnHigh, SteerByTable, SteerByDistance, SteerClear,
         ClearData, SetCell, SetCellFails, Command, Beginnings
<1>2. CASE BeginFails \/ CommitFails
  BY <1>2 DEF BeginFails, CommitFails, Fails, spriteVars
<1>3. CASE BeginCopies \/ BeginOpens \/ DrawCell \/ HideCell \/ Commit
  BY <1>3 DEF BeginCopies, BeginOpens, DrawCell, HideCell, Commit, spriteVars
<1> QED
  BY <1>1, <1>2, <1>3 DEF Step

\* The last command of a bounce is the turn at the last wall.
LEMMA BounceEnds ==
  ASSUME TclInv, LineInv, entry.fits, Ends("bounce")
  PROVE  Inside' /\ Headed'
<1>1. Shape /\ Script /\ size \in Sizes /\ Follows(BouncePlan, 2*N + 13) /\ BounceStage
  BY DEF TclInv, Typed, Shape, LineInv, Bouncing, Ends
<1>2. N \in Nat \ {0} /\ Len(script) = 1 /\ Step
  BY <1>1, CellsInOrder DEF Ends
<1>3. /\ script # <<>> /\ Done(2*N + 13) = 2*N + 12
      /\ Head(script) \in BouncePlan[2*N + 13]
  <2>1. 2*N + 13 \in Nat /\ Done(2*N + 13) = 2*N + 12 /\ 2*N + 12 + 1 = 2*N + 13
    BY <1>2 DEF Done
  <2>2. script # <<>> /\ Head(script) \in BouncePlan[Done(2*N + 13) + 1]
    BY <1>1, <2>1, FollowsHead
  <2> QED
    BY <2>1, <2>2
<1>4. PICK c \in BouncePlan[2*N + 13] : c = Head(script)
  BY <1>3
<1>5. c.do = "turnhigh" /\ c.args[1] = 3
  <2>1. PICK m \in 1 .. 2*N + 13 : m = 2*N + 13
    BY <1>2
  <2>2. /\ m \notin N + 3 .. N + 5 /\ m \notin 2*N + 8 .. 2*N + 10
        /\ m \notin 1 .. N + 2 \cup N + 6 .. 2*N + 7 /\ m - (2*N + 10) = 3
    BY <1>2, <2>1
  <2>3. c.do = "turnhigh" /\ c.args[1] = m - (2*N + 10)
    BY <1>1, <2>1, <2>2, BouncePlaces
  <2> QED
    BY <2>2, <2>3
<1>6. TurnHigh
  BY <1>2, <1>4, <1>5 DEF Step, BeginFails, BeginCopies, Begins, BeginOpens, DrawCell, HideCell,
       CommitFails, Commit, Increment, TurnLow, SteerByTable, SteerByDistance, SteerClear,
       ClearData, SetCell, SetCellFails, Command
<1>7. /\ place' = place /\ size' = size
      /\ motion' = IF place[3] + size[3] > Side - 1 /\ motion[3] > 0
                   THEN [motion EXCEPT ![3] = -@] ELSE motion
  <2>1. Args[1] = 3
    BY <1>4, <1>5 DEF Args
  <2> QED
    BY <1>6, <2>1 DEF TurnHigh
<1>8. ASSUME NEW a \in Axis
      PROVE  /\ place'[a] \in 0 .. Side - size'[a] /\ motion'[a] \in -1 .. 1
             /\ place'[a] <= 0 => motion'[a] >= 0
             /\ place'[a] + size'[a] > Side - 1 => motion'[a] <= 0
  <2>1. PICK d \in Nat : d = 2*N + 12
    BY <1>2
  <2>2. BounceAxis(d, a)
    BY <1>1, <1>3, <2>1 DEF BounceStage
  <2>3. PICK b \in Axis : b = 3
    BY DEF Axis
  <2>4. d + 1 = 2*N + 10 + b
    BY <1>2, <2>1, <2>3
  <2>5. BounceAxis(d + 1, a)'
    BY <1>1, <1>7, <2>2, <2>3, <2>4, BounceTurns
  <2>6. /\ a \in 1 .. 3 /\ N' = N /\ d + 1 \notin N + 2 + a .. 2*N + 6 + a
        /\ d + 1 \notin N + 2 + a .. 2*N + 9 + a
    BY <1>2, <1>7, <2>1, SamePlans DEF Axis
  <2> QED
    BY <2>5, <2>6 DEF BounceAxis
<1> QED
  BY <1>8 DEF Inside, Headed

\* The last command of a roll draws the sprite.
LEMMA RollEnds ==
  ASSUME TclInv, LineInv, entry.fits, Ends("roll")
  PROVE  Clear'
<1>1. Shape /\ Script /\ size \in Sizes /\ Follows(RollPlan, 2*N + 8) /\ RollStage
  BY DEF TclInv, Typed, Shape, LineInv, Rolling, Ends
<1>2. N \in Nat \ {0} /\ Len(script) = 1 /\ Step
  BY <1>1, CellsInOrder DEF Ends
<1>3. Done(2*N + 8) = 2*N + 7 /\ Head(script) \in RollPlan[2*N + 8]
  <2>1. 2*N + 8 \in Nat /\ Done(2*N + 8) = 2*N + 7 /\ 2*N + 7 + 1 = 2*N + 8
    BY <1>2 DEF Done
  <2>2. Head(script) \in RollPlan[Done(2*N + 8) + 1]
    BY <1>1, <2>1, FollowsHead
  <2> QED
    BY <2>1, <2>2
<1>4. Head(script).do \in Beginnings \cup {"open", "led", "hide", "commit"}
  <2>1. PICK m \in 1 .. 2*N + 8 : m = 2*N + 8
    BY <1>2
  <2>2. m # 1 /\ m \notin N + 4 .. N + 6
    BY <1>2, <2>1
  <2>3. PICK c \in RollPlan[m] : c = Head(script)
    BY <1>3, <2>1
  <2>4. c.do \in Beginnings \cup {"open", "led", "hide", "commit"}
    BY <1>1, <2>2, RollPlaces
  <2> QED
    BY <2>3, <2>4
<1>5. place' = place /\ size' = size
  BY <1>2, <1>4, OnlyDrawing
<1>6. ASSUME NEW a \in Axis
      PROVE  place[a] \in 0 .. Side - 1 - size[a]
  <2>1. RollAxis(2*N + 7, a)
    BY <1>1, <1>3 DEF RollStage
  <2>2. 2*N + 7 \notin 1 .. N + 2 + a
    BY <1>2 DEF Axis
  <2> QED
    BY <2>1, <2>2 DEF RollAxis
<1> QED
  BY <1>5, <1>6 DEF Clear

\* A bounce is at no wall the sprite is going to when it ends, and a roll has a
\* plane free at the upper walls (bounce and roll of ext/sprite.class).
THEOREM MovesInside == TclSpec => MovesStayInside
<1>1. (TclInv /\ LineInv) /\ [TclNext]_tclVars =>
        [entry.line # "none" /\ entry.fits =>
           /\ Ends("bounce") => Inside' /\ Headed'
           /\ Ends("roll") => Clear']_tclVars
  BY BounceEnds, RollEnds
<1> QED
  BY <1>1, LineInvariant, PTL DEF TclSpec, MovesStayInside

\* The two axes a rotation exchanges.
LEMMA OtherAxes ==
  ASSUME NEW axis \in Axis, NEW a \in Axis, NEW b \in Axis, a # axis, b # axis, a < b
  PROVE  /\ (CHOOSE x \in Other(axis) : \A y \in Other(axis) : x <= y) = a
         /\ (CHOOSE x \in Other(axis) : x # a) = b
<1>1. Other(axis) = {a, b} /\ a \in Int /\ b \in Int
  BY DEF Other, Axis
<1>2. (CHOOSE x \in Other(axis) : \A y \in Other(axis) : x <= y) = a
  <2>1. \E x \in Other(axis) : \A y \in Other(axis) : x <= y
    BY <1>1
  <2>2. \A x \in Other(axis) : (\A y \in Other(axis) : x <= y) => x = a
    BY <1>1
  <2> QED
    BY <2>1, <2>2
<1>3. (CHOOSE x \in Other(axis) : x # a) = b
  <2>1. \E x \in Other(axis) : x # a
    BY <1>1
  <2>2. \A x \in Other(axis) : x # a => x = b
    BY <1>1
  <2> QED
    BY <2>1, <2>2
<1> QED
  BY <1>2, <1>3

\* A cell at the turned place is the one a cell is taken to.
LEMMA TurnedPlace ==
  ASSUME size \in Sizes, NEW axis \in Axis, NEW a \in Axis, NEW b \in Axis,
         a # axis, b # axis, a # b, size[a] = size[b], NEW sign \in {-1, 1},
         NEW c \in Cells(size), NEW e \in Cells(size), NEW r \in Cells(size),
         r[axis] = c[axis],
         r[a] = IF sign = 1 THEN c[b] ELSE size[a] - 1 - c[b],
         r[b] = IF sign = 1 THEN size[a] - 1 - c[a] ELSE c[a],
         e[axis] = c[axis], Middle(e, a) = sign * Middle(c, b),
         Middle(e, b) = (0 - sign) * Middle(c, a)
  PROVE  e = r
<1>1. /\ size[a] \in Int /\ c[a] \in Int /\ c[b] \in Int /\ e[a] \in Int /\ e[b] \in Int
  BY Edges DEF Axis
<1>2. e[a] = r[a]
  <2>1. 2 * e[a] - (size[a] - 1) = sign * (2 * c[b] - (size[a] - 1))
    BY DEF Middle
  <2>2. CASE sign = 1
    BY <1>1, <2>1, <2>2
  <2>3. CASE sign = -1
    BY <1>1, <2>1, <2>3
  <2> QED
    BY <2>2, <2>3
<1>3. e[b] = r[b]
  <2>1. 2 * e[b] - (size[a] - 1) = (0 - sign) * (2 * c[a] - (size[a] - 1))
    BY DEF Middle
  <2>2. CASE sign = 1
    BY <1>1, <2>1, <2>2
  <2>3. CASE sign = -1
    BY <1>1, <2>1, <2>3
  <2> QED
    BY <2>2, <2>3
<1>4. e[1] = r[1] /\ e[2] = r[2] /\ e[3] = r[3]
  <2>1. \A x \in Axis : x = axis \/ x = a \/ x = b
    BY DEF Axis
  <2>2. \A x \in Axis : e[x] = r[x]
    BY <1>2, <1>3, <2>1
  <2> QED
    BY <2>2 DEF Axis
<1>5. e = <<e[1], e[2], e[3]>> /\ r = <<r[1], r[2], r[3]>>
  BY Edges
<1> QED
  BY <1>4, <1>5

\* A rotation takes a cell from one axis to the other, and back from its far end.
LEMMA LandingTurns ==
  ASSUME size \in Sizes, NEW axis \in Axis, NEW dir \in {0, 1},
         \A c \in Cells(size) : RotatedCell(axis, dir, c) \in Cells(size)
  PROVE  \E a, b \in Axis : \E sign \in {-1, 1} :
           /\ a # axis /\ b # axis /\ a < b /\ size[a] = size[b]
           /\ \A c \in Cells(size) :
                /\ RotatedCell(axis, dir, c)[axis] = c[axis]
                /\ RotatedCell(axis, dir, c)[a] =
                     IF sign = 1 THEN c[b] ELSE size[a] - 1 - c[b]
                /\ RotatedCell(axis, dir, c)[b] =
                     IF sign = 1 THEN size[a] - 1 - c[a] ELSE c[a]
<1> DEFINE low == <<0, 0, 0>>
           high == <<size[1] - 1, size[2] - 1, size[3] - 1>>
<1>1. /\ size[1] \in Nat \ {0} /\ size[2] \in Nat \ {0} /\ size[3] \in Nat \ {0}
      /\ low \in Cells(size) /\ high \in Cells(size)
  BY Edges
<1>2. /\ RotatedCell(axis, dir, low) \in Cells(size)
      /\ RotatedCell(axis, dir, high) \in Cells(size)
  BY <1>1
<1>3. \A c \in Cells(size) : c[1] \in Int /\ c[2] \in Int /\ c[3] \in Int
  BY Edges
<1>4. \A c \in Cells(size) :
        c[1] \in 0 .. size[1] - 1 /\ c[2] \in 0 .. size[2] - 1 /\ c[3] \in 0 .. size[3] - 1
  BY Edges
<1>14. /\ low[1] = 0 /\ low[2] = 0 /\ low[3] = 0
       /\ high[1] = size[1] - 1 /\ high[2] = size[2] - 1 /\ high[3] = size[3] - 1
  OBVIOUS
<1> HIDE DEF low, high
<1>5. ASSUME axis = 1, dir = 0
      PROVE  /\ size[2] = size[3]
             /\ \A c \in Cells(size) : RotatedCell(axis, dir, c) = <<c[1], size[2] - 1 - c[3], c[2]>>
  <2>1. \A c : RotatedCell(axis, dir, c) = <<c[1], size[3] - 1 - c[3], c[2]>>
    BY <1>5 DEF RotatedCell
  <2>2. size[2] = size[3]
    <3>1. RotatedCell(axis, dir, high)[3] = size[2] - 1
      BY <1>14, <2>1
    <3>2. RotatedCell(axis, dir, low)[2] = size[3] - 1
      BY <1>1, <1>14, <2>1
    <3>3. size[2] - 1 \in 0 .. size[3] - 1 /\ size[3] - 1 \in 0 .. size[2] - 1
      BY <1>2, <1>4, <3>1, <3>2
    <3> QED
      BY <1>1, <3>3
  <2> QED
    BY <2>1, <2>2
<1>6. ASSUME axis = 1, dir = 1
      PROVE  /\ size[2] = size[3]
             /\ \A c \in Cells(size) : RotatedCell(axis, dir, c) = <<c[1], c[3], size[2] - 1 - c[2]>>
  <2>1. \A c : RotatedCell(axis, dir, c) = <<c[1], c[3], size[2] - 1 - c[2]>>
    BY <1>6 DEF RotatedCell
  <2>2. size[2] = size[3]
    <3>1. RotatedCell(axis, dir, high)[2] = size[3] - 1
      BY <1>14, <2>1
    <3>2. RotatedCell(axis, dir, low)[3] = size[2] - 1
      BY <1>1, <1>14, <2>1
    <3>3. size[3] - 1 \in 0 .. size[2] - 1 /\ size[2] - 1 \in 0 .. size[3] - 1
      BY <1>2, <1>4, <3>1, <3>2
    <3> QED
      BY <1>1, <3>3
  <2> QED
    BY <2>1, <2>2
<1>7. ASSUME axis = 2, dir = 0
      PROVE  /\ size[1] = size[3]
             /\ \A c \in Cells(size) : RotatedCell(axis, dir, c) = <<size[1] - 1 - c[3], c[2], c[1]>>
  <2>1. \A c : RotatedCell(axis, dir, c) = <<size[3] - 1 - c[3], c[2], c[1]>>
    BY <1>7 DEF RotatedCell
  <2>2. size[1] = size[3]
    <3>1. RotatedCell(axis, dir, high)[3] = size[1] - 1
      BY <1>14, <2>1
    <3>2. RotatedCell(axis, dir, low)[1] = size[3] - 1
      BY <1>1, <1>14, <2>1
    <3>3. size[1] - 1 \in 0 .. size[3] - 1 /\ size[3] - 1 \in 0 .. size[1] - 1
      BY <1>2, <1>4, <3>1, <3>2
    <3> QED
      BY <1>1, <3>3
  <2> QED
    BY <2>1, <2>2
<1>8. ASSUME axis = 2, dir = 1
      PROVE  /\ size[1] = size[3]
             /\ \A c \in Cells(size) : RotatedCell(axis, dir, c) = <<c[3], c[2], size[1] - 1 - c[1]>>
  <2>1. \A c : RotatedCell(axis, dir, c) = <<c[3], c[2], size[1] - 1 - c[1]>>
    BY <1>8 DEF RotatedCell
  <2>2. size[1] = size[3]
    <3>1. RotatedCell(axis, dir, high)[1] = size[3] - 1
      BY <1>14, <2>1
    <3>2. RotatedCell(axis, dir, low)[3] = size[1] - 1
      BY <1>1, <1>14, <2>1
    <3>3. size[3] - 1 \in 0 .. size[1] - 1 /\ size[1] - 1 \in 0 .. size[3] - 1
      BY <1>2, <1>4, <3>1, <3>2
    <3> QED
      BY <1>1, <3>3
  <2> QED
    BY <2>1, <2>2
<1>9. ASSUME axis = 3, dir = 0
      PROVE  /\ size[1] = size[2]
             /\ \A c \in Cells(size) : RotatedCell(axis, dir, c) = <<c[2], size[1] - 1 - c[1], c[3]>>
  <2>1. \A c : RotatedCell(axis, dir, c) = <<c[2], size[1] - 1 - c[1], c[3]>>
    BY <1>9 DEF RotatedCell
  <2>2. size[1] = size[2]
    <3>1. RotatedCell(axis, dir, high)[1] = size[2] - 1
      BY <1>14, <2>1
    <3>2. RotatedCell(axis, dir, low)[2] = size[1] - 1
      BY <1>1, <1>14, <2>1
    <3>3. size[2] - 1 \in 0 .. size[1] - 1 /\ size[1] - 1 \in 0 .. size[2] - 1
      BY <1>2, <1>4, <3>1, <3>2
    <3> QED
      BY <1>1, <3>3
  <2> QED
    BY <2>1, <2>2
<1>10. ASSUME axis = 3, dir = 1
       PROVE  /\ size[1] = size[2]
              /\ \A c \in Cells(size) : RotatedCell(axis, dir, c) = <<size[1] - 1 - c[2], c[1], c[3]>>
  <2>1. \A c : RotatedCell(axis, dir, c) = <<size[2] - 1 - c[2], c[1], c[3]>>
    BY <1>10 DEF RotatedCell
  <2>2. size[1] = size[2]
    <3>1. RotatedCell(axis, dir, high)[2] = size[1] - 1
      BY <1>14, <2>1
    <3>2. RotatedCell(axis, dir, low)[1] = size[2] - 1
      BY <1>1, <1>14, <2>1
    <3>3. size[1] - 1 \in 0 .. size[2] - 1 /\ size[2] - 1 \in 0 .. size[1] - 1
      BY <1>2, <1>4, <3>1, <3>2
    <3> QED
      BY <1>1, <3>3
  <2> QED
    BY <2>1, <2>2
<1>11. CASE axis = 1
  <2> DEFINE sign == IF dir = 0 THEN -1 ELSE 1
  <2>1. 2 \in Axis /\ 3 \in Axis /\ sign \in {-1, 1} /\ size[2] = size[3]
    BY <1>5, <1>6, <1>11 DEF Axis
  <2>2. ASSUME NEW c \in Cells(size)
        PROVE  /\ RotatedCell(axis, dir, c)[axis] = c[axis]
               /\ RotatedCell(axis, dir, c)[2] = IF sign = 1 THEN c[3] ELSE size[2] - 1 - c[3]
               /\ RotatedCell(axis, dir, c)[3] = IF sign = 1 THEN size[2] - 1 - c[2] ELSE c[2]
    BY <1>5, <1>6, <1>11
  <2> HIDE DEF sign
  <2> QED
    BY <1>11, <2>1, <2>2
<1>12. CASE axis = 2
  <2> DEFINE sign == IF dir = 0 THEN -1 ELSE 1
  <2>1. 1 \in Axis /\ 3 \in Axis /\ sign \in {-1, 1} /\ size[1] = size[3]
    BY <1>7, <1>8, <1>12 DEF Axis
  <2>2. ASSUME NEW c \in Cells(size)
        PROVE  /\ RotatedCell(axis, dir, c)[axis] = c[axis]
               /\ RotatedCell(axis, dir, c)[1] = IF sign = 1 THEN c[3] ELSE size[1] - 1 - c[3]
               /\ RotatedCell(axis, dir, c)[3] = IF sign = 1 THEN size[1] - 1 - c[1] ELSE c[1]
    BY <1>7, <1>8, <1>12
  <2> HIDE DEF sign
  <2> QED
    BY <1>12, <2>1, <2>2
<1>13. CASE axis = 3
  <2> DEFINE sign == IF dir = 0 THEN 1 ELSE -1
  <2>1. 1 \in Axis /\ 2 \in Axis /\ sign \in {-1, 1} /\ size[1] = size[2]
    BY <1>9, <1>10, <1>13 DEF Axis
  <2>2. ASSUME NEW c \in Cells(size)
        PROVE  /\ RotatedCell(axis, dir, c)[axis] = c[axis]
               /\ RotatedCell(axis, dir, c)[1] = IF sign = 1 THEN c[2] ELSE size[1] - 1 - c[2]
               /\ RotatedCell(axis, dir, c)[2] = IF sign = 1 THEN size[1] - 1 - c[1] ELSE c[1]
    BY <1>9, <1>10, <1>13
  <2> HIDE DEF sign
  <2> QED
    BY <1>13, <2>1, <2>2
<1> QED
  BY <1>11, <1>12, <1>13 DEF Axis

\* What has been set when the line ends is a quarter turn.
LEMMA RotateEnds ==
  ASSUME TclInv, LineInv, Ends("rotate")
  PROVE  QuarterTurned(entry.axis, entry.data, data)
<1>1. Shape /\ Script /\ size \in Sizes
  BY DEF TclInv, Typed, Shape
<1>2. PICK way \in Rotations : way[1] = entry.axis /\ RotateStage(way)
  BY DEF LineInv, Rotating, Ends
<1>3. PICK axis \in Axis, dir \in {0, 1} : axis = way[1] /\ dir = way[2]
  BY TclAssumption
<1>4. N \in Nat \ {0} /\ Len(script) = 1
  BY <1>1, CellsInOrder DEF Ends
<1>5. ASSUME NEW c \in Cells(size)
      PROVE  /\ RotatedCell(axis, dir, c) \in Cells(size)
             /\ data[RotatedCell(axis, dir, c)] = entry.data[c]
  <2>1. PICK n \in 1 .. N : CellNo(n) = c
    BY <1>1, CellsInOrder
  <2>2. Done(3*N + 5) >= N + 3 + n
    BY <1>4 DEF Done
  <2> QED
    BY <1>2, <1>3, <2>1, <2>2 DEF RotateStage, Landed
<1>6. PICK a \in Axis, b \in Axis : \E sign \in {-1, 1} :
           /\ a # axis /\ b # axis /\ a < b /\ size[a] = size[b]
           /\ \A c \in Cells(size) :
                /\ RotatedCell(axis, dir, c)[axis] = c[axis]
                /\ RotatedCell(axis, dir, c)[a] =
                     IF sign = 1 THEN c[b] ELSE size[a] - 1 - c[b]
                /\ RotatedCell(axis, dir, c)[b] =
                     IF sign = 1 THEN size[a] - 1 - c[a] ELSE c[a]
  BY <1>1, <1>5, LandingTurns
<1>7. PICK sign \in {-1, 1} :
           /\ a # axis /\ b # axis /\ a < b /\ size[a] = size[b]
           /\ \A c \in Cells(size) :
                /\ RotatedCell(axis, dir, c)[axis] = c[axis]
                /\ RotatedCell(axis, dir, c)[a] =
                     IF sign = 1 THEN c[b] ELSE size[a] - 1 - c[b]
                /\ RotatedCell(axis, dir, c)[b] =
                     IF sign = 1 THEN size[a] - 1 - c[a] ELSE c[a]
  BY <1>6
<1>8. ASSUME NEW c \in Cells(size), NEW e \in Cells(size), e[axis] = c[axis],
             Middle(e, a) = sign * Middle(c, b), Middle(e, b) = (0 - sign) * Middle(c, a)
      PROVE  data[e] = entry.data[c]
  <2>1. PICK r \in Cells(size) : r = RotatedCell(axis, dir, c)
    BY <1>5
  <2>2. /\ r[axis] = c[axis]
        /\ r[a] = IF sign = 1 THEN c[b] ELSE size[a] - 1 - c[b]
        /\ r[b] = IF sign = 1 THEN size[a] - 1 - c[a] ELSE c[a]
    BY <1>7, <2>1
  <2>3. a # b
    BY <1>7 DEF Axis
  <2>4. e = r
    BY <1>1, <1>7, <1>8, <2>2, <2>3, TurnedPlace
  <2> QED
    BY <1>5, <2>1, <2>4
<1>9. QuarterTurned(axis, entry.data, data)
  <2> DEFINE A == CHOOSE x \in Other(axis) : \A y \in Other(axis) : x <= y
             B == CHOOSE x \in Other(axis) : x # A
  <2>1. A = a
    BY <1>7, OtherAxes
  <2>3. B = b
    <3>1. A \in Axis /\ A # axis /\ A < b
      BY <1>7, <2>1
    <3> HIDE DEF A
    <3> QED
      BY <1>7, <3>1, OtherAxes
  <2>2. \A c, e \in Cells(size) :
          /\ e[axis] = c[axis]
          /\ Middle(e, a) = sign * Middle(c, b)
          /\ Middle(e, b) = (0 - sign) * Middle(c, a)
          => data[e] = entry.data[c]
    BY <1>8
  <2> HIDE DEF A, B
  <2>4. /\ size[A] = size[B]
        /\ \A c, e \in Cells(size) :
             /\ e[axis] = c[axis]
             /\ Middle(e, A) = sign * Middle(c, B)
             /\ Middle(e, B) = (0 - sign) * Middle(c, A)
             => data[e] = entry.data[c]
    BY <1>7, <2>1, <2>2, <2>3
  <2> QED
    BY <2>4 DEF QuarterTurned, A, B
<1> QED
  BY <1>2, <1>3, <1>9

\* A rotation that is not disturbed is a quarter turn of the colours about the axis
\* asked for and the middle of the sprite (rotate of ext/sprite.class).
THEOREM RotationIsQuarter == TclSpec => RotateIsQuarter
<1>1. (TclInv /\ LineInv) /\ [TclNext]_tclVars =>
        [Ends("rotate") => QuarterTurned(entry.axis, entry.data, data)]_tclVars
  BY RotateEnds
<1> QED
  BY <1>1, LineInvariant, PTL DEF TclSpec, RotateIsQuarter
=============================================================================
